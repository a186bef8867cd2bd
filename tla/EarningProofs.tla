----------------------------- MODULE EarningProofs -----------------------------
(***************************************************************************)
(* What holds of the points that rules give, of tiers and of the           *)
(* conditions of coupons, for any number of requests, any rules, any tiers *)
(* and any bounds.                                                         *)
(*                                                                         *)
(* Earning: a balance is never overdrawn because what a handler is about   *)
(* to write carries the balance it was compared with.  That a rule gives   *)
(* no more than it should is an invariant about rewards stored and rewards *)
(* on their way together: three kinds of steps matter, one that grants     *)
(* nothing new, one that looks at earlier rewards, and one that stores a   *)
(* reward.  Tiers: while nothing is called between the reads of an answer, *)
(* its rows are the ladder of tiers, and the tier named next is the first  *)
(* above the total.  Conditions: the rows that meet a coupon's entries are *)
(* enough, and a row that was echoed meets its entry.                      *)
(***************************************************************************)
EXTENDS Earning, Eligibility, SharedLemmas

-----------------------------------------------------------------------------
(* What the arithmetic of the rules yields.                                *)

LEMMA DivIsNat ==
    ASSUME NEW a \in Nat, NEW b \in Nat \ {0}
    PROVE  a \div b \in Nat
  OBVIOUS

LEMMA TimesIsNat ==
    ASSUME NEW a \in Nat, NEW b \in Nat
    PROVE  a * b \in Nat
  OBVIOUS

LEMMA WholeIsWhole ==
    ASSUME NEW cents \in Nat
    PROVE  Whole(cents) \in Nat /\ Whole(cents) % 100 = 0
  BY DEF Whole

LEMMA RewardIsNat ==
    ASSUME NEW rule \in Rules, NEW amount \in Amounts
    PROVE  /\ Reward(rule, amount) \in Nat
           /\ (Reward(rule, amount) * CampaignRate) \div 100 \in Nat
  <1>1. rule.reward \in Nat /\ rule.min \in Nat \ {0} /\ amount \in Nat
        /\ CampaignRate \in Nat
    BY EarningAssumption
  <1>2. 100 * rule.reward \in Nat /\ amount \div rule.min \in Nat
    BY <1>1, DivIsNat
  <1> DEFINE times == IF rule.perAmount THEN amount \div rule.min ELSE 1
  <1>3. times \in Nat
    BY <1>2
  <1>4. Reward(rule, amount) = (100 * rule.reward) * times
    BY <1>1, <1>3 DEF Reward
  <1> HIDE DEF times
  <1>5. Reward(rule, amount) \in Nat
    BY <1>2, <1>3, <1>4, TimesIsNat
  <1>6. Reward(rule, amount) * CampaignRate \in Nat
    BY <1>1, <1>5, TimesIsNat
  <1>7. QED
    BY <1>5, <1>6, DivIsNat

LEMMA BurnIsNat ==
    ASSUME NEW rule \in BurnRules, NEW amount \in Nat
    PROVE  /\ EventBurn(rule, amount) \in Nat /\ GvrBurn(rule, amount) \in Nat
           /\ 100 * rule.limit \in Nat
  <1>1. rule.limit \in Nat /\ rule.factor \in Nat \ {0}
    BY EarningAssumption
  <1>2. (100 * amount) \div rule.factor \in Nat /\ 100 * rule.limit \in Nat
    BY <1>1, DivIsNat
  <1>3. Capped(rule, amount) \in Nat
    BY <1>2 DEF Capped
  <1>4. QED
    BY <1>2, <1>3 DEF EventBurn, GvrBurn

-----------------------------------------------------------------------------
(* The inductive invariant of the types.                                   *)

RowTriggers == UNION {Triggers(rule) : rule \in Rules}
EarnRows == [type : {"earn"}, trigger : RowTriggers, created : {Undated} \cup Nat,
             points : Nat, rule : Rules]
BurnRows == [type : {"burn"}, trigger : {"burn"}, created : {Undated} \cup Nat,
             points : Nat, rule : BurnRules]
Rows == EarnRows \cup BurnRows

Earns == [pc : {"check"}, kind : {"event", "gvr", "campaign"}, rule : Rules,
          amount : Amounts, copy : Nat]
Burns == [pc : {"check"}, kind : {"eventBurn", "appBurn", "ruleBurn", "campaignBurn"},
          rule : BurnRules, amount : Amounts, copy : Nat]
Stations == [pc : {"check"}, kind : {"gvrBurn"}, rule : {NoRule}, amount : BurnLists,
             copy : Nat]
Items == BurnRules \X (Amounts \cup {0})
Lists == [pc : {"rules"}, copy : Nat, last : Nat, list : Seq(Items) \ {<<>>},
          many : BOOLEAN]
Nexts == {Idle} \cup Lists
Loads == [pc : {"load"}, row : Rows, cents : Nat, next : Nexts]
Writes == [pc : {"insert", "save"}, copy : Nat, row : Rows, cents : Nat, next : Nexts]
Credits == [pc : {"credit", "row", "activity"}, rule : Rules, copy : Nat, cents : Nat]
Jobs == Nexts \cup Earns \cup Burns \cup Stations \cup Loads \cup Writes \cup Credits

(* A row to be stored is not of a later day, and a burn that is about to   *)
(* be written was covered by the balance it is subtracted from.            *)
JobOK(job) ==
    /\ job.pc \in {"load", "insert", "save"} => job.row.created <= today
    /\ job.pc \in {"insert", "save"} =>
          (job.row.type = "burn" => job.copy >= job.cents)

Types ==
    /\ wallet \in Nat /\ activities \in Nat /\ active \in BOOLEAN
    /\ today \in 0 .. Days /\ overlap \in BOOLEAN
    /\ txs \in Seq(Rows)
    /\ req \in [Requests -> Jobs]
    /\ \A i \in DOMAIN txs : txs[i].created <= today /\ txs[i].points % 100 = 0
    /\ \A r \in Requests : JobOK(req[r])

LEMMA TypesInitially == Init => Types
  <1>1. SUFFICES ASSUME Init PROVE Types
    OBVIOUS
  <1>2. InitialPoints \in Nat /\ 0 \in 0 .. Days
    BY EarningAssumption
  <1>3. Idle \in Jobs
    BY DEF Jobs, Nexts
  <1>4. req \in [Requests -> Jobs]
    BY <1>1, <1>3 DEF Init
  <1>5. \A r \in Requests : JobOK(req[r])
    BY <1>1 DEF Init, JobOK, Idle
  <1>6. txs = <<>> /\ txs \in Seq(Rows) /\ DOMAIN txs = {}
    BY <1>1 DEF Init
  <1>7. QED
    BY <1>1, <1>2, <1>4, <1>5, <1>6 DEF Init, Types

LEMMA TypesImplyTypeOK == Types => TypeOK
  <1>1. SUFFICES ASSUME Types PROVE TypeOK
    OBVIOUS
  <1>2. ASSUME NEW i \in DOMAIN txs
        PROVE  /\ txs[i].type \in {"earn", "burn"}
               /\ txs[i].created \in {Undated} \cup 0 .. today
               /\ txs[i].points \in Nat /\ txs[i].points % 100 = 0
    <2>1. txs[i] \in Rows
      BY <1>1 DEF Types
    <2>2. txs[i].type \in {"earn", "burn"} /\ txs[i].created \in {Undated} \cup Nat
          /\ txs[i].points \in Nat
      BY <2>1 DEF Rows, EarnRows, BurnRows
    <2>3. txs[i].created <= today /\ txs[i].points % 100 = 0 /\ today \in Nat
      BY <1>1, EarningAssumption DEF Types
    <2>4. txs[i].created \in {Undated} \cup 0 .. today
      BY <2>2, <2>3
    <2>5. QED
      BY <2>2, <2>3, <2>4
  <1>3. wallet \in Int
    BY <1>1 DEF Types
  <1>4. QED
    BY <1>1, <1>2, <1>3 DEF Types, TypeOK

(* A step that moves one request on, to a well-formed job.                 *)
LEMMA GoKeepsTypes ==
    ASSUME Types, NEW r \in Requests, NEW job \in Jobs, JobOK(job), Go(r, job),
           UNCHANGED <<tables, today>>, overlap' \in BOOLEAN
    PROVE  Types'
  <1>1. req' = [req EXCEPT ![r] = job] /\ req \in [Requests -> Jobs]
    BY DEF Go, Types
  <1>2. req' \in [Requests -> Jobs]
    BY <1>1
  <1>3. ASSUME NEW s \in Requests PROVE JobOK(req[s])'
    <2>1. req'[s] = job \/ req'[s] = req[s]
      BY <1>1
    <2>2. JobOK(req[s]) /\ today' = today
      BY DEF Types
    <2>3. QED
      BY <2>1, <2>2 DEF JobOK
  <1>4. QED
    BY <1>2, <1>3 DEF Types, tables

-----------------------------------------------------------------------------
(* The last transaction, as the query of the handlers orders them.         *)

LEMMA RowTypes ==
    ASSUME Types, NEW i \in DOMAIN txs
    PROVE  /\ i \in 1 .. Len(txs) /\ txs[i] \in Rows
           /\ txs[i].created \in {Undated} \cup Nat /\ txs[i].created \in Int
           /\ txs[i].created <= today
  <1>1. i \in 1 .. Len(txs) /\ txs[i] \in Rows /\ txs[i].created <= today
    BY DEF Types
  <1>2. QED
    BY <1>1 DEF Rows, EarnRows, BurnRows, Undated

LEMMA LatestIsLatest ==
    ASSUME Types, NEW ids \in SUBSET DOMAIN txs, ids # {}
    PROVE  /\ Latest(ids) \in ids
           /\ \A j \in ids : txs[j].created <= txs[Latest(ids)].created
  <1> DEFINE D == {txs[j].created : j \in ids}
  <1>1. D \in SUBSET Int /\ D # {} /\ \A d \in D : d <= today
    BY RowTypes
  <1>2. today \in Int
    BY EarningAssumption DEF Types
  <1>3. PICK d \in D : \A e \in D : e <= d
    BY <1>1, <1>2, MostExists
  <1> DEFINE C == {j \in ids : txs[j].created = d}
  <1>4. C # {} /\ C \in SUBSET Int /\ Len(txs) \in Int /\ \A j \in C : j <= Len(txs)
    BY <1>3, RowTypes DEF Types
  <1>5. PICK i \in C : \A j \in C : j <= i
    BY <1>4, MostExists
  <1> DEFINE P(k) == \A j \in ids : \/ txs[k].created > txs[j].created
                                    \/ txs[k].created = txs[j].created /\ k >= j
  <1>6. P(i)
    <2>1. SUFFICES ASSUME NEW j \in ids
                   PROVE  \/ txs[i].created > txs[j].created
                          \/ txs[i].created = txs[j].created /\ i >= j
      OBVIOUS
    <2>2. txs[i].created = d /\ i \in ids
      OBVIOUS
    <2>3. txs[j].created <= d /\ txs[j].created \in Int /\ d \in Int
      BY <1>1, <1>3
    <2>4. CASE txs[j].created = d
      <3>1. j <= i /\ i \in Int /\ j \in Int
        BY <1>4, <1>5, <2>4
      <3>2. QED
        BY <2>2, <2>4, <3>1
    <2>5. CASE txs[j].created # d
      BY <2>2, <2>3, <2>5
    <2>6. QED
      BY <2>4, <2>5
  <1>7. Latest(ids) = CHOOSE k \in ids : P(k)
    BY DEF Latest
  <1> HIDE DEF P
  <1>8. Latest(ids) \in ids /\ P(Latest(ids))
    BY <1>6, <1>7
  <1>9. ASSUME NEW j \in ids PROVE txs[j].created <= txs[Latest(ids)].created
    <2>1. txs[j].created \in Int /\ txs[Latest(ids)].created \in Int
      BY <1>8, RowTypes
    <2>2. QED
      BY <1>8, <2>1 DEF P
  <1>10. QED
    BY <1>8, <1>9

LEMMA LatestIsNat ==
    ASSUME Types, NEW ids \in SUBSET DOMAIN txs
    PROVE  Latest(ids) \in Nat /\ (Latest(ids) = 0 <=> ids = {})
  <1>1. CASE ids = {}
    BY <1>1 DEF Latest
  <1>2. CASE ids # {}
    <2>1. Latest(ids) \in ids
      BY <1>2, LatestIsLatest
    <2>2. Latest(ids) \in 1 .. Len(txs)
      BY <2>1, RowTypes
    <2>3. QED
      BY <1>2, <2>2 DEF Types
  <1>3. QED
    BY <1>1, <1>2

-----------------------------------------------------------------------------
(* Each step keeps the types.                                              *)

LEMMA JobOfPc ==
    ASSUME Types, NEW r \in Requests
    PROVE  /\ req[r] \in Jobs /\ JobOK(req[r])
           /\ At(r, "idle") => req[r] = Idle
           /\ At(r, "check") => /\ req[r] \in Earns \cup Burns \cup Stations
                                /\ req[r].copy \in Nat
           /\ At(r, "rules") => req[r] \in Lists
           /\ At(r, "load") => req[r] \in Loads
           /\ At(r, "insert") \/ At(r, "save") => req[r] \in Writes
           /\ At(r, "credit") \/ At(r, "row") \/ At(r, "activity") => req[r] \in Credits
  <1>1. req[r] \in Jobs /\ JobOK(req[r])
    BY DEF Types
  <1>2. req[r].pc \in {"idle", "check", "rules", "load", "insert", "save",
                       "credit", "row", "activity"}
    BY <1>1 DEF Jobs, Nexts, Idle, Earns, Burns, Stations, Lists, Loads, Writes, Credits
  <1>3. req[r] \in Earns \cup Burns \cup Stations => req[r].copy \in Nat
    BY DEF Earns, Burns, Stations
  <1>4. QED
    BY <1>1, <1>3 DEF At, Jobs, Nexts, Idle, Earns, Burns, Stations, Lists, Loads, Writes,
       Credits

LEMMA RowsOfRules ==
    ASSUME NEW cents \in Nat, NEW day \in {Undated} \cup Nat
    PROVE  /\ \A rule \in Rules : \A trigger \in Triggers(rule) :
                 Row("earn", trigger, day, cents, rule) \in Rows
           /\ \A rule \in BurnRules : Row("burn", "burn", day, cents, rule) \in Rows
  BY DEF Row, Rows, EarnRows, BurnRows, RowTriggers

(* Begin reads the wallet; the step to addTransaction takes a row along.   *)
LEMMA BeginKeepsTypes ==
    ASSUME Types, NEW r \in Requests, NEW sort, NEW rule, NEW amount,
           Begin(r, sort, rule, amount),
           \/ rule \in Rules /\ amount \in Amounts /\ sort \in {"event", "gvr", "campaign"}
           \/ /\ rule \in BurnRules /\ amount \in Amounts
              /\ sort \in {"eventBurn", "appBurn", "ruleBurn", "campaignBurn"}
           \/ rule = NoRule /\ amount \in BurnLists /\ sort = "gvrBurn"
    PROVE  Types'
  <1> DEFINE job == [pc |-> "check", kind |-> sort, rule |-> rule, amount |-> amount,
                     copy |-> wallet]
  <1>1. Go(r, job) /\ UNCHANGED <<tables, today>> /\ overlap' = (overlap \/ Busy)
    BY DEF Begin
  <1>2. wallet \in Nat
    BY DEF Types
  <1>3. job \in Jobs
    BY <1>2 DEF Jobs, Earns, Burns, Stations
  <1>4. JobOK(job)
    BY DEF JobOK
  <1>5. overlap' \in BOOLEAN
    BY <1>1 DEF Types
  <1> HIDE DEF job
  <1>6. QED
    BY <1>1, <1>3, <1>4, <1>5, GoKeepsTypes

LEMMA BookKeepsTypes ==
    ASSUME Types, NEW r \in Requests, NEW row \in Rows, NEW cents \in Nat,
           NEW next \in Nexts, row.created <= today, Book(r, row, cents, next),
           UNCHANGED <<tables, today, overlap>>
    PROVE  Types'
  <1> DEFINE job == [pc |-> "load", row |-> row, cents |-> cents, next |-> next]
  <1>1. Go(r, job) /\ overlap' \in BOOLEAN
    BY DEF Book, Types
  <1>2. job \in Jobs
    BY DEF Jobs, Loads
  <1>3. JobOK(job)
    BY DEF JobOK
  <1> HIDE DEF job
  <1>4. QED
    BY <1>1, <1>2, <1>3, GoKeepsTypes

LEMMA IdleKeepsTypes ==
    ASSUME Types, NEW r \in Requests, Go(r, Idle), UNCHANGED <<tables, today, overlap>>
    PROVE  Types'
  <1>1. Idle \in Jobs /\ JobOK(Idle)
    BY DEF Jobs, Nexts, JobOK, Idle
  <1>2. overlap' \in BOOLEAN
    BY DEF Types
  <1>3. QED
    BY <1>1, <1>2, GoKeepsTypes

LEMMA StartKeepsTypes ==
    ASSUME Types, NEW r \in Requests, Start(r)
    PROVE  Types'
  <1>1. CASE \E rule \in Rules, sort \in {"event", "gvr", "campaign"}, amount \in Amounts :
               sort \in rule.paths /\ Begin(r, sort, rule, amount)
    BY <1>1, BeginKeepsTypes
  <1>2. CASE \E rule \in BurnRules, amount \in Amounts,
               sort \in {"eventBurn", "appBurn", "ruleBurn", "campaignBurn"} :
               Begin(r, sort, rule, amount)
    BY <1>2, BeginKeepsTypes
  <1>3. CASE \E list \in BurnLists : Begin(r, "gvrBurn", NoRule, list)
    BY <1>3, BeginKeepsTypes
  <1>4. QED
    BY <1>1, <1>2, <1>3 DEF Start

(* What a handler that earns knows when it goes on to write.               *)
LEMMA EarnStep ==
    ASSUME Types, NEW r \in Requests, NEW trigger, NEW cents \in Nat,
           req[r] \in Earns, trigger \in Triggers(req[r].rule), Earn(r, trigger, cents),
           UNCHANGED <<tables, today, overlap>>
    PROVE  Types'
  <1> DEFINE row == Row("earn", trigger, today, cents, req[r].rule)
  <1>1. req[r].rule \in Rules
    BY DEF Earns
  <1>2. today \in Nat
    BY EarningAssumption DEF Types
  <1>3. row \in Rows
    BY <1>1, <1>2, RowsOfRules
  <1>4. row.created <= today
    BY <1>2 DEF Row
  <1>5. Book(r, row, cents, Idle) /\ Idle \in Nexts
    BY DEF Earn, Nexts
  <1> HIDE DEF row
  <1>6. QED
    BY <1>3, <1>4, <1>5, BookKeepsTypes

LEMMA KindTells ==
    ASSUME Types, NEW r \in Requests, At(r, "check")
    PROVE  /\ req[r].kind \in {"event", "gvr", "campaign"} =>
                 req[r] \in Earns /\ req[r].rule \in Rules /\ req[r].amount \in Amounts
           /\ req[r].kind \in {"eventBurn", "appBurn", "ruleBurn", "campaignBurn"} =>
                 req[r].rule \in BurnRules /\ req[r].amount \in Amounts
           /\ req[r].kind = "gvrBurn" => req[r].amount \in BurnLists
  <1>1. req[r] \in Earns \cup Burns \cup Stations
    BY JobOfPc
  <1>2. QED
    BY <1>1 DEF Earns, Burns, Stations

LEMMA EarningKeepsTypes ==
    ASSUME Types, NEW r \in Requests, EarnWithEvent(r) \/ GvrEarnWithEvent(r)
    PROVE  Types'
  <1> DEFINE rule == req[r].rule
  <1>1. CASE EarnWithEvent(r)
    <2>1. req[r] \in Earns /\ rule \in Rules /\ req[r].amount \in Amounts
      BY <1>1, KindTells DEF EarnWithEvent
    <2>2. Earn(r, rule.trigger, Reward(rule, req[r].amount))
      BY <1>1 DEF EarnWithEvent
    <2>3. Reward(rule, req[r].amount) \in Nat
      BY <2>1, RewardIsNat
    <2>4. rule.trigger \in Triggers(rule) /\ UNCHANGED <<tables, today, overlap>>
      BY <1>1 DEF Triggers, EarnWithEvent
    <2>5. QED
      BY <2>1, <2>2, <2>3, <2>4, EarnStep
  <1>2. CASE GvrEarnWithEvent(r)
    <2> DEFINE cents == (Reward(rule, req[r].amount) * CampaignRate) \div 100
    <2>1. req[r] \in Earns /\ rule \in Rules /\ req[r].amount \in Amounts
      BY <1>2, KindTells DEF GvrEarnWithEvent
    <2>2. Earn(r, "GVR Earn", cents)
      BY <1>2 DEF GvrEarnWithEvent
    <2>3. cents \in Nat
      BY <2>1, RewardIsNat
    <2>4. "GVR Earn" \in Triggers(rule) /\ UNCHANGED <<tables, today, overlap>>
      BY <1>2 DEF Triggers, GvrEarnWithEvent
    <2> HIDE DEF cents
    <2>5. QED
      BY <2>1, <2>2, <2>3, <2>4, EarnStep
  <1>3. QED
    BY <1>1, <1>2

LEMMA EarnPointsKeepsTypes ==
    ASSUME Types, NEW r \in Requests, EarnPoints(r)
    PROVE  Types'
  <1> DEFINE cents == (Reward(req[r].rule, req[r].amount) * CampaignRate) \div 100
             job == [pc |-> "credit", rule |-> req[r].rule, copy |-> req[r].copy,
                     cents |-> cents]
  <1>1. req[r].rule \in Rules /\ req[r].amount \in Amounts /\ req[r].copy \in Nat
    BY KindTells, JobOfPc DEF EarnPoints
  <1>2. cents \in Nat
    BY <1>1, RewardIsNat
  <1> HIDE DEF cents
  <1>3. job \in Jobs /\ JobOK(job)
    BY <1>1, <1>2 DEF Jobs, Credits, JobOK
  <1>4. Go(r, job) /\ UNCHANGED <<tables, today>> /\ overlap' \in BOOLEAN
    BY DEF EarnPoints, Types, cents
  <1> HIDE DEF job
  <1>5. QED
    BY <1>3, <1>4, GoKeepsTypes

LEMMA BurnByRuleKeepsTypes ==
    ASSUME Types, NEW r \in Requests, NEW cents \in Nat, NEW created \in {Undated, today},
           NEW sort \in {"eventBurn", "appBurn", "ruleBurn", "campaignBurn"},
           BurnByRule(r, sort, created, cents)
    PROVE  Types'
  <1> DEFINE row == Row("burn", "burn", created, cents, req[r].rule)
  <1>1. req[r].rule \in BurnRules
    BY KindTells DEF BurnByRule
  <1>2. today \in Nat /\ created \in {Undated} \cup Nat /\ created <= today
    BY EarningAssumption DEF Types, Undated
  <1>3. row \in Rows
    BY <1>1, <1>2, RowsOfRules
  <1>4. row.created <= today
    BY <1>2 DEF Row
  <1>5. /\ Book(r, row, cents, Idle) /\ Idle \in Nexts
        /\ UNCHANGED <<tables, today, overlap>>
    BY DEF BurnByRule, Nexts
  <1> HIDE DEF row
  <1>6. QED
    BY <1>3, <1>4, <1>5, BookKeepsTypes

LEMMA BurningKeepsTypes ==
    ASSUME Types, NEW r \in Requests,
           \/ BurnWithEvent(r) \/ BurnTransaction(r)
           \/ BurnPoints(r) \/ BurnPointsWithCampaign(r)
    PROVE  Types'
  <1> DEFINE limit == 100 * req[r].rule.limit
             cut == EventBurn(req[r].rule, req[r].amount)
  <1>1. req[r].rule \in BurnRules /\ req[r].amount \in Amounts
    BY KindTells DEF BurnWithEvent, BurnTransaction, BurnPoints, BurnPointsWithCampaign,
       BurnByRule
  <1>2. limit \in Nat /\ cut \in Nat
    BY <1>1, BurnIsNat, EarningAssumption
  <1>3. \/ BurnByRule(r, "eventBurn", today, cut) \/ BurnByRule(r, "appBurn", today, cut)
        \/ BurnByRule(r, "ruleBurn", Undated, limit)
        \/ BurnByRule(r, "campaignBurn", Undated, limit)
    BY DEF BurnWithEvent, BurnTransaction, BurnPoints, BurnPointsWithCampaign
  <1> HIDE DEF limit, cut
  <1>4. QED
    BY <1>2, <1>3, BurnByRuleKeepsTypes

LEMMA BurnedAreRows == Burned \in SUBSET DOMAIN txs
  BY DEF Burned

LEMMA GvrBurnBeginKeepsTypes ==
    ASSUME Types, NEW r \in Requests, GvrBurnBegin(r)
    PROVE  Types'
  <1> DEFINE job == [pc |-> "rules", copy |-> req[r].copy, last |-> Latest(Burned),
                     list |-> req[r].amount, many |-> Len(req[r].amount) > 1]
  <1>1. req[r].copy \in Nat /\ req[r].amount \in BurnLists
    BY KindTells, JobOfPc DEF GvrBurnBegin
  <1>2. req[r].amount \in Seq(Items) \ {<<>>}
    BY <1>1, EarningAssumption DEF Items
  <1>3. Latest(Burned) \in Nat
    BY BurnedAreRows, LatestIsNat
  <1>4. (Len(req[r].amount) > 1) \in BOOLEAN
    OBVIOUS
  <1>5. job \in Jobs /\ JobOK(job)
    BY <1>1, <1>2, <1>3, <1>4 DEF Jobs, Nexts, Lists, JobOK
  <1>6. Go(r, job) /\ UNCHANGED <<tables, today>> /\ overlap' \in BOOLEAN
    BY DEF GvrBurnBegin, Types
  <1> HIDE DEF job
  <1>7. QED
    BY <1>5, <1>6, GoKeepsTypes

LEMMA GvrBurnNextKeepsTypes ==
    ASSUME Types, NEW r \in Requests, GvrBurnNext(r)
    PROVE  Types'
  <1> DEFINE item == Head(req[r].list)
             rest == [req[r] EXCEPT !.list = Tail(@)]
             next == IF rest.list = <<>> THEN Idle ELSE rest
             cents == GvrBurn(item[1], item[2])
             row == Row("burn", "burn", today, cents, item[1])
  <1>1. req[r] \in Lists
    BY JobOfPc DEF GvrBurnNext
  <1>2. req[r].list \in Seq(Items) /\ req[r].list # <<>>
    BY <1>1 DEF Lists
  <1>3. item \in Items /\ Tail(req[r].list) \in Seq(Items)
    BY <1>2
  <1>4. item[1] \in BurnRules /\ item[2] \in Nat
    <2>1. ASSUME NEW i \in Items PROVE i[1] \in BurnRules /\ i[2] \in Nat
      <3>1. i[1] \in BurnRules /\ i[2] \in Amounts \cup {0}
        BY DEF Items
      <3>2. Amounts \cup {0} \subseteq Nat
        BY EarningAssumption
      <3>3. QED
        BY <3>1, <3>2
    <2>2. QED
      BY <1>3, <2>1
  <1>5. cents \in Nat
    BY <1>4, BurnIsNat
  <1>6. rest.list = Tail(req[r].list) /\ (rest.list # <<>> => rest \in Lists)
    BY <1>1, <1>3 DEF Lists
  <1>7. next \in Nexts
    BY <1>6 DEF Nexts
  <1>8. today \in Nat
    BY EarningAssumption DEF Types
  <1> HIDE DEF rest, item, cents
  <1>9. row \in Rows /\ row.created <= today
    BY <1>4, <1>5, <1>8, RowsOfRules DEF Row
  <1>10. /\ \/ Go(r, next) \/ Go(r, Idle) \/ Book(r, row, cents, next)
         /\ UNCHANGED <<tables, today, overlap>>
    BY DEF GvrBurnNext, item, rest, cents
  <1>11. next \in Jobs /\ JobOK(next)
    BY <1>7 DEF Jobs, Nexts, JobOK, Idle, Lists
  <1>12. overlap' \in BOOLEAN
    BY <1>10 DEF Types
  <1> HIDE DEF row, next
  <1>13. CASE Go(r, next)
    BY <1>10, <1>11, <1>12, <1>13, GoKeepsTypes
  <1>14. CASE Go(r, Idle)
    BY <1>10, <1>14, IdleKeepsTypes
  <1>15. CASE Book(r, row, cents, next)
    BY <1>5, <1>7, <1>9, <1>10, <1>15, BookKeepsTypes
  <1>16. QED
    BY <1>10, <1>13, <1>14, <1>15

LEMMA NextIsJob ==
    ASSUME NEW next \in Nexts
    PROVE  next \in Jobs /\ JobOK(next)
  BY DEF Jobs, Nexts, JobOK, Idle, Lists

LEMMA AddLoadKeepsTypes ==
    ASSUME Types, NEW r \in Requests, AddLoad(r)
    PROVE  Types'
  <1> DEFINE job == [pc |-> "insert", copy |-> wallet, row |-> req[r].row,
                     cents |-> req[r].cents, next |-> req[r].next]
  <1>1. At(r, "load") /\ UNCHANGED <<tables, today, overlap>> /\ overlap' \in BOOLEAN
    BY DEF AddLoad, Types
  <1>2. req[r] \in Loads /\ JobOK(req[r])
    BY <1>1, JobOfPc
  <1>3. CASE Sufficient(req[r].row, req[r].cents)
    <2>1. wallet \in Nat
      BY DEF Types
    <2>2. job \in Jobs
      BY <1>2, <2>1 DEF Loads, Jobs, Writes
    <2>3. req[r].row.created <= today
      BY <1>1, <1>2 DEF JobOK, At
    <2>4. JobOK(job)
      BY <1>3, <2>3 DEF JobOK, Sufficient
    <2>5. Go(r, job)
      BY <1>3 DEF AddLoad
    <2> HIDE DEF job
    <2>6. QED
      BY <1>1, <2>2, <2>4, <2>5, GoKeepsTypes
  <1>4. CASE ~Sufficient(req[r].row, req[r].cents)
    BY <1>1, <1>4, IdleKeepsTypes DEF AddLoad
  <1>5. QED
    BY <1>3, <1>4

(* A step that writes: the wallet, the activities, or one more row.        *)
LEMMA WriteKeepsTypes ==
    ASSUME Types, NEW r \in Requests, NEW job \in Jobs, JobOK(job), Go(r, job),
           wallet' \in Nat, activities' \in Nat, UNCHANGED <<active, today, overlap>>,
           \/ txs' = txs
           \/ \E row \in Rows : /\ txs' = Append(txs, row)
                                /\ row.created <= today /\ row.points % 100 = 0
    PROVE  Types'
  <1>1. req' = [req EXCEPT ![r] = job] /\ req \in [Requests -> Jobs]
    BY DEF Go, Types
  <1>2. req' \in [Requests -> Jobs]
    BY <1>1
  <1>3. ASSUME NEW s \in Requests PROVE JobOK(req[s])'
    <2>1. req'[s] = job \/ req'[s] = req[s]
      BY <1>1
    <2>2. JobOK(req[s]) /\ today' = today
      BY DEF Types
    <2>3. QED
      BY <2>1, <2>2 DEF JobOK
  <1>4. /\ txs' \in Seq(Rows)
        /\ \A i \in DOMAIN txs' : txs'[i].created <= today' /\ txs'[i].points % 100 = 0
    <2>1. CASE txs' = txs
      BY <2>1 DEF Types
    <2>2. CASE \E row \in Rows : /\ txs' = Append(txs, row)
                                 /\ row.created <= today /\ row.points % 100 = 0
      <3>1. PICK row \in Rows : /\ txs' = Append(txs, row)
                                /\ row.created <= today /\ row.points % 100 = 0
        BY <2>2
      <3>2. txs \in Seq(Rows) /\ txs' \in Seq(Rows)
        BY <3>1 DEF Types
      <3>3. \A i \in DOMAIN txs' : txs'[i] = row \/ (i \in DOMAIN txs /\ txs'[i] = txs[i])
        BY <3>1, <3>2
      <3>4. QED
        BY <3>1, <3>2, <3>3 DEF Types
    <2>3. QED
      BY <2>1, <2>2
  <1>5. QED
    BY <1>2, <1>3, <1>4 DEF Types

LEMMA StoredIsARow ==
    ASSUME NEW row \in Rows
    PROVE  /\ Stored(row) \in Rows /\ Stored(row).created = row.created
           /\ Stored(row).points % 100 = 0 /\ Stored(row).type = row.type
           /\ Stored(row).rule = row.rule /\ Stored(row).trigger = row.trigger
  <1>1. row.points \in Nat
    BY DEF Rows, EarnRows, BurnRows
  <1>2. Whole(row.points) \in Nat /\ Whole(row.points) % 100 = 0
    BY <1>1, WholeIsWhole
  <1>3. QED
    BY <1>2 DEF Stored, Rows, EarnRows, BurnRows

LEMMA InsertKeepsTypes ==
    ASSUME Types, NEW r \in Requests, Insert(r)
    PROVE  Types'
  <1> DEFINE job == [req[r] EXCEPT !.pc = "save"]
             row == req[r].row
  <1>1. At(r, "insert") /\ txs' = Append(txs, Stored(row)) /\ Go(r, job)
    BY DEF Insert
  <1>2. req[r] \in Writes /\ JobOK(req[r])
    BY <1>1, JobOfPc
  <1>3. row \in Rows /\ row.created <= today
    BY <1>1, <1>2 DEF Writes, JobOK, At
  <1>4. job \in Jobs
    BY <1>2 DEF Writes, Jobs
  <1>5. JobOK(job)
    BY <1>1, <1>2 DEF JobOK, At, Writes
  <1>6. wallet' \in Nat /\ activities' \in Nat /\ UNCHANGED <<active, today, overlap>>
    BY DEF Insert, Types
  <1> HIDE DEF job, row
  <1>7. QED
    BY <1>1, <1>3, <1>4, <1>5, <1>6, StoredIsARow, WriteKeepsTypes

LEMMA SaveWalletKeepsTypes ==
    ASSUME Types, NEW r \in Requests, SaveWallet(r)
    PROVE  Types'
  <1>1. At(r, "save") /\ Go(r, req[r].next)
    BY DEF SaveWallet
  <1>2. req[r] \in Writes /\ JobOK(req[r])
    BY <1>1, JobOfPc
  <1>3. req[r].next \in Nexts /\ req[r].copy \in Nat /\ req[r].cents \in Nat
        /\ req[r].row.type \in {"earn", "burn"}
    BY <1>2 DEF Writes, Rows, EarnRows, BurnRows
  <1>4. req[r].row.type = "burn" => req[r].copy >= req[r].cents
    BY <1>1, <1>2 DEF JobOK, At
  <1>5. wallet' \in Nat
    BY <1>3, <1>4 DEF SaveWallet
  <1>6. activities' \in Nat /\ UNCHANGED <<active, today, overlap>> /\ txs' = txs
    BY DEF SaveWallet, Types
  <1>7. QED
    BY <1>1, <1>3, <1>5, <1>6, NextIsJob, WriteKeepsTypes

LEMMA AdvanceGoes ==
    ASSUME Types, NEW r \in Requests, Advance(r),
           At(r, "credit") \/ At(r, "row") \/ At(r, "activity")
    PROVE  \E job \in Jobs : /\ JobOK(job) /\ Go(r, job)
                             /\ \/ job = Idle
                                \/ /\ At(r, "credit") /\ job.pc = "row"
                                   /\ job.rule = req[r].rule
                                \/ At(r, "row") /\ job.pc = "activity"
  <1> DEFINE job == [req[r] EXCEPT !.pc = After(@)]
  <1>1. req[r] \in Credits
    BY JobOfPc
  <1>2. CASE At(r, "activity")
    <2>1. Go(r, Idle)
      BY <1>2 DEF Advance, After, At
    <2>2. Idle \in Jobs /\ JobOK(Idle)
      BY NextIsJob DEF Nexts
    <2>3. QED
      BY <2>1, <2>2
  <1>3. CASE At(r, "credit") \/ At(r, "row")
    <2>1. After(req[r].pc) = IF At(r, "credit") THEN "row" ELSE "activity"
      BY <1>3 DEF After, At
    <2>2. job \in Credits /\ job.pc = After(req[r].pc) /\ job.rule = req[r].rule
      BY <1>1, <2>1 DEF Credits
    <2>3. job \in Jobs /\ JobOK(job)
      BY <2>1, <2>2 DEF Jobs, JobOK
    <2>4. Go(r, job)
      BY <2>1 DEF Advance
    <2> HIDE DEF job
    <2>5. QED
      BY <1>3, <2>1, <2>2, <2>3, <2>4 DEF At
  <1>4. QED
    BY <1>2, <1>3

LEMMA CreditingKeepsTypes ==
    ASSUME Types, NEW r \in Requests,
           Credit(r) \/ CreditInsert(r) \/ CreateCustomerActivity(r)
    PROVE  Types'
  <1>1. Advance(r) /\ (At(r, "credit") \/ At(r, "row") \/ At(r, "activity"))
    BY DEF Credit, CreditInsert, CreateCustomerActivity
  <1>2. req[r] \in Credits
    BY <1>1, JobOfPc
  <1>3. PICK job \in Jobs : JobOK(job) /\ Go(r, job)
    BY <1>1, AdvanceGoes
  <1>4. req[r].copy \in Nat /\ req[r].cents \in Nat /\ req[r].rule \in Rules
    BY <1>2 DEF Credits
  <1>5. wallet' \in Nat /\ activities' \in Nat /\ UNCHANGED <<active, today, overlap>>
    BY <1>4 DEF Credit, CreditInsert, CreateCustomerActivity, Types
  <1> DEFINE row == Row("earn", req[r].rule.trigger, Undated, req[r].cents, req[r].rule)
  <1>6. row \in Rows
    BY <1>4, RowsOfRules DEF Triggers
  <1>7. row.created <= today
    BY EarningAssumption DEF Types, Row, Undated
  <1>8. txs' = txs \/ txs' = Append(txs, Stored(row))
    BY DEF Credit, CreditInsert, CreateCustomerActivity
  <1> HIDE DEF row
  <1>9. QED
    BY <1>3, <1>5, <1>6, <1>7, <1>8, StoredIsARow, WriteKeepsTypes

(* The steps that are no handler's.                                        *)
LEMMA OthersKeepTypes ==
    ASSUME Types, UpdateStatus \/ Tomorrow \/ UNCHANGED vars
    PROVE  Types'
  <1>1. UNCHANGED <<wallet, txs, activities, req, overlap>>
    BY DEF UpdateStatus, Tomorrow, vars, tables
  <1>2. active' \in BOOLEAN
    BY DEF UpdateStatus, Tomorrow, vars, tables, Types
  <1>3. today' \in 0 .. Days /\ today <= today' /\ today \in Nat /\ today' \in Nat
    BY EarningAssumption DEF UpdateStatus, Tomorrow, vars, Types
  <1>4. ASSUME NEW i \in DOMAIN txs PROVE txs[i].created <= today'
    BY <1>3, RowTypes
  <1>5. ASSUME NEW r \in Requests PROVE JobOK(req[r])'
    <2>1. req[r] \in Jobs /\ JobOK(req[r])
      BY JobOfPc
    <2>2. req[r].pc \in {"load", "insert", "save"} =>
             req[r].row \in Rows /\ req[r].row.created <= today
      BY <2>1 DEF JobOK, Jobs, Nexts, Idle, Earns, Burns, Stations, Lists, Loads, Writes,
         Credits
    <2>3. req[r].pc \in {"load", "insert", "save"} =>
             /\ req[r].row.created \in Int /\ req[r].row.created <= today'
      BY <1>3, <2>2 DEF Rows, EarnRows, BurnRows, Undated
    <2>4. QED
      BY <1>1, <2>1, <2>3 DEF JobOK
  <1>6. QED
    BY <1>1, <1>2, <1>3, <1>4, <1>5 DEF Types

LEMMA TypesKept == Types /\ [Next]_vars => Types'
  <1>1. SUFFICES ASSUME Types, [Next]_vars PROVE Types'
    OBVIOUS
  <1>2. ASSUME NEW r \in Requests, Refused(r) \/ Die(r) PROVE Types'
    BY <1>1, <1>2, IdleKeepsTypes DEF Refused, Die
  <1>3. CASE \E r \in Requests :
               \/ Start(r) \/ Refused(r)
               \/ EarnWithEvent(r) \/ GvrEarnWithEvent(r) \/ EarnPoints(r)
               \/ BurnWithEvent(r) \/ BurnTransaction(r)
               \/ BurnPoints(r) \/ BurnPointsWithCampaign(r)
               \/ GvrBurnBegin(r) \/ GvrBurnNext(r)
               \/ AddLoad(r) \/ Insert(r) \/ SaveWallet(r)
               \/ Credit(r) \/ CreditInsert(r) \/ CreateCustomerActivity(r)
               \/ Die(r)
    BY <1>1, <1>2, <1>3, StartKeepsTypes, EarningKeepsTypes, EarnPointsKeepsTypes,
       BurningKeepsTypes, GvrBurnBeginKeepsTypes, GvrBurnNextKeepsTypes, AddLoadKeepsTypes,
       InsertKeepsTypes, SaveWalletKeepsTypes, CreditingKeepsTypes
  <1>4. CASE UpdateStatus \/ Tomorrow \/ UNCHANGED vars
    BY <1>1, <1>4, OthersKeepTypes
  <1>5. QED
    BY <1>1, <1>3, <1>4 DEF Next

(* The types hold throughout, whatever the handlers' order.                *)
THEOREM TypesAlways == Spec => []Types
  BY TypesInitially, TypesKept, PTL DEF Spec

(* Every variable stays in its range, and every stored transaction says    *)
(* whole points.                                                           *)
THEOREM TypeCorrect == Spec => []TypeOK
  BY TypesAlways, TypesImplyTypeOK, PTL

(* No interleaving of burns and earnings takes more from the wallet than   *)
(* there is.                                                               *)
THEOREM NeverOverdraws == Spec => []NeverOverdrawn
  <1>1. Types => NeverOverdrawn
    BY DEF Types, NeverOverdrawn
  <1>2. QED
    BY <1>1, TypesAlways, PTL

-----------------------------------------------------------------------------
(* Who is about to be given what.                                          *)

(* A request past its look at earlier rewards will store one: as of a day  *)
(* by addTransaction, without a date by creditWallet.                      *)
Pays(job, rule, trigger, day) ==
    \/ /\ job.pc \in {"load", "insert"} /\ job.row.type = "earn"
       /\ job.row.rule = rule /\ job.row.trigger = trigger /\ job.row.created = day
    \/ /\ job.pc \in {"credit", "row"} /\ job.rule = rule
       /\ trigger = rule.trigger /\ day = Undated

DayOrNone == {Undated} \cup Nat

Due(rule, trigger) ==
    {r \in Requests : \E day \in DayOrNone : Pays(req[r], rule, trigger, day)}

Limit == IF overlap THEN Cardinality(Requests) ELSE 1

OneAtATime ==
    ~overlap => \A r, s \in Requests : req[r] # Idle /\ req[s] # Idle => r = s

(* Rewards stored and rewards under way, together, keep to the limit.      *)
OnceCounted ==
    \A rule \in Rules : \A trigger \in Triggers(rule) : rule.frequency = "once" =>
        Cardinality(By(rule, trigger)) + Cardinality(Due(rule, trigger)) <= Limit

(* A reward under way is of another period than those stored.              *)
NextPeriod ==
    ~overlap =>
      \A rule \in Rules : \A trigger \in Triggers(rule) :
        \A r \in Requests : \A day \in Nat : Pays(req[r], rule, trigger, day) =>
          \A i \in Dated(By(rule, trigger)) : Apart(rule.frequency, txs[i].created, day)

Granting == Types /\ OneAtATime /\ OnceCounted /\ OncePerPeriod /\ NextPeriod

LEMMA SetsAreFinite ==
    ASSUME Types, NEW rule, NEW trigger
    PROVE  /\ IsFiniteSet(By(rule, trigger)) /\ Cardinality(By(rule, trigger)) \in Nat
           /\ IsFiniteSet(Due(rule, trigger)) /\ Cardinality(Due(rule, trigger)) \in Nat
           /\ By(rule, trigger) \in SUBSET (1 .. Len(txs)) /\ Len(txs) \in Nat
           /\ Due(rule, trigger) \in SUBSET Requests
  <1>1. By(rule, trigger) \in SUBSET (1 .. Len(txs)) /\ Len(txs) \in Nat
    BY DEF By, Given, Types
  <1>2. IsFiniteSet(1 .. Len(txs))
    BY <1>1, FS_Interval
  <1>3. Due(rule, trigger) \in SUBSET Requests /\ IsFiniteSet(Requests)
    BY EarningAssumption DEF Due
  <1>4. IsFiniteSet(By(rule, trigger)) /\ IsFiniteSet(Due(rule, trigger))
    BY <1>1, <1>2, <1>3, FS_Subset
  <1>5. QED
    BY <1>1, <1>3, <1>4, FS_CardinalityType

LEMMA LimitGrows ==
    ASSUME overlap \in BOOLEAN, overlap => overlap', NEW r \in Requests
    PROVE  Limit \in Nat /\ Limit' \in Nat /\ Limit <= Limit'
  <1>1. IsFiniteSet(Requests) /\ Cardinality(Requests) \in Nat
    BY EarningAssumption, FS_CardinalityType
  <1>2. Cardinality(Requests) # 0
    BY <1>1, FS_EmptySet
  <1>3. QED
    BY <1>1, <1>2 DEF Limit

(* A step that grants nothing new.                                         *)
LEMMA NoGrant ==
    ASSUME Granting, Types', NEW r \in Requests, NEW job, Go(r, job), txs' = txs,
           overlap => overlap', OneAtATime',
           \A rule, trigger, day : Pays(job, rule, trigger, day) =>
                                   Pays(req[r], rule, trigger, day)
    PROVE  Granting'
  <1>1. req' = [req EXCEPT ![r] = job] /\ req \in [Requests -> Jobs]
    BY DEF Go, Granting, Types
  <1>2. \A s \in Requests : \A rule, trigger, day :
           Pays(req'[s], rule, trigger, day) => Pays(req[s], rule, trigger, day)
    BY <1>1
  <1>3. ASSUME NEW rule \in Rules, NEW trigger
        PROVE  /\ By(rule, trigger)' = By(rule, trigger)
               /\ Due(rule, trigger)' \in SUBSET Due(rule, trigger)
    BY <1>2 DEF By, Given, Due
  <1>4. OnceCounted'
    <2>1. SUFFICES ASSUME NEW rule \in Rules, NEW trigger \in Triggers(rule),
                          rule.frequency = "once"
                   PROVE  (Cardinality(By(rule, trigger)) + Cardinality(Due(rule, trigger))
                             <= Limit)'
      BY DEF OnceCounted, Triggers
    <2>2. Cardinality(By(rule, trigger)) + Cardinality(Due(rule, trigger)) <= Limit
      BY <2>1 DEF Granting, OnceCounted
    <2>3. /\ IsFiniteSet(Due(rule, trigger)) /\ Cardinality(Due(rule, trigger)) \in Nat
          /\ Cardinality(By(rule, trigger)) \in Nat
      BY SetsAreFinite DEF Granting
    <2>4. /\ Cardinality(Due(rule, trigger)') <= Cardinality(Due(rule, trigger))
          /\ Cardinality(Due(rule, trigger)') \in Nat
      BY <1>3, <2>3, FS_Subset, FS_CardinalityType
    <2>5. Limit \in Nat /\ Limit' \in Nat /\ Limit <= Limit'
      BY LimitGrows DEF Granting, Types
    <2>6. Cardinality(By(rule, trigger)') = Cardinality(By(rule, trigger))
      BY <1>3
    <2>7. QED
      BY <2>2, <2>3, <2>4, <2>5, <2>6
  <1>5. OncePerPeriod'
    BY <1>3 DEF Granting, OncePerPeriod, Dated, Triggers
  <1>6. NextPeriod'
    BY <1>2, <1>3 DEF Granting, NextPeriod, Dated, Triggers
  <1>7. QED
    BY <1>4, <1>5, <1>6 DEF Granting

(* A request looks at earlier rewards, and one is on its way.              *)
LEMMA Grant ==
    ASSUME Granting, Types', NEW r \in Requests, NEW job, Go(r, job), txs' = txs,
           overlap' = overlap, OneAtATime', req[r] # Idle,
           NEW rule0, NEW trigger0, NEW day0,
           \A rule, trigger, day : Pays(job, rule, trigger, day) =>
               rule = rule0 /\ trigger = trigger0 /\ day = day0,
           rule0.frequency = "once" => Given(trigger0) = {},
           day0 # Undated =>
               \A i \in Dated(Given(trigger0)) : Apart(rule0.frequency, txs[i].created, day0)
    PROVE  Granting'
  <1>1. req' = [req EXCEPT ![r] = job] /\ req \in [Requests -> Jobs]
    BY DEF Go, Granting, Types
  <1>2. ASSUME NEW rule \in Rules, NEW trigger
        PROVE  By(rule, trigger)' = By(rule, trigger)
    BY DEF By, Given
  <1>3. OnceCounted'
    <2>1. SUFFICES ASSUME NEW rule \in Rules, NEW trigger \in Triggers(rule),
                          rule.frequency = "once"
                   PROVE  (Cardinality(By(rule, trigger)) + Cardinality(Due(rule, trigger))
                             <= Limit)'
      BY DEF OnceCounted, Triggers
    <2>2. Cardinality(By(rule, trigger)) + Cardinality(Due(rule, trigger)) <= Limit
      BY <2>1 DEF Granting, OnceCounted
    <2>3. /\ IsFiniteSet(Due(rule, trigger)) /\ Cardinality(Due(rule, trigger)) \in Nat
          /\ Cardinality(By(rule, trigger)) \in Nat
      BY SetsAreFinite DEF Granting
    <2>4. By(rule, trigger)' = By(rule, trigger) /\ Limit' = Limit
      BY <1>2 DEF Limit
    <2>5. CASE rule = rule0 /\ trigger = trigger0
      <3>1. By(rule, trigger) = {}
        BY <2>1, <2>5 DEF By
      <3>2. Cardinality(By(rule, trigger)) = 0
        BY <3>1, FS_EmptySet
      <3>3. CASE overlap
        <4>1. Due(rule, trigger)' \in SUBSET Requests /\ IsFiniteSet(Requests)
          BY EarningAssumption DEF Due
        <4>2. Cardinality(Due(rule, trigger)') <= Cardinality(Requests)
          BY <4>1, FS_Subset
        <4>3. Cardinality(Due(rule, trigger)') \in Nat
          BY <4>1, FS_Subset, FS_CardinalityType
        <4>4. QED
          BY <2>4, <3>2, <3>3, <4>2, <4>3 DEF Limit
      <3>4. CASE ~overlap
        <4>1. \A s \in Requests : req[s] # Idle => s = r
          BY <3>4 DEF Granting, OneAtATime
        <4>2. \A s \in Requests : s # r => req'[s] = Idle
          BY <1>1, <4>1
        <4>3. \A day : ~Pays(Idle, rule, trigger, day)
          BY DEF Pays, Idle
        <4>4. Due(rule, trigger)' \in SUBSET {r}
          BY <4>2, <4>3 DEF Due
        <4>5. IsFiniteSet({r}) /\ Cardinality({r}) = 1
          BY FS_Singleton
        <4>6. Cardinality(Due(rule, trigger)') <= 1 /\ Cardinality(Due(rule, trigger)') \in Nat
          BY <4>4, <4>5, FS_Subset, FS_CardinalityType
        <4>7. QED
          BY <2>4, <3>2, <3>4, <4>6 DEF Limit
      <3>5. QED
        BY <3>3, <3>4
    <2>6. CASE ~(rule = rule0 /\ trigger = trigger0)
      <3>1. \A s \in Requests : \A day : Pays(req'[s], rule, trigger, day) =>
                                     Pays(req[s], rule, trigger, day)
        BY <1>1, <2>6
      <3>2. Due(rule, trigger)' \in SUBSET Due(rule, trigger)
        BY <3>1 DEF Due
      <3>3. /\ Cardinality(Due(rule, trigger)') <= Cardinality(Due(rule, trigger))
            /\ Cardinality(Due(rule, trigger)') \in Nat
        BY <2>3, <3>2, FS_Subset, FS_CardinalityType
      <3>4. Limit \in Nat
        BY LimitGrows DEF Granting, Types
      <3>5. QED
        BY <2>2, <2>3, <2>4, <3>3, <3>4
    <2>7. QED
      BY <2>5, <2>6
  <1>4. OncePerPeriod'
    BY <1>2 DEF Granting, OncePerPeriod, Dated, Triggers
  <1>5. NextPeriod'
    <2>1. SUFFICES ASSUME ~overlap, NEW rule \in Rules, NEW trigger \in Triggers(rule),
                          NEW s \in Requests, NEW day \in Nat,
                          Pays(req'[s], rule, trigger, day),
                          NEW i \in Dated(By(rule, trigger))
                   PROVE  Apart(rule.frequency, txs[i].created, day)
      BY <1>2 DEF NextPeriod, Triggers, Dated
    <2>2. CASE s = r
      <3>1. rule = rule0 /\ trigger = trigger0 /\ day = day0
        BY <1>1, <2>1, <2>2
      <3>2. i \in Dated(Given(trigger0)) /\ day0 # Undated
        BY <2>1, <3>1 DEF Dated, By, Undated
      <3>3. QED
        BY <3>1, <3>2
    <2>3. CASE s # r
      <3>1. Pays(req[s], rule, trigger, day)
        BY <1>1, <2>1, <2>3
      <3>2. QED
        BY <2>1, <3>1 DEF Granting, NextPeriod
    <2>4. QED
      BY <2>2, <2>3
  <1>6. QED
    BY <1>3, <1>4, <1>5 DEF Granting

(* The reward on its way is stored.                                        *)
LEMMA Store ==
    ASSUME Granting, Types', NEW r \in Requests, NEW job, Go(r, job), NEW row \in Rows,
           txs' = Append(txs, row), overlap' = overlap, OneAtATime', req[r] # Idle,
           row.type = "earn" => Pays(req[r], row.rule, row.trigger, row.created),
           \A rule, trigger, day : ~Pays(job, rule, trigger, day)
    PROVE  Granting'
  <1> DEFINE n == Len(txs) + 1
  <1>1. req' = [req EXCEPT ![r] = job] /\ req \in [Requests -> Jobs] /\ txs \in Seq(Rows)
    BY DEF Go, Granting, Types
  <1>2. /\ n \in Nat /\ n \notin DOMAIN txs /\ DOMAIN txs' = DOMAIN txs \cup {n}
        /\ txs'[n] = row /\ \A i \in DOMAIN txs : txs'[i] = txs[i] /\ i < n
        /\ DOMAIN txs = 1 .. Len(txs)
    BY <1>1
  <1>3. \A s \in Requests : \A rule, trigger, day :
           Pays(req'[s], rule, trigger, day) => s # r /\ Pays(req[s], rule, trigger, day)
    BY <1>1
  <1>4. row.created \in DayOrNone
    BY DEF Rows, EarnRows, BurnRows, DayOrNone
  <1> DEFINE Hit(rule, trigger) == row.type = "earn" /\ row.rule = rule /\ row.trigger = trigger
  <1>5. ASSUME NEW rule \in Rules, NEW trigger
        PROVE  /\ By(rule, trigger)' = IF Hit(rule, trigger) THEN By(rule, trigger) \cup {n}
                                       ELSE By(rule, trigger)
               /\ n \notin By(rule, trigger)
               /\ Due(rule, trigger)' \in SUBSET (Due(rule, trigger) \ {r})
               /\ Hit(rule, trigger) => r \in Due(rule, trigger)
    <2>1. n \notin By(rule, trigger) /\ By(rule, trigger) \in SUBSET DOMAIN txs
      BY <1>2 DEF By, Given
    <2>2. \A i \in DOMAIN txs' : i \in By(rule, trigger)' <=>
             (i \in By(rule, trigger) \/ (i = n /\ Hit(rule, trigger)))
      BY <1>2 DEF By, Given
    <2>3. By(rule, trigger)' \in SUBSET DOMAIN txs'
      BY DEF By, Given
    <2>4. By(rule, trigger)' = IF Hit(rule, trigger) THEN By(rule, trigger) \cup {n}
                               ELSE By(rule, trigger)
      BY <1>2, <2>1, <2>2, <2>3
    <2>5. Due(rule, trigger)' \in SUBSET (Due(rule, trigger) \ {r})
      BY <1>3 DEF Due
    <2>6. Hit(rule, trigger) => r \in Due(rule, trigger)
      BY <1>4 DEF Due
    <2>7. QED
      BY <2>1, <2>4, <2>5, <2>6
  <1>6. Limit' = Limit /\ Limit \in Nat
    BY LimitGrows DEF Granting, Types, Limit
  <1>7. OnceCounted'
    <2>1. SUFFICES ASSUME NEW rule \in Rules, NEW trigger \in Triggers(rule),
                          rule.frequency = "once"
                   PROVE  (Cardinality(By(rule, trigger)) + Cardinality(Due(rule, trigger))
                             <= Limit)'
      BY DEF OnceCounted, Triggers
    <2>2. Cardinality(By(rule, trigger)) + Cardinality(Due(rule, trigger)) <= Limit
      BY <2>1 DEF Granting, OnceCounted
    <2>3. /\ IsFiniteSet(Due(rule, trigger)) /\ Cardinality(Due(rule, trigger)) \in Nat
          /\ IsFiniteSet(By(rule, trigger)) /\ Cardinality(By(rule, trigger)) \in Nat
      BY SetsAreFinite DEF Granting
    <2>4. /\ IsFiniteSet(Due(rule, trigger) \ {r})
          /\ Cardinality(Due(rule, trigger) \ {r}) =
                IF r \in Due(rule, trigger) THEN Cardinality(Due(rule, trigger)) - 1
                ELSE Cardinality(Due(rule, trigger))
      BY <2>3, FS_RemoveElement
    <2>5. /\ Cardinality(Due(rule, trigger)') <= Cardinality(Due(rule, trigger) \ {r})
          /\ Cardinality(Due(rule, trigger)') \in Nat
      BY <1>5, <2>4, FS_Subset, FS_CardinalityType
    <2>6. CASE Hit(rule, trigger)
      <3>1. Cardinality(By(rule, trigger)') = Cardinality(By(rule, trigger)) + 1
        <4>1. By(rule, trigger)' = By(rule, trigger) \cup {n} /\ n \notin By(rule, trigger)
          BY <1>5, <2>6
        <4>2. Cardinality(By(rule, trigger) \cup {n}) = Cardinality(By(rule, trigger)) + 1
          <5> HIDE DEF n
          <5>1. QED
            BY <2>3, <4>1, FS_AddElement
        <4>3. QED
          BY <4>1, <4>2
      <3>2. r \in Due(rule, trigger)
        BY <1>5, <2>6
      <3>3. QED
        BY <1>6, <2>2, <2>3, <2>4, <2>5, <3>1, <3>2
    <2>7. CASE ~Hit(rule, trigger)
      <3>1. Cardinality(By(rule, trigger)') = Cardinality(By(rule, trigger))
        BY <1>5, <2>7
      <3>2. QED
        BY <1>6, <2>2, <2>3, <2>4, <2>5, <3>1
    <2>8. QED
      BY <2>6, <2>7
  <1>8. OncePerPeriod'
    <2>1. SUFFICES ASSUME ~overlap, NEW rule \in Rules, NEW trigger \in Triggers(rule),
                          NEW i \in Dated(By(rule, trigger))',
                          NEW j \in Dated(By(rule, trigger))', i < j
                   PROVE  Apart(rule.frequency, txs'[i].created, txs'[j].created)
      BY DEF OncePerPeriod, Triggers
    <2>2. /\ i \in By(rule, trigger)' /\ txs'[i].created # Undated
          /\ j \in By(rule, trigger)' /\ txs'[j].created # Undated
      BY <2>1 DEF Dated
    <2>3. i \in By(rule, trigger) /\ i \in DOMAIN txs
      <3>1. i = n => i \notin DOMAIN txs /\ ~(i < j)
        BY <1>2, <1>5, <2>2 DEF By, Given
      <3>2. i \in By(rule, trigger)
        BY <1>5, <2>1, <2>2, <3>1
      <3>3. QED
        BY <3>2 DEF By, Given
    <2>4. i \in Dated(By(rule, trigger)) /\ txs'[i] = txs[i]
      BY <1>2, <2>2, <2>3 DEF Dated
    <2>5. CASE j = n
      <3>1. Hit(rule, trigger) /\ txs'[j].created = row.created
        BY <1>2, <1>5, <2>2, <2>5
      <3>2. row.created \in Nat
        BY <1>4, <2>2, <3>1 DEF DayOrNone
      <3>3. Pays(req[r], rule, trigger, row.created)
        BY <3>1
      <3>4. Apart(rule.frequency, txs[i].created, row.created)
        BY <2>1, <2>4, <3>2, <3>3 DEF Granting, NextPeriod
      <3>5. QED
        BY <2>4, <3>1, <3>4
    <2>6. CASE j # n
      <3>1. j \in By(rule, trigger) /\ j \in DOMAIN txs
        BY <1>5, <2>2, <2>6 DEF By, Given
      <3>2. j \in Dated(By(rule, trigger)) /\ txs'[j] = txs[j]
        BY <1>2, <2>2, <3>1 DEF Dated
      <3>3. QED
        BY <2>1, <2>4, <3>2 DEF Granting, OncePerPeriod
    <2>7. QED
      BY <2>5, <2>6
  <1>9. NextPeriod'
    <2>1. SUFFICES ASSUME ~overlap PROVE NextPeriod'
      BY DEF NextPeriod
    <2>2. \A s \in Requests : s # r => req[s] = Idle
      BY <2>1 DEF Granting, OneAtATime
    <2>3. \A rule, trigger, day : ~Pays(Idle, rule, trigger, day)
      BY DEF Pays, Idle
    <2>4. \A s \in Requests : \A rule, trigger, day : ~Pays(req'[s], rule, trigger, day)
      BY <1>3, <2>2, <2>3
    <2>5. QED
      BY <2>4 DEF NextPeriod
  <1>10. QED
    BY <1>7, <1>8, <1>9 DEF Granting

(* One request at a time stays so while overlap is unset.                  *)
LEMMA BeginAlone ==
    ASSUME Types, OneAtATime, NEW r \in Requests, NEW job, Go(r, job),
           overlap' = (overlap \/ Busy)
    PROVE  OneAtATime'
  <1>1. SUFFICES ASSUME ~overlap' PROVE \A s \in Requests : req'[s] # Idle => s = r
    BY DEF OneAtATime
  <1>2. \A s \in Requests : req[s] = Idle
    BY <1>1 DEF Busy
  <1>3. QED
    BY <1>2 DEF Go, Types

LEMMA GoAlone ==
    ASSUME Types, OneAtATime, NEW r \in Requests, NEW job, Go(r, job), req[r] # Idle,
           overlap' = overlap
    PROVE  OneAtATime'
  <1>1. \A s \in Requests : req'[s] # Idle => req[s] # Idle
    BY DEF Go, Types
  <1>2. QED
    BY <1>1 DEF OneAtATime

LEMMA NothingDue ==
    /\ \A next \in Nexts : \A rule, trigger, day : ~Pays(next, rule, trigger, day)
    /\ \A job : job.pc = "check" => \A rule, trigger, day : ~Pays(job, rule, trigger, day)
    /\ \A job : job.pc = "load" /\ job.row.type = "burn" =>
           \A rule, trigger, day : ~Pays(job, rule, trigger, day)
    /\ \A job : job.pc \in {"save", "activity"} =>
           \A rule, trigger, day : ~Pays(job, rule, trigger, day)
  BY DEF Nexts, Idle, Lists, Pays

LEMMA StartGrantsNothing ==
    ASSUME Granting, Types', NEW r \in Requests, Start(r)
    PROVE  Granting'
  <1>1. PICK sort, rule, amount : Begin(r, sort, rule, amount)
    BY DEF Start
  <1> DEFINE job == [pc |-> "check", kind |-> sort, rule |-> rule, amount |-> amount,
                     copy |-> wallet]
  <1>2. job.pc = "check"
    OBVIOUS
  <1>3. Go(r, job) /\ txs' = txs /\ overlap' = (overlap \/ Busy)
    BY <1>1 DEF Begin, tables
  <1> HIDE DEF job
  <1>4. \A ru, tr, day : ~Pays(job, ru, tr, day)
    BY <1>2, NothingDue
  <1>5. OneAtATime'
    BY <1>3, BeginAlone DEF Granting
  <1>6. QED
    BY <1>3, <1>4, <1>5, NoGrant

LEMMA NextGrantsNothing ==
    ASSUME Granting, Types', NEW r \in Requests, NEW next \in Nexts, Go(r, next),
           txs' = txs, overlap' = overlap, req[r] # Idle
    PROVE  Granting'
  <1>1. \A rule, trigger, day : ~Pays(next, rule, trigger, day)
    BY NothingDue
  <1>2. OneAtATime'
    BY GoAlone DEF Granting
  <1>3. QED
    BY <1>1, <1>2, NoGrant

LEMMA BurnGrantsNothing ==
    ASSUME Granting, Types', NEW r \in Requests, NEW row, row.type = "burn",
           NEW cents, NEW next, Book(r, row, cents, next),
           txs' = txs, overlap' = overlap, req[r] # Idle
    PROVE  Granting'
  <1> DEFINE job == [pc |-> "load", row |-> row, cents |-> cents, next |-> next]
  <1>1. job.pc = "load" /\ job.row.type = "burn"
    OBVIOUS
  <1>2. Go(r, job)
    BY DEF Book
  <1> HIDE DEF job
  <1>3. \A rule, trigger, day : ~Pays(job, rule, trigger, day)
    BY <1>1, NothingDue
  <1>4. OneAtATime'
    BY <1>2, GoAlone DEF Granting
  <1>5. QED
    BY <1>2, <1>3, <1>4, NoGrant

LEMMA BurningGrantsNothing ==
    ASSUME Granting, Types', NEW r \in Requests,
           \/ BurnWithEvent(r) \/ BurnTransaction(r)
           \/ BurnPoints(r) \/ BurnPointsWithCampaign(r)
    PROVE  Granting'
  <1>1. PICK sort, created, cents : BurnByRule(r, sort, created, cents)
    BY DEF BurnWithEvent, BurnTransaction, BurnPoints, BurnPointsWithCampaign
  <1> DEFINE row == Row("burn", "burn", created, cents, req[r].rule)
  <1>2. /\ Book(r, row, cents, Idle) /\ row.type = "burn"
        /\ txs' = txs /\ overlap' = overlap /\ req[r] # Idle
    BY <1>1 DEF BurnByRule, Row, tables, At, Idle
  <1> HIDE DEF row
  <1>3. QED
    BY <1>2, BurnGrantsNothing

LEMMA GvrBurnGrantsNothing ==
    ASSUME Granting, Types', NEW r \in Requests, GvrBurnBegin(r) \/ GvrBurnNext(r)
    PROVE  Granting'
  <1>1. txs' = txs /\ overlap' = overlap /\ req[r] # Idle
    BY DEF GvrBurnBegin, GvrBurnNext, tables, At, Idle
  <1>2. CASE GvrBurnBegin(r)
    <2> DEFINE job == [pc |-> "rules", copy |-> req[r].copy, last |-> Latest(Burned),
                       list |-> req[r].amount, many |-> Len(req[r].amount) > 1]
    <2>1. Go(r, job) /\ job.pc = "rules"
      BY <1>2 DEF GvrBurnBegin
    <2> HIDE DEF job
    <2>2. \A rule, trigger, day : ~Pays(job, rule, trigger, day)
      BY <2>1 DEF Pays
    <2>3. OneAtATime'
      BY <1>1, <2>1, GoAlone DEF Granting
    <2>4. QED
      BY <1>1, <2>1, <2>2, <2>3, NoGrant
  <1>3. CASE GvrBurnNext(r)
    <2> DEFINE item == Head(req[r].list)
               rest == [req[r] EXCEPT !.list = Tail(@)]
               next == IF rest.list = <<>> THEN Idle ELSE rest
               cents == GvrBurn(item[1], item[2])
               row == Row("burn", "burn", today, cents, item[1])
    <2>1. \/ Go(r, next) \/ Go(r, Idle) \/ Book(r, row, cents, next)
      BY <1>3 DEF GvrBurnNext
    <2>2. row.type = "burn"
      BY DEF Row
    <2>3. req[r] \in Lists
      BY <1>3, JobOfPc DEF GvrBurnNext, Granting
    <2>4. req[r].list \in Seq(Items) /\ req[r].list # <<>>
      BY <2>3 DEF Lists
    <2>5. Tail(req[r].list) \in Seq(Items)
      BY <2>4
    <2>6. rest.list = Tail(req[r].list) /\ (rest.list # <<>> => rest \in Lists)
      BY <2>3, <2>5 DEF Lists
    <2>7. next \in Nexts /\ Idle \in Nexts
      BY <2>6 DEF Nexts
    <2> HIDE DEF next, row, cents
    <2>8. CASE Go(r, next) \/ Go(r, Idle)
      BY <1>1, <2>7, <2>8, NextGrantsNothing
    <2>9. CASE Book(r, row, cents, next)
      BY <1>1, <2>2, <2>9, BurnGrantsNothing
    <2>10. QED
      BY <2>1, <2>8, <2>9
  <1>4. QED
    BY <1>2, <1>3

LEMMA AddLoadGrantsNothing ==
    ASSUME Granting, Types', NEW r \in Requests, AddLoad(r)
    PROVE  Granting'
  <1> DEFINE job == [pc |-> "insert", copy |-> wallet, row |-> req[r].row,
                     cents |-> req[r].cents, next |-> req[r].next]
  <1>1. req[r].pc = "load" /\ txs' = txs /\ overlap' = overlap /\ req[r] # Idle
    BY DEF AddLoad, tables, At, Idle
  <1>2. Go(r, job) \/ Go(r, Idle)
    BY DEF AddLoad
  <1>3. job.pc = "insert" /\ job.row = req[r].row
    OBVIOUS
  <1> HIDE DEF job
  <1>4. CASE Go(r, job)
    <2>1. \A rule, trigger, day : Pays(job, rule, trigger, day) =>
                                  Pays(req[r], rule, trigger, day)
      BY <1>1, <1>3 DEF Pays
    <2>2. OneAtATime'
      BY <1>1, <1>4, GoAlone DEF Granting
    <2>3. QED
      BY <1>1, <1>4, <2>1, <2>2, NoGrant
  <1>5. CASE Go(r, Idle)
    BY <1>1, <1>5, NextGrantsNothing DEF Nexts
  <1>6. QED
    BY <1>2, <1>4, <1>5

LEMMA SaveWalletGrantsNothing ==
    ASSUME Granting, Types', NEW r \in Requests, SaveWallet(r)
    PROVE  Granting'
  <1>1. /\ At(r, "save") /\ txs' = txs /\ overlap' = overlap /\ req[r] # Idle
        /\ Go(r, req[r].next)
    BY DEF SaveWallet, At, Idle
  <1>2. req[r] \in Writes
    BY <1>1, JobOfPc DEF Granting
  <1>3. req[r].next \in Nexts
    BY <1>2 DEF Writes
  <1>4. QED
    BY <1>1, <1>3, NextGrantsNothing

LEMMA CreditingGrantsOnce ==
    ASSUME Granting, Types', NEW r \in Requests,
           Credit(r) \/ CreditInsert(r) \/ CreateCustomerActivity(r)
    PROVE  Granting'
  <1>1. /\ Advance(r) /\ (At(r, "credit") \/ At(r, "row") \/ At(r, "activity"))
        /\ overlap' = overlap /\ req[r] # Idle /\ Types
    BY DEF Credit, CreditInsert, CreateCustomerActivity, At, Idle, Granting
  <1>2. req[r] \in Credits
    BY <1>1, JobOfPc
  <1>3. PICK job \in Jobs : /\ JobOK(job) /\ Go(r, job)
                            /\ \/ job = Idle
                               \/ /\ At(r, "credit") /\ job.pc = "row"
                                  /\ job.rule = req[r].rule
                               \/ At(r, "row") /\ job.pc = "activity"
    BY <1>1, AdvanceGoes
  <1>4. OneAtATime'
    BY <1>1, <1>3, GoAlone DEF Granting
  <1>5. \A rule, trigger, day : Pays(job, rule, trigger, day) =>
           At(r, "credit") /\ Pays(req[r], rule, trigger, day)
    BY <1>3 DEF Pays, At, Idle
  <1>6. CASE Credit(r) \/ CreateCustomerActivity(r)
    <2>1. txs' = txs
      BY <1>6 DEF Credit, CreateCustomerActivity
    <2>2. QED
      BY <1>1, <1>3, <1>4, <1>5, <2>1, NoGrant
  <1>7. CASE CreditInsert(r)
    <2> DEFINE row == Row("earn", req[r].rule.trigger, Undated, req[r].cents, req[r].rule)
    <2>1. At(r, "row") /\ txs' = Append(txs, Stored(row))
      BY <1>7 DEF CreditInsert
    <2>2. req[r].rule \in Rules /\ req[r].cents \in Nat
      BY <1>2 DEF Credits
    <2>3. row \in Rows
      BY <2>2, RowsOfRules DEF Triggers
    <2>4. row.type = "earn" /\ row.rule = req[r].rule /\ row.trigger = req[r].rule.trigger
          /\ row.created = Undated
      BY DEF Row
    <2> HIDE DEF row
    <2> DEFINE stored == Stored(row)
    <2>5. /\ stored \in Rows /\ stored.rule = req[r].rule
          /\ stored.trigger = req[r].rule.trigger /\ stored.created = Undated
      BY <2>3, <2>4, StoredIsARow
    <2> HIDE DEF stored
    <2>6. Pays(req[r], stored.rule, stored.trigger, stored.created)
      BY <2>1, <2>5 DEF Pays, At
    <2>7. \A rule, trigger, day : ~Pays(job, rule, trigger, day)
      BY <1>5, <2>1 DEF At
    <2>8. txs' = Append(txs, stored)
      BY <2>1 DEF stored
    <2>9. QED
      BY <1>1, <1>3, <1>4, <2>5, <2>6, <2>7, <2>8, Store
  <1>8. QED
    BY <1>6, <1>7

LEMMA InsertGrantsOnce ==
    ASSUME Granting, Types', NEW r \in Requests, Insert(r)
    PROVE  Granting'
  <1> DEFINE job == [req[r] EXCEPT !.pc = "save"]
             stored == Stored(req[r].row)
  <1>1. /\ At(r, "insert") /\ txs' = Append(txs, stored) /\ Go(r, job)
        /\ overlap' = overlap /\ req[r] # Idle /\ Types
    BY DEF Insert, At, Idle, Granting
  <1>2. req[r] \in Writes
    BY <1>1, JobOfPc
  <1>3. job.pc = "save"
    BY <1>2 DEF Writes
  <1>4. req[r].row \in Rows
    BY <1>2 DEF Writes
  <1>5. /\ stored \in Rows /\ stored.type = req[r].row.type /\ stored.rule = req[r].row.rule
        /\ stored.trigger = req[r].row.trigger /\ stored.created = req[r].row.created
    BY <1>4, StoredIsARow
  <1> HIDE DEF job, stored
  <1>6. stored.type = "earn" => Pays(req[r], stored.rule, stored.trigger, stored.created)
    BY <1>1, <1>5 DEF Pays, At
  <1>7. \A rule, trigger, day : ~Pays(job, rule, trigger, day)
    BY <1>3, NothingDue
  <1>8. OneAtATime'
    BY <1>1, GoAlone DEF Granting
  <1>9. QED
    BY <1>1, <1>5, <1>6, <1>7, <1>8, Store

(* What the look at earlier transactions of a trigger says of a reward     *)
(* dated today.                                                            *)
LEMMA NotTooSoon ==
    ASSUME Types, NEW trigger, NEW frequency, ~TooSoon(frequency, Latest(Given(trigger)))
    PROVE  /\ frequency = "once" => Given(trigger) = {}
           /\ \A i \in Dated(Given(trigger)) : Apart(frequency, txs[i].created, today)
  <1> DEFINE last == Latest(Given(trigger))
  <1>1. Given(trigger) \in SUBSET DOMAIN txs
    BY DEF Given
  <1>2. last \in Nat /\ (last = 0 <=> Given(trigger) = {})
    BY <1>1, LatestIsNat
  <1>3. frequency = "once" => Given(trigger) = {}
    BY <1>2 DEF TooSoon
  <1>4. ASSUME NEW i \in Dated(Given(trigger))
        PROVE  Apart(frequency, txs[i].created, today)
    <2>1. i \in Given(trigger) /\ i \in DOMAIN txs /\ txs[i].created # Undated
      BY <1>1 DEF Dated
    <2>2. last \in Given(trigger) /\ txs[i].created <= txs[last].created
      BY <1>1, <2>1, LatestIsLatest
    <2>3. /\ txs[i].created \in Nat /\ txs[last].created \in Int
          /\ txs[last].created <= today /\ today \in Nat
      BY <1>1, <2>1, <2>2, RowTypes, EarningAssumption DEF Types
    <2>4. txs[last].created # Undated /\ last # 0
      BY <1>2, <2>1, <2>2, <2>3 DEF Undated
    <2>5. ASSUME frequency = "daily" PROVE txs[i].created # today
      BY <2>2, <2>3, <2>4, <2>5 DEF TooSoon, SameDay
    <2>6. ASSUME frequency = "yearly" PROVE txs[i].created \div Year # today \div Year
      <3>1. txs[last].created \div Year # today \div Year
        BY <2>4, <2>6 DEF TooSoon, SameYear
      <3>2. Year \in Nat \ {0}
        BY EarningAssumption
      <3>3. /\ txs[i].created \div Year <= txs[last].created \div Year
            /\ txs[last].created \div Year <= today \div Year
        BY <2>2, <2>3, <3>2, DivGrows
      <3>4. /\ txs[i].created \div Year \in Int /\ txs[last].created \div Year \in Int
            /\ today \div Year \in Int
        BY <2>3, <3>2
      <3>5. QED
        BY <3>1, <3>3, <3>4
    <2>7. QED
      BY <2>5, <2>6 DEF Apart
  <1>5. QED
    BY <1>3, <1>4

LEMMA EarnGrantsOnce ==
    ASSUME Granting, Types', NEW r \in Requests, NEW trigger, NEW cents,
           req[r] # Idle, txs' = txs, overlap' = overlap, Earn(r, trigger, cents),
           ~TooSoon(req[r].rule.frequency, Latest(Given(trigger)))
    PROVE  Granting'
  <1> DEFINE rule0 == req[r].rule
             row == Row("earn", trigger, today, cents, rule0)
             job == [pc |-> "load", row |-> row, cents |-> cents, next |-> Idle]
  <1>1. Go(r, job)
    BY DEF Earn, Book
  <1>2. job.pc = "load" /\ job.row.rule = rule0 /\ job.row.trigger = trigger
        /\ job.row.created = today
    BY DEF Row
  <1> HIDE DEF job, row
  <1>3. \A rule, tr, day : Pays(job, rule, tr, day) =>
           rule = rule0 /\ tr = trigger /\ day = today
    BY <1>2 DEF Pays
  <1>4. /\ rule0.frequency = "once" => Given(trigger) = {}
        /\ \A i \in Dated(Given(trigger)) : Apart(rule0.frequency, txs[i].created, today)
    BY NotTooSoon DEF Granting
  <1>5. OneAtATime'
    BY <1>1, GoAlone DEF Granting
  <1> HIDE DEF rule0
  <1>6. QED
    BY <1>1, <1>3, <1>4, <1>5, Grant

LEMMA EarningGrantsOnce ==
    ASSUME Granting, Types', NEW r \in Requests, EarnWithEvent(r) \/ GvrEarnWithEvent(r)
    PROVE  Granting'
  <1>1. At(r, "check") /\ UNCHANGED <<tables, overlap>>
    BY DEF EarnWithEvent, GvrEarnWithEvent
  <1>2. \E trigger, cents : /\ Earn(r, trigger, cents)
                            /\ ~TooSoon(req[r].rule.frequency, Latest(Given(trigger)))
    BY DEF EarnWithEvent, GvrEarnWithEvent
  <1>3. req[r] # Idle /\ txs' = txs /\ overlap' = overlap
    BY <1>1 DEF At, Idle, tables
  <1>4. QED
    BY <1>2, <1>3, EarnGrantsOnce

LEMMA EarnPointsGrantsOnce ==
    ASSUME Granting, Types', NEW r \in Requests, EarnPoints(r)
    PROVE  Granting'
  <1> DEFINE rule0 == req[r].rule
             job == [pc |-> "credit", rule |-> rule0, copy |-> req[r].copy,
                     cents |-> (Reward(rule0, req[r].amount) * CampaignRate) \div 100]
             trigger0 == rule0.trigger
             day0 == Undated
  <1>1. /\ req[r] # Idle /\ txs' = txs /\ overlap' = overlap /\ Go(r, job)
        /\ ~AlreadyRewarded(rule0)
    BY DEF EarnPoints, At, Idle, tables
  <1>2. job.pc = "credit" /\ job.rule = rule0
    OBVIOUS
  <1> HIDE DEF job
  <1>3. \A rule, tr, day : Pays(job, rule, tr, day) =>
           rule = rule0 /\ tr = trigger0 /\ day = day0
    BY <1>2 DEF Pays
  <1>4. rule0.frequency = "once" => Given(trigger0) = {}
    BY <1>1 DEF AlreadyRewarded
  <1>5. OneAtATime'
    BY <1>1, GoAlone DEF Granting
  <1>6. day0 # Undated =>
           \A i \in Dated(Given(trigger0)) : Apart(rule0.frequency, txs[i].created, day0)
    OBVIOUS
  <1> HIDE DEF rule0, trigger0, day0
  <1>7. QED
    BY <1>1, <1>3, <1>4, <1>5, <1>6, Grant

LEMMA OthersGrantNothing ==
    ASSUME Granting, Types', UpdateStatus \/ Tomorrow \/ UNCHANGED vars
    PROVE  Granting'
  <1>1. UNCHANGED <<txs, req, overlap>>
    BY DEF UpdateStatus, Tomorrow, vars, tables
  <1>2. /\ \A rule, trigger : By(rule, trigger)' = By(rule, trigger)
        /\ \A rule, trigger : Due(rule, trigger)' = Due(rule, trigger)
        /\ Limit' = Limit
    BY <1>1 DEF By, Given, Due, Limit
  <1>3. OnceCounted'
    BY <1>2 DEF Granting, OnceCounted, Triggers
  <1>4. OncePerPeriod' /\ NextPeriod' /\ OneAtATime'
    BY <1>1, <1>2 DEF Granting, OncePerPeriod, NextPeriod, OneAtATime, Dated, Triggers
  <1>5. QED
    BY <1>3, <1>4 DEF Granting

LEMMA GrantingInitially == Init => Granting
  <1>1. SUFFICES ASSUME Init PROVE Granting
    OBVIOUS
  <1>2. Types
    BY <1>1, TypesInitially
  <1>3. /\ \A r \in Requests : req[r] = Idle
        /\ DOMAIN txs = {} /\ overlap = FALSE
    BY <1>1 DEF Init
  <1>4. \A rule, trigger, day : ~Pays(Idle, rule, trigger, day)
    BY DEF Pays, Idle
  <1>5. \A rule, trigger : By(rule, trigger) = {} /\ Due(rule, trigger) = {}
    BY <1>3, <1>4 DEF By, Given, Due
  <1>6. Cardinality({}) = 0
    BY FS_EmptySet
  <1>7. OnceCounted
    <2>1. SUFFICES ASSUME NEW rule \in Rules, NEW trigger \in Triggers(rule)
                   PROVE  Cardinality(By(rule, trigger)) + Cardinality(Due(rule, trigger))
                             <= Limit
      BY DEF OnceCounted
    <2>2. Cardinality(By(rule, trigger)) = 0 /\ Cardinality(Due(rule, trigger)) = 0
      BY <1>5, <1>6
    <2>3. Limit = 1
      BY <1>3 DEF Limit
    <2>4. QED
      BY <2>2, <2>3
  <1>8. OncePerPeriod /\ NextPeriod /\ OneAtATime
    BY <1>3, <1>4, <1>5 DEF OncePerPeriod, NextPeriod, OneAtATime, Dated
  <1>9. QED
    BY <1>2, <1>7, <1>8 DEF Granting

LEMMA GrantingKept == Granting /\ [Next]_vars => Granting'
  <1>1. SUFFICES ASSUME Granting, [Next]_vars PROVE Granting'
    OBVIOUS
  <1>2. Types'
    BY <1>1, TypesKept DEF Granting
  <1>3. ASSUME NEW r \in Requests, Refused(r) \/ Die(r) PROVE Granting'
    <2>1. Go(r, Idle) /\ txs' = txs /\ overlap' = overlap
      BY <1>3 DEF Refused, Die, tables
    <2>2. req[r] # Idle
      BY <1>3 DEF Refused, Die, At, Idle
    <2>3. QED
      BY <1>1, <1>2, <2>1, <2>2, NextGrantsNothing DEF Nexts
  <1>4. CASE \E r \in Requests :
               \/ Start(r) \/ Refused(r)
               \/ EarnWithEvent(r) \/ GvrEarnWithEvent(r) \/ EarnPoints(r)
               \/ BurnWithEvent(r) \/ BurnTransaction(r)
               \/ BurnPoints(r) \/ BurnPointsWithCampaign(r)
               \/ GvrBurnBegin(r) \/ GvrBurnNext(r)
               \/ AddLoad(r) \/ Insert(r) \/ SaveWallet(r)
               \/ Credit(r) \/ CreditInsert(r) \/ CreateCustomerActivity(r)
               \/ Die(r)
    BY <1>1, <1>2, <1>3, <1>4, StartGrantsNothing, EarningGrantsOnce, EarnPointsGrantsOnce,
       BurningGrantsNothing, GvrBurnGrantsNothing, AddLoadGrantsNothing, InsertGrantsOnce,
       SaveWalletGrantsNothing, CreditingGrantsOnce
  <1>5. CASE UpdateStatus \/ Tomorrow \/ UNCHANGED vars
    BY <1>1, <1>2, <1>5, OthersGrantNothing
  <1>6. QED
    BY <1>1, <1>4, <1>5 DEF Next

(* The invariant behind the next two theorems.                             *)
THEOREM GrantingAlways == Spec => []Granting
  BY GrantingInitially, GrantingKept, PTL DEF Spec

(* A rule that gives once per customer gives once by events and campaigns  *)
(* together and once at fuel stations, whatever dies and is retried; if    *)
(* requests overlap, at most once for each request in flight.              *)
THEOREM GivesOnce == Spec => []GivenOnce
  <1>1. Granting => GivenOnce
    <2>1. SUFFICES ASSUME Granting, NEW rule \in Rules, NEW trigger \in Triggers(rule),
                          rule.frequency = "once"
                   PROVE  Cardinality(By(rule, trigger)) <=
                              IF overlap THEN Cardinality(Requests) ELSE 1
      BY DEF GivenOnce
    <2>2. Cardinality(By(rule, trigger)) + Cardinality(Due(rule, trigger)) <= Limit
      BY <2>1 DEF Granting, OnceCounted
    <2>3. Cardinality(By(rule, trigger)) \in Nat /\ Cardinality(Due(rule, trigger)) \in Nat
      BY <2>1, SetsAreFinite DEF Granting
    <2>4. Limit \in Nat
      BY <2>1, EarningAssumption, FS_CardinalityType DEF Limit
    <2>5. QED
      BY <2>2, <2>3, <2>4 DEF Limit
  <1>2. QED
    BY <1>1, GrantingAlways, PTL

(* One request at a time, an event gives once per day or per year.         *)
THEOREM GivesOncePerPeriod == Spec => []OncePerPeriod
  <1>1. Granting => OncePerPeriod
    BY DEF Granting
  <1>2. QED
    BY <1>1, GrantingAlways, PTL

-----------------------------------------------------------------------------
(* Redemptions.  As long as nobody has redeemed at the rate of a tier and  *)
(* no edit or redemption met another redemption, the coupon and every copy *)
(* of it have the discount that administrators set.                        *)

DiscountKept ==
    /\ DOMAIN req = Requests
    /\ ~byRate /\ ~raced =>
          /\ discount = setTo
          /\ \A r \in Requests : req[r].pc \in {"check", "save"} => req[r].copy = setTo

PaidInv == DiscountKept /\ PaidAsEntitled

(* Steps that are not about the coupon.                                    *)
LEMMA TierStepsKeep ==
    ASSUME PaidInv, UNCHANGED <<discount, paid, setTo, byRate, raced>>, DOMAIN req' = Requests,
           \A r \in Requests : req'[r] = req[r] \/ req'[r].pc \notin {"check", "save"}
    PROVE  PaidInv'
  BY DEF PaidInv, DiscountKept, PaidAsEntitled

LEMMA RedeemKeeps ==
    ASSUME PaidInv, NEW r \in Requests, Redeem(r)
    PROVE  PaidInv'
<1>1. PICK c \in Customers, way \in Ways, amount \in Bills :
        req' = [req EXCEPT ![r] = [pc |-> "check", customer |-> c, way |-> way, amount |-> amount,
                                   copy |-> discount]]
  BY DEF Redeem, Go
<1>2. raced' = (raced \/ Redeeming) /\ UNCHANGED <<discount, paid, setTo, byRate>>
  BY DEF Redeem
<1>3. DiscountKept'
  BY <1>1, <1>2 DEF PaidInv, DiscountKept
<1>4. QED
  BY <1>2, <1>3 DEF PaidInv, PaidAsEntitled

LEMMA PayKeeps ==
    ASSUME PaidInv, NEW r \in Requests, Pay(r)
    PROVE  PaidInv'
<1>1. PICK q : q = req[r] /\ q.pc = "check"
  BY DEF Pay, At
<1>2. UNCHANGED <<discount, setTo, raced>>
  BY DEF Pay
<1>3. PICK tier \in CurrentTiers(total[q.customer], None) :
        IF ~Admitted(q.way, tier) THEN Return(r) /\ UNCHANGED <<paid, byRate>>
        ELSE LET way == q.way
                 by  == way.by
                 d   == Discounted(q.copy, by, tier)
             IN  /\ paid' = <<[path |-> way.path, by |-> by, tier |-> tier,
                               amount |-> q.amount,
                               points |-> AmountOff(way.path, d, q.amount),
                               set |-> setTo, clean |-> ~byRate /\ ~raced]>>
                 /\ byRate' = (byRate \/ by # <<>>)
                 /\ Go(r, [pc |-> "save", copy |-> d])
  BY <1>1 DEF Pay
<1>4. CASE ~Admitted(q.way, tier)
  BY <1>2, <1>3, <1>4 DEF PaidInv, DiscountKept, PaidAsEntitled, Return, Idle
<1>5. CASE Admitted(q.way, tier)
  <2>1. PICK path, by, d, amount, points :
          /\ path = q.way.path /\ by = q.way.by /\ d = Discounted(q.copy, by, tier)
          /\ amount = q.amount /\ points = AmountOff(path, d, amount)
          /\ paid' = <<[path |-> path, by |-> by, tier |-> tier, amount |-> amount,
                        points |-> points, set |-> setTo, clean |-> ~byRate /\ ~raced]>>
          /\ byRate' = (byRate \/ by # <<>>)
          /\ req' = [req EXCEPT ![r] = [pc |-> "save", copy |-> d]]
    BY <1>3, <1>5 DEF Go
  <2>2. by = <<>> => d = q.copy
    BY <2>1 DEF Discounted
  <2>3. by # <<>> => points = amount * by[1][tier]
    <3>1. SUFFICES ASSUME by # <<>> PROVE points = amount * by[1][tier]
      OBVIOUS
    <3>2. d.price = by[1][tier] /\ d.type = "percentage_discount"
      BY <2>1, <3>1 DEF Discounted
    <3>3. d.type # FixedWord(path)
      BY <3>2 DEF FixedWord
    <3>4. QED
      BY <2>1, <3>2, <3>3 DEF AmountOff
  <2>4. ~byRate /\ ~raced => q.copy = setTo
    BY <1>1 DEF PaidInv, DiscountKept
  <2>5. DiscountKept'
    BY <1>2, <2>1, <2>2, <2>4 DEF PaidInv, DiscountKept
  <2>6. by = <<>> /\ ~byRate /\ ~raced /\ setTo.type \notin FixedWords \ {FixedWord(path)}
          => points = Worth(setTo, amount)
    <3>1. SUFFICES ASSUME by = <<>>, ~byRate, ~raced, setTo.type \notin FixedWords \ {FixedWord(path)}
                   PROVE  points = Worth(setTo, amount)
      OBVIOUS
    <3>2. points = AmountOff(path, setTo, amount)
      BY <2>1, <2>2, <2>4, <3>1
    <3>3. FixedWord(path) \in FixedWords
      BY DEF FixedWord, FixedWords
    <3>4. setTo.type = FixedWord(path) <=> setTo.type \in FixedWords
      BY <3>1, <3>3
    <3>5. QED
      BY <3>2, <3>4 DEF AmountOff, Worth
  <2>7. PaidAsEntitled'
    <3> DEFINE answer == [path |-> path, by |-> by, tier |-> tier, amount |-> amount,
                          points |-> points, set |-> setTo, clean |-> ~byRate /\ ~raced]
    <3>a. answer.clean = (~byRate /\ ~raced)
      BY Zenon
    <3>b. answer.path = path /\ answer.by = by /\ answer.tier = tier /\ answer.amount = amount
          /\ answer.points = points /\ answer.set = setTo
      OBVIOUS
    <3>c. paid' = <<answer>>
      BY <2>1
    <3> HIDE DEF answer
    <3>1. \A i \in DOMAIN paid' :
             /\ paid'[i].path = path /\ paid'[i].by = by /\ paid'[i].tier = tier
             /\ paid'[i].amount = amount /\ paid'[i].points = points
             /\ paid'[i].set = setTo /\ (paid'[i].clean => ~byRate /\ ~raced)
      <4>1. \A i \in DOMAIN paid' : paid'[i] = answer
        BY <3>c
      <4>2. answer.clean => ~byRate /\ ~raced
        BY Zenon, <3>a
      <4>3. QED
        BY <3>b, <4>1, <4>2
    <3>2. QED
      BY <2>3, <2>6, <3>1 DEF PaidAsEntitled
  <2>8. QED
    BY <2>5, <2>7 DEF PaidInv
<1>6. QED
  BY <1>4, <1>5

LEMMA CouponStepsKeep ==
    ASSUME PaidInv, SetDiscount \/ \E r \in Requests : SaveCoupon(r)
    PROVE  PaidInv'
<1>1. CASE SetDiscount
  BY <1>1 DEF SetDiscount, Redeeming, PaidInv, DiscountKept, PaidAsEntitled
<1>2. ASSUME NEW r \in Requests, SaveCoupon(r) PROVE PaidInv'
  <2>1. req[r].pc = "save" /\ discount' = req[r].copy /\ req' = [req EXCEPT ![r] = Idle]
        /\ UNCHANGED <<paid, setTo, byRate, raced>>
    BY <1>2 DEF SaveCoupon, At, Return
  <2>2. QED
    BY <2>1 DEF PaidInv, DiscountKept, PaidAsEntitled, Idle
<1>3. QED
  BY <1>1, <1>2

(* A redemption at a tier's rate pays that of the customer's own tier, and *)
(* one by the coupon's own discount what administrators set, as long as    *)
(* neither a rate nor an overlap got into the coupon (PaidAsEntitled).     *)
THEOREM RedemptionsPaidAsEntitled == EligibilitySpec => []PaidAsEntitled
<1>1. EligibilityInit => PaidInv
  BY DEF EligibilityInit, PaidInv, DiscountKept, PaidAsEntitled, Idle
<1>2. PaidInv /\ [EligibilityNext]_eligibilityVars => PaidInv'
  <2>1. SUFFICES ASSUME PaidInv, [EligibilityNext]_eligibilityVars PROVE PaidInv'
    OBVIOUS
  <2>2. ASSUME SaveTier \/ RemoveTier \/ ChangeTotal \/ UNCHANGED eligibilityVars PROVE PaidInv'
    BY <2>1, <2>2, TierStepsKeep DEF SaveTier, RemoveTier, ChangeTotal, eligibilityVars,
       PaidInv, DiscountKept
  <2>3. ASSUME NEW r \in Requests, TierBenefits(r) \/ ReadCurrent(r) \/ ReadTier(r) \/ Show(r)
        PROVE  PaidInv'
    <3>1. DOMAIN req' = Requests
          /\ \A s \in Requests : req'[s] = req[s] \/ req'[s].pc \notin {"check", "save"}
      <4>1. CASE TierBenefits(r)
        BY <2>1, <4>1 DEF TierBenefits, Go, PaidInv, DiscountKept
      <4>2. CASE ReadCurrent(r)
        BY <2>1, <4>2 DEF ReadCurrent, Go, PaidInv, DiscountKept
      <4>3. CASE ReadTier(r)
        BY <2>1, <4>3 DEF ReadTier, Go, PaidInv, DiscountKept
      <4>4. CASE Show(r)
        BY <2>1, <4>4 DEF Show, Return, Idle, PaidInv, DiscountKept
      <4>5. QED
        BY <2>3, <4>1, <4>2, <4>3, <4>4
    <3>2. UNCHANGED <<discount, paid, setTo, byRate, raced>>
      BY <2>3 DEF TierBenefits, ReadCurrent, ReadTier, Show
    <3>3. QED
      BY <2>1, <3>1, <3>2, TierStepsKeep
  <2>4. QED
    BY <2>1, <2>2, <2>3, RedeemKeeps, PayKeeps, CouponStepsKeep DEF EligibilityNext
<1>3. QED
  BY <1>1, <1>2, PTL DEF EligibilitySpec, PaidInv

-----------------------------------------------------------------------------
(* The tier that is shown.  As long as nothing was called since a customer *)
(* asked, what a handler has read is still so.                             *)

TierRows == [status : {0, 1}, min : Nat, texts : SUBSET Languages]
Quiet(q) == calls = q.since

LookedUp(q) ==
    /\ q.pc = "current" => /\ q.points \in Nat /\ q.since \in Nat /\ q.since <= calls
                           /\ q.customer \in Customers
                           /\ Quiet(q) => total[q.customer] = q.points
    /\ q.pc = "tier" => /\ q.asked.points \in Nat /\ q.asked.since \in Nat /\ q.asked.since <= calls
                        /\ Quiet(q.asked) => q.again = q.asked.points
    /\ q.pc = "ladder" =>
         /\ q.asked.points \in Nat /\ q.asked.since \in Nat /\ q.asked.since <= calls
         /\ Quiet(q.asked) => q.current.id \in CurrentTiers(q.asked.points, q.asked.lang)

(* Tiers that are not removed, of which there are only as many as were     *)
(* saved.                                                                  *)
Live == {t \in TierIds : tiers[t].status = 1}

TierInv ==
    /\ tiers \in [TierIds -> TierRows] /\ total \in [Customers -> Nat] /\ calls \in Nat
    /\ IsFiniteSet(Live)
    /\ DOMAIN req = Requests /\ \A r \in Requests : LookedUp(req[r])

LEMMA BestIsMax ==
    ASSUME NEW T \in SUBSET Int, NEW m \in T, \A x \in T : x <= m
    PROVE  Max(T) = m
<1>1. PICK k : k = Max(T)
  OBVIOUS
<1>2. k \in T /\ \A y \in T : y <= k
  BY <1>1 DEF Max
<1>3. k \in Int /\ m \in Int /\ k <= m /\ m <= k
  BY <1>2
<1>4. QED
  BY <1>1, <1>3

LEMMA LowestIsMin ==
    ASSUME NEW T \in SUBSET Int, NEW m \in T, \A x \in T : m <= x
    PROVE  Min(T) = m
<1>1. PICK k : k = Min(T)
  OBVIOUS
<1>2. k \in T /\ \A y \in T : k <= y
  BY <1>1 DEF Min
<1>3. k \in Int /\ m \in Int /\ k <= m /\ m <= k
  BY <1>2
<1>4. QED
  BY <1>1, <1>3

LEMMA LadderRungs ==
    ASSUME TierInv, NEW lang, Shown(lang) # {}, NEW ladder \in Ladders(lang)
    PROVE  /\ Len(ladder) \in Nat \ {0} /\ DOMAIN ladder = 1 .. Len(ladder)
           /\ \A i \in DOMAIN ladder :
                /\ ladder[i].id \in Shown(lang) /\ ladder[i] = Rung(ladder[i].id)
                /\ ladder[i].min \in Nat /\ ladder[i].id # None
           /\ \A t \in Shown(lang) : \E i \in DOMAIN ladder : ladder[i].id = t
           /\ \A i, j \in DOMAIN ladder : i < j => ladder[i].min <= ladder[j].min
<1>1. PICK S, n : S = Shown(lang) /\ n = Cardinality(S)
  OBVIOUS
<1>2. n \in Nat /\ n # 0
  <2>1. IsFiniteSet(Live) /\ S \subseteq Live
    BY <1>1 DEF TierInv, Live, Shown
  <2>2. IsFiniteSet(S)
    BY <2>1, FS_Subset
  <2>3. QED
    BY <1>1, <2>2, FS_CardinalityType, FS_EmptySet
<1>3. PICK R : R = {Rung(t) : t \in S}
  OBVIOUS
<1>4. ladder \in [1 .. n -> R]
  BY <1>1, <1>3 DEF Ladders
<1>5. DOMAIN ladder = 1 .. n /\ Len(ladder) = n
  <2>1. ladder \in Seq(R)
    BY <1>2, <1>4
  <2>2. DOMAIN ladder = 1 .. n /\ DOMAIN ladder = 1 .. Len(ladder) /\ Len(ladder) \in Nat
    BY <1>4, <2>1
  <2>3. Len(ladder) = n
    BY <1>2, <2>2
  <2>4. QED
    BY <2>2, <2>3
<1>6. /\ {ladder[i].id : i \in DOMAIN ladder} = S
      /\ \A i, j \in DOMAIN ladder : i < j => ladder[i].min <= ladder[j].min
  BY <1>1 DEF Ladders
<1>7. \A t \in S : \E i \in DOMAIN ladder : ladder[i].id = t
  BY <1>6
<1>8. \A i \in DOMAIN ladder : ladder[i] \in R
  BY <1>4
<1>9. ASSUME NEW i \in DOMAIN ladder
      PROVE  ladder[i].id \in S /\ ladder[i] = Rung(ladder[i].id)
  <2>1. PICK t \in S : ladder[i] = Rung(t)
    BY <1>3, <1>8
  <2>2. Rung(t).id = t
    BY DEF Rung
  <2>3. QED
    BY <2>1, <2>2
<1>10. \A t \in S : t # None /\ Rung(t).min \in Nat
  <2>1. \A t \in S : t \in TierIds /\ t # None /\ tiers[t].min \in Nat
    BY <1>1, EligibilityAssumption DEF Shown, TierInv, TierRows
  <2>2. \A t : Rung(t).min = tiers[t].min
    BY DEF Rung
  <2>3. QED
    BY <2>1, <2>2
<1>11. \A i \in DOMAIN ladder : ladder[i].min \in Nat /\ ladder[i].id # None
  <2>1. TAKE i \in DOMAIN ladder
  <2>2. PICK t \in S : t = ladder[i].id /\ ladder[i] = Rung(t)
    BY <1>9
  <2>3. QED
    BY <1>10, <2>2
<1>12. QED
  BY <1>1, <1>2, <1>5, <1>6, <1>7, <1>9, <1>11

(* Those who are read in English are among those of all languages.         *)
LEMMA ReachedAreShown ==
    ASSUME NEW points, NEW lang
    PROVE  \A t : t \in Reached(points, English(lang)) <=>
                    /\ t \in Shown(lang) /\ tiers[t].min <= points
                    /\ Readable(tiers[t].texts, English(lang))
<1>1. CASE lang = None
  <2>1. \A texts : Readable(texts, lang)
    BY <1>1 DEF Readable
  <2>2. QED
    BY <2>1 DEF Reached, Shown
<1>2. CASE lang # None
  <2>1. English(lang) = lang
    BY <1>2 DEF English
  <2>2. QED
    BY <2>1 DEF Reached, Shown
<1>3. QED
  BY <1>1, <1>2

(* The first rung that is out of reach, if any.                            *)
LEMMA NextIsFirst ==
    ASSUME TierInv, NEW lang, Shown(lang) # {}, NEW ladder \in Ladders(lang), NEW points \in Nat
    PROVE  \/ /\ NextTier(ladder, points) = NoNext
              /\ \A i \in DOMAIN ladder : ladder[i].min <= points
           \/ \E k \in DOMAIN ladder :
                /\ NextTier(ladder, points) = ladder[k] /\ ladder[k].min > points
                /\ \A i \in DOMAIN ladder : ladder[i].min > points => ladder[k].min <= ladder[i].min
<1>1. PICK n : n = Len(ladder)
  OBVIOUS
<1>2. /\ n \in Nat \ {0} /\ DOMAIN ladder = 1 .. n
      /\ \A i \in DOMAIN ladder : ladder[i].min \in Nat
      /\ \A i, j \in DOMAIN ladder : i < j => ladder[i].min <= ladder[j].min
  BY <1>1, LadderRungs
<1>3. PICK done : done = {i \in DOMAIN ladder : points >= ladder[i].min}
  OBVIOUS
<1>4. CASE done = {}
  <2>1. NextTier(ladder, points) = ladder[1]
    BY <1>3, <1>4 DEF NextTier
  <2>2. 1 \in DOMAIN ladder /\ \A i \in DOMAIN ladder : ladder[1].min <= ladder[i].min
    BY <1>2
  <2>3. ladder[1].min > points
    BY <1>2, <1>3, <1>4, <2>2
  <2>4. QED
    BY <2>1, <2>2, <2>3
<1>5. CASE done # {}
  <2>1. done \in SUBSET Int /\ n \in Int /\ \A x \in done : x <= n
    BY <1>2, <1>3
  <2>2. PICK m \in done : \A y \in done : y <= m
    BY <1>5, <2>1, MostExists
  <2>3. Max(done) = m
    BY <2>1, <2>2, BestIsMax
  <2>4. \A i \in DOMAIN ladder : ladder[i].min <= points <=> i <= m
    BY <1>2, <1>3, <2>2
  <2>5. CASE m = n
    <3>1. NextTier(ladder, points) = NoNext
      BY <1>1, <1>3, <1>5, <2>3, <2>5 DEF NextTier
    <3>2. QED
      BY <1>2, <2>4, <2>5, <3>1
  <2>6. CASE m # n
    <3>1. NextTier(ladder, points) = ladder[m + 1]
      BY <1>1, <1>3, <1>5, <2>3, <2>6 DEF NextTier
    <3>2. m \in 1 .. n /\ m + 1 \in DOMAIN ladder /\ ladder[m + 1].min > points
      BY <1>2, <1>3, <2>2, <2>4, <2>6
    <3>3. \A i \in DOMAIN ladder : ladder[i].min > points => ladder[m + 1].min <= ladder[i].min
      BY <1>2, <2>4, <3>2
    <3>4. QED
      BY <3>1, <3>2, <3>3
  <2>7. QED
    BY <2>5, <2>6
<1>6. QED
  BY <1>4, <1>5

(* What Show answers, of which NextTierFollows is about the last.           *)
Follows(lang, points, current, next, ladder, quiet) ==
    LET rungs == Range(ladder)
        below == {l \in rungs : l.min <= points}
        ranks == {l \in below : Readable(l.texts, English(lang))}
        now   == {l \in ranks : l.id = current.id}
    IN  /\ next = NoNext <=> below = rungs
        /\ next # NoNext => next.min = Min({l.min : l \in rungs \ below})
        /\ quiet /\ ranks = {} => current.id = None
        /\ quiet /\ ranks # {} =>
              now # {} /\ \A l \in now : l.min = Max({m.min : m \in ranks})

AnswersFollow(answers) ==
    \A i \in DOMAIN answers :
      Follows(answers[i].lang, answers[i].points, answers[i].current, answers[i].next,
              answers[i].ladder, answers[i].quiet)

LEMMA AllFollow ==
    /\ NextTierFollows <=> AnswersFollow(shown)
    /\ NextTierFollows' <=> AnswersFollow(shown')
<1>1. NextTierFollows <=> AnswersFollow(shown)
  BY DEF NextTierFollows, AnswersFollow, Follows
<1>2. NextTierFollows' <=> AnswersFollow(shown')
  BY DEF NextTierFollows, AnswersFollow, Follows
<1>3. QED
  BY <1>1, <1>2

LEMMA AnswerFollows ==
    ASSUME TierInv, NEW lang, Shown(lang) # {}, NEW ladder \in Ladders(lang), NEW points \in Nat,
           NEW current, NEW quiet \in BOOLEAN, quiet => current.id \in CurrentTiers(points, lang)
    PROVE  Follows(lang, points, current, NextTier(ladder, points), ladder, quiet)
<1>1. PICK rungs : rungs = Range(ladder)
  OBVIOUS
<1>2. PICK below : below = {l \in rungs : l.min <= points}
  OBVIOUS
<1>3. PICK next : next = NextTier(ladder, points)
  OBVIOUS
<1>4. rungs = {ladder[i] : i \in DOMAIN ladder}
  BY <1>1 DEF Range
<1>5. /\ \A i \in DOMAIN ladder :
            /\ ladder[i].id \in Shown(lang) /\ ladder[i] = Rung(ladder[i].id)
            /\ ladder[i].min \in Nat /\ ladder[i].id # None
      /\ \A t \in Shown(lang) : \E i \in DOMAIN ladder : ladder[i].id = t
  BY LadderRungs
<1>6. /\ next = NoNext <=> below = rungs
      /\ next # NoNext => next.min = Min({l.min : l \in rungs \ below})
  <2>1. CASE next = NoNext /\ \A i \in DOMAIN ladder : ladder[i].min <= points
    BY <1>2, <1>4, <2>1
  <2>2. ASSUME NEW k \in DOMAIN ladder, next = ladder[k], ladder[k].min > points,
               \A i \in DOMAIN ladder : ladder[i].min > points => ladder[k].min <= ladder[i].min
        PROVE  /\ next # NoNext /\ below # rungs
               /\ next.min = Min({l.min : l \in rungs \ below})
    <3>1. next # NoNext
      BY <1>5, <2>2 DEF NoNext
    <3>2. ladder[k] \in rungs \ below
      BY <1>2, <1>4, <1>5, <2>2
    <3>3. PICK T : T = {l.min : l \in rungs \ below}
      OBVIOUS
    <3>4. T \subseteq Int /\ next.min \in T /\ \A x \in T : next.min <= x
      BY <1>2, <1>4, <1>5, <2>2, <3>2, <3>3
    <3>5. Min(T) = next.min
      BY <3>4, LowestIsMin
    <3>6. QED
      BY <3>1, <3>2, <3>3, <3>5
  <2>3. QED
    BY <1>3, <2>1, <2>2, NextIsFirst
<1>7. PICK eng : eng = English(lang)
  OBVIOUS
<1>8. PICK ranks : ranks = {l \in below : Readable(l.texts, eng)}
  OBVIOUS
<1>9. PICK now : now = {l \in ranks : l.id = current.id}
  OBVIOUS
<1>10. PICK reached : reached = Reached(points, eng)
  OBVIOUS
<1>11. /\ \A l \in ranks : l.id \in reached /\ l = Rung(l.id) /\ l.min \in Nat
       /\ \A t \in reached : Rung(t) \in ranks
  <2>1. \A t : t \in reached <=> /\ t \in Shown(lang) /\ tiers[t].min <= points
                                  /\ Readable(tiers[t].texts, eng)
    BY <1>7, <1>10, ReachedAreShown
  <2>2. \A t : Rung(t).id = t /\ Rung(t).min = tiers[t].min /\ Rung(t).texts = tiers[t].texts
    BY DEF Rung
  <2>3. ASSUME NEW l \in ranks PROVE l.id \in reached /\ l = Rung(l.id) /\ l.min \in Nat
    <3>1. PICK i \in DOMAIN ladder : l = ladder[i] /\ l.min <= points /\ Readable(l.texts, eng)
      BY <1>2, <1>4, <1>8
    <3>2. PICK t \in Shown(lang) : t = l.id /\ l = Rung(t) /\ l.min \in Nat
      BY <1>5, <3>1
    <3>3. t \in reached
      BY <2>1, <2>2, <3>1, <3>2
    <3>4. QED
      BY <3>2, <3>3
  <2>4. ASSUME NEW t \in reached PROVE Rung(t) \in ranks
    <3>1. t \in Shown(lang) /\ tiers[t].min <= points /\ Readable(tiers[t].texts, eng)
      BY <2>1
    <3>2. PICK i \in DOMAIN ladder : ladder[i].id = t /\ ladder[i] = Rung(t)
      BY <1>5, <3>1
    <3>3. Rung(t) \in rungs
      BY <1>4, <3>2
    <3>4. QED
      BY <1>2, <1>8, <2>2, <3>1, <3>3
  <2>5. QED
    BY <2>3, <2>4
<1>12. ASSUME quiet
       PROVE  /\ ranks = {} => current.id = None
              /\ ranks # {} => now # {} /\ \A l \in now : l.min = Max({m.min : m \in ranks})
  <2>1. CASE reached = {}
    <3>1. ranks = {}
      BY <1>11, <2>1
    <3>2. current.id = None
      BY <1>7, <1>10, <1>12, <2>1 DEF CurrentTiers
    <3>3. QED
      BY <3>1, <3>2
  <2>2. CASE reached # {}
    <3>1. PICK t \in reached : t = current.id /\ \A u \in reached : tiers[u].min <= tiers[t].min
      BY <1>7, <1>10, <1>12, <2>2 DEF CurrentTiers
    <3>2. PICK top : top = Rung(t)
      OBVIOUS
    <3>3. top \in ranks /\ top.id = t /\ top.min = tiers[t].min
      BY <1>11, <3>1, <3>2 DEF Rung
    <3>4. \A l \in now : l = top
      BY <1>9, <1>11, <3>1, <3>2
    <3>5. PICK T : T = {m.min : m \in ranks}
      OBVIOUS
    <3>6. T \subseteq Int /\ top.min \in T
      BY <1>11, <3>3, <3>5
    <3>7. \A x \in T : x <= top.min
      <4>1. TAKE x \in T
      <4>2. PICK m \in ranks : x = m.min
        BY <3>5
      <4>3. m.id \in reached /\ m.min = tiers[m.id].min
        BY <1>11, <4>2 DEF Rung
      <4>4. QED
        BY <3>1, <3>3, <4>2, <4>3
    <3>8. Max(T) = top.min
      BY <3>6, <3>7, BestIsMax
    <3>9. now # {}
      BY <1>9, <3>1, <3>3
    <3>10. QED
      BY <3>3, <3>4, <3>5, <3>8, <3>9
  <2>3. QED
    BY <2>1, <2>2
<1>13. QED
  BY <1>1, <1>2, <1>3, <1>6, <1>7, <1>8, <1>9, <1>12 DEF Follows

-----------------------------------------------------------------------------
(* A step that only one request takes, on nothing else.                    *)
LEMMA LooksStay ==
    ASSUME TierInv, NEW r \in Requests, NEW g, req' = [req EXCEPT ![r] = g],
           UNCHANGED <<tiers, total>>, calls' \in Nat, calls <= calls', LookedUp(g)'
    PROVE  TierInv'
<1>1. Live' = Live
  BY DEF Live
<1>2. ASSUME NEW q, LookedUp(q) PROVE LookedUp(q)'
  <2>1. calls \in Nat
    BY DEF TierInv
  <2>2. CASE q.pc = "current"
    <3>1. q.points \in Nat /\ q.since \in Nat /\ q.since <= calls /\ q.customer \in Customers
          /\ (calls = q.since => total[q.customer] = q.points)
      BY <1>2, <2>2 DEF LookedUp, Quiet
    <3>2. q.since <= calls' /\ (calls' = q.since => calls = q.since)
      BY <2>1, <3>1
    <3>3. QED
      BY <2>2, <3>1, <3>2 DEF LookedUp, Quiet
  <2>3. CASE q.pc = "tier"
    <3>1. q.asked.points \in Nat /\ q.asked.since \in Nat /\ q.asked.since <= calls
          /\ (calls = q.asked.since => q.again = q.asked.points)
      BY <1>2, <2>3 DEF LookedUp, Quiet
    <3>2. q.asked.since <= calls' /\ (calls' = q.asked.since => calls = q.asked.since)
      BY <2>1, <3>1
    <3>3. QED
      BY <2>3, <3>1, <3>2 DEF LookedUp, Quiet
  <2>4. CASE q.pc = "ladder"
    <3>1. q.asked.points \in Nat /\ q.asked.since \in Nat /\ q.asked.since <= calls
      BY <1>2, <2>4 DEF LookedUp
    <3>2. calls = q.asked.since => q.current.id \in CurrentTiers(q.asked.points, q.asked.lang)
      BY <1>2, <2>4 DEF LookedUp, Quiet
    <3>3. q.asked.since <= calls' /\ (calls' = q.asked.since => calls = q.asked.since)
      BY <2>1, <3>1
    <3>4. CurrentTiers(q.asked.points, q.asked.lang)' = CurrentTiers(q.asked.points, q.asked.lang)
      BY DEF CurrentTiers, Reached, Shown
    <3>5. QED
      BY <2>4, <3>1, <3>2, <3>3, <3>4 DEF LookedUp, Quiet
  <2>5. QED
    BY <2>2, <2>3, <2>4 DEF LookedUp
<1>3. \A s \in Requests : LookedUp(req[s])'
  <2>1. TAKE s \in Requests
  <2>2. PICK h : h = req'[s]
    OBVIOUS
  <2>3. h = g \/ LookedUp(h)
    BY <2>2 DEF TierInv
  <2>4. LookedUp(h)'
    BY <1>2, <2>3
  <2>5. QED
    BY <2>2, <2>4
<1>4. QED
  BY <1>1, <1>3 DEF TierInv

(* A call that changes a tier or somebody's points.                        *)
LEMMA CallsStay ==
    ASSUME TierInv, UNCHANGED req, calls' = calls + 1,
           tiers' \in [TierIds -> TierRows], total' \in [Customers -> Nat], IsFiniteSet(Live')
    PROVE  TierInv'
<1>1. ASSUME NEW q, LookedUp(q) PROVE LookedUp(q)'
  <2>1. calls \in Nat
    BY DEF TierInv
  <2>2. \A n \in Nat : n <= calls => n <= calls' /\ n # calls'
    BY <2>1
  <2>3. CASE q.pc = "current"
    BY <1>1, <2>2, <2>3 DEF LookedUp, Quiet
  <2>4. CASE q.pc = "tier"
    BY <1>1, <2>2, <2>4 DEF LookedUp, Quiet
  <2>5. CASE q.pc = "ladder"
    BY <1>1, <2>2, <2>5 DEF LookedUp, Quiet
  <2>6. QED
    BY <2>3, <2>4, <2>5 DEF LookedUp
<1>2. \A s \in Requests : LookedUp(req[s])'
  <2>1. TAKE s \in Requests
  <2>2. PICK h : h = req[s]
    OBVIOUS
  <2>3. LookedUp(h)'
    BY <1>1, <2>2 DEF TierInv
  <2>4. QED
    BY <2>2, <2>3
<1>3. QED
  BY <1>2 DEF TierInv

LEMMA TierEditsStay ==
    ASSUME TierInv, SaveTier \/ RemoveTier \/ ChangeTotal
    PROVE  TierInv'
<1>1. calls' = calls + 1 /\ UNCHANGED req
  BY DEF SaveTier, RemoveTier, ChangeTotal, Count
<1>2. CASE SaveTier
  <2>1. PICK t \in TierIds, form \in TierForms : tiers' = [tiers EXCEPT ![t] = Saved(form)]
    BY <1>2 DEF SaveTier
  <2>2. Saved(form) \in TierRows
    BY EligibilityAssumption DEF Saved, TierRows
  <2>3. tiers' \in [TierIds -> TierRows] /\ total' \in [Customers -> Nat]
    BY <1>2, <2>1, <2>2 DEF SaveTier, TierInv
  <2>4. Live' \subseteq Live \cup {t}
    BY <2>1 DEF Live, TierInv
  <2>5. IsFiniteSet(Live)
    BY DEF TierInv
  <2>6. IsFiniteSet(Live \cup {t})
    BY <2>5, FS_AddElement
  <2>7. IsFiniteSet(Live')
    BY <2>4, <2>6, FS_Subset
  <2>8. QED
    BY <1>1, <2>3, <2>7, CallsStay
<1>3. CASE RemoveTier
  <2>1. PICK t \in TierIds : tiers' = [tiers EXCEPT ![t].status = 0]
    BY <1>3 DEF RemoveTier
  <2>2. tiers' \in [TierIds -> TierRows] /\ total' \in [Customers -> Nat]
    BY <1>3, <2>1 DEF RemoveTier, TierInv, TierRows
  <2>3. Live' \subseteq Live
    BY <2>1 DEF Live, TierInv, TierRows
  <2>4. IsFiniteSet(Live)
    BY DEF TierInv
  <2>5. IsFiniteSet(Live')
    BY <2>3, <2>4, FS_Subset
  <2>6. QED
    BY <1>1, <2>2, <2>5, CallsStay
<1>4. CASE ChangeTotal
  <2>1. PICK c \in Customers : \E n \in Totals : total' = [total EXCEPT ![c] = n]
    BY <1>4 DEF ChangeTotal
  <2>2. total' \in [Customers -> Nat] /\ UNCHANGED tiers
    BY <1>4, <2>1, EligibilityAssumption DEF ChangeTotal, TierInv
  <2>3. Live' = Live
    BY <2>2 DEF Live
  <2>4. QED
    BY <1>1, <2>2, <2>3, CallsStay DEF TierInv
<1>5. QED
  BY <1>2, <1>3, <1>4

LEMMA ReadsStay ==
    ASSUME TierInv, NEW r \in Requests, TierBenefits(r) \/ ReadCurrent(r) \/ ReadTier(r)
    PROVE  TierInv'
<1>1. UNCHANGED <<tiers, total>> /\ calls \in Nat
  BY DEF TierBenefits, ReadCurrent, ReadTier, TierInv
<1>2. CASE TierBenefits(r)
  <2>1. PICK c \in Customers, lang \in Languages \cup {None} :
          req' = [req EXCEPT ![r] = [pc |-> "current", customer |-> c, lang |-> lang,
                                     points |-> total[c], since |-> calls + 1]]
    BY <1>2 DEF TierBenefits, Go
  <2>2. PICK g : g = [pc |-> "current", customer |-> c, lang |-> lang,
                      points |-> total[c], since |-> calls + 1]
    OBVIOUS
  <2>3. calls' = calls + 1
    BY <1>2 DEF TierBenefits, Count
  <2>4. LookedUp(g)'
    BY <1>1, <2>2, <2>3 DEF LookedUp, Quiet, TierInv
  <2>5. calls' \in Nat /\ calls <= calls' /\ req' = [req EXCEPT ![r] = g]
    BY <1>1, <2>1, <2>2, <2>3
  <2>6. QED
    BY <1>1, <2>4, <2>5, LooksStay
<1>3. CASE ReadCurrent(r)
  <2>1. PICK q : q = req[r] /\ q.pc = "current" /\ LookedUp(q)
    BY <1>3 DEF ReadCurrent, At, TierInv
  <2>2. PICK g : g = [pc |-> "tier", asked |-> q, again |-> total[q.customer]]
    OBVIOUS
  <2>3. req' = [req EXCEPT ![r] = g] /\ calls' = calls
    BY <1>3, <2>1, <2>2 DEF ReadCurrent, Go
  <2>4. LookedUp(g)'
    BY <1>1, <2>1, <2>2, <2>3 DEF LookedUp, Quiet
  <2>5. calls' \in Nat /\ calls <= calls'
    BY <1>1, <2>3
  <2>6. QED
    BY <1>1, <2>3, <2>4, <2>5, LooksStay
<1>4. CASE ReadTier(r)
  <2>1. PICK q : q = req[r] /\ q.pc = "tier" /\ LookedUp(q)
    BY <1>4 DEF ReadTier, At, TierInv
  <2>2. PICK t \in CurrentTiers(q.again, q.asked.lang) :
          req' = [req EXCEPT ![r] =
                    [pc |-> "ladder", asked |-> q.asked,
                     current |-> [id |-> t, min |-> IF t = None THEN 0 ELSE tiers[t].min]]]
    BY <1>4, <2>1 DEF ReadTier, Go
  <2>3. PICK m : m = IF t = None THEN 0 ELSE tiers[t].min
    OBVIOUS
  <2>4. PICK g : g = [pc |-> "ladder", asked |-> q.asked, current |-> [id |-> t, min |-> m]]
    OBVIOUS
  <2>5. calls' = calls
    BY <1>4 DEF ReadTier
  <2>6. g.pc = "ladder" /\ g.asked = q.asked /\ g.current = [id |-> t, min |-> m] /\ g.current.id = t
    BY <2>4
  <2>7. q.asked.points \in Nat /\ q.asked.since \in Nat /\ q.asked.since <= calls
        /\ (Quiet(q.asked) => q.again = q.asked.points)
    BY <2>1 DEF LookedUp
  <2>8. LookedUp(g)
    BY <2>2, <2>3, <2>6, <2>7 DEF LookedUp
  <2>9. \A p, lang : CurrentTiers(p, lang)' = CurrentTiers(p, lang)
    BY <1>1 DEF CurrentTiers, Reached, Shown
  <2>10. LookedUp(g)'
    BY <1>1, <2>5, <2>8, <2>9 DEF LookedUp, Quiet
  <2>11. calls' \in Nat /\ calls <= calls' /\ req' = [req EXCEPT ![r] = g]
    BY <1>1, <2>2, <2>3, <2>4, <2>5
  <2>12. QED
    BY <1>1, <2>10, <2>11, LooksStay
<1>5. QED
  BY <1>2, <1>3, <1>4

LEMMA ShowFollows ==
    ASSUME TierInv, NextTierFollows, NEW r \in Requests, Show(r)
    PROVE  TierInv' /\ NextTierFollows'
<1>1. UNCHANGED <<tiers, total, calls>> /\ req' = [req EXCEPT ![r] = Idle] /\ calls \in Nat
  BY DEF Show, Return, TierInv
<1>2. TierInv'
  <2>1. LookedUp(Idle)'
    BY DEF LookedUp, Idle
  <2>2. calls' \in Nat /\ calls <= calls'
    BY <1>1
  <2>3. QED
    BY <1>1, <2>1, <2>2, LooksStay
<1>3. CASE UNCHANGED shown
  BY <1>2, <1>3 DEF NextTierFollows
<1>4. CASE ~UNCHANGED shown
  <2>1. PICK q : q = req[r] /\ q.pc = "ladder" /\ LookedUp(q)
    BY DEF Show, At, TierInv
  <2>2. PICK lang, points, current, quiet :
          lang = q.asked.lang /\ points = q.asked.points /\ current = q.current /\ quiet = (calls = q.asked.since)
    OBVIOUS
  <2>3. /\ points \in Nat /\ quiet \in BOOLEAN
        /\ quiet => current.id \in CurrentTiers(points, lang)
    BY <2>1, <2>2 DEF LookedUp, Quiet
  <2>4. PICK ladder \in Ladders(lang) :
          shown' = <<[lang |-> lang, points |-> points, current |-> current, next |-> NextTier(ladder, points),
                      ladder |-> ladder, quiet |-> quiet]>>
    BY <1>4, <2>1, <2>2 DEF Show
  <2>5. Shown(lang) # {}
    BY <1>4, <2>1, <2>2 DEF Show
  <2>6. PICK next : next = NextTier(ladder, points)
    OBVIOUS
  <2>7. Follows(lang, points, current, next, ladder, quiet)
    BY <2>3, <2>5, <2>6, AnswerFollows
  <2>8. PICK a : a = [lang |-> lang, points |-> points, current |-> current, next |-> next,
                      ladder |-> ladder, quiet |-> quiet]
    OBVIOUS
  <2>9. a.lang = lang /\ a.points = points /\ a.current = current /\ a.next = next /\ a.ladder = ladder
        /\ (a.quiet <=> quiet)
    BY <2>3, <2>8
  <2>10. \A i \in DOMAIN shown' : shown'[i] = a
    BY <2>4, <2>6, <2>8
  <2>11. AnswersFollow(shown')
    <3>1. Follows(a.lang, a.points, a.current, a.next, a.ladder, a.quiet)
      BY <2>3, <2>7, <2>9, Zenon DEF Follows
    <3>2. QED
      BY <2>10, <3>1 DEF AnswersFollow
  <2>12. QED
    BY <1>2, <2>11, AllFollow
<1>5. QED
  BY <1>2, <1>3, <1>4

(* The tier and the next tier that a customer is shown are the ones his    *)
(* points give him, whatever tiers were saved meanwhile for the next and   *)
(* if nothing was for his own (NextTierFollows).                           *)
THEOREM ShownTierFollows == EligibilitySpec => []NextTierFollows
<1>1. EligibilityInit => TierInv /\ NextTierFollows
  <2>1. SUFFICES ASSUME EligibilityInit PROVE TierInv /\ NextTierFollows
    OBVIOUS
  <2>2. NoTier \in TierRows /\ NoTier.status = 0
    BY DEF NoTier, TierRows
  <2>3. tiers \in [TierIds -> TierRows] /\ total \in [Customers -> Nat]
    BY <2>1, <2>2, EligibilityAssumption DEF EligibilityInit
  <2>4. Live = {}
    BY <2>1, <2>2 DEF EligibilityInit, Live
  <2>5. IsFiniteSet(Live)
    BY <2>4, FS_EmptySet
  <2>6. LookedUp(Idle)
    BY DEF LookedUp, Idle
  <2>7. QED
    BY <2>1, <2>3, <2>5, <2>6 DEF EligibilityInit, TierInv, NextTierFollows
<1>2. TierInv /\ NextTierFollows /\ [EligibilityNext]_eligibilityVars => (TierInv /\ NextTierFollows)'
  <2>1. SUFFICES ASSUME TierInv, NextTierFollows, [EligibilityNext]_eligibilityVars PROVE TierInv' /\ NextTierFollows'
    OBVIOUS
  <2>2. ASSUME UNCHANGED shown PROVE NextTierFollows'
    BY <2>1, <2>2, AllFollow
  <2>3. ASSUME SaveTier \/ RemoveTier \/ ChangeTotal PROVE TierInv' /\ NextTierFollows'
    BY <2>1, <2>2, <2>3, TierEditsStay DEF SaveTier, RemoveTier, ChangeTotal
  <2>4. ASSUME NEW r \in Requests, TierBenefits(r) \/ ReadCurrent(r) \/ ReadTier(r)
        PROVE  TierInv' /\ NextTierFollows'
    BY <2>1, <2>2, <2>4, ReadsStay DEF TierBenefits, ReadCurrent, ReadTier
  <2>5. ASSUME SetDiscount \/ UNCHANGED eligibilityVars PROVE TierInv' /\ NextTierFollows'
    <3>1. UNCHANGED <<tiers, total, req, shown>> /\ (calls' = calls \/ calls' = calls + 1)
      BY <2>5 DEF SetDiscount, Count, eligibilityVars
    <3>2. Live' = Live
      BY <3>1 DEF Live
    <3>3. CASE calls' = calls + 1
      BY <2>1, <2>2, <3>1, <3>2, <3>3, CallsStay DEF TierInv
    <3>4. CASE calls' = calls
      BY <2>1, <2>2, <3>1, <3>2, <3>4 DEF TierInv, LookedUp, Quiet, CurrentTiers, Reached, Shown
    <3>5. QED
      BY <3>1, <3>3, <3>4
  <2>6. ASSUME NEW r \in Requests, Redeem(r) \/ Pay(r) \/ SaveCoupon(r)
        PROVE  TierInv' /\ NextTierFollows'
    <3>1. UNCHANGED <<tiers, total, shown>> /\ (calls' = calls \/ calls' = calls + 1) /\ calls \in Nat
      BY <2>1, <2>6 DEF Redeem, Pay, SaveCoupon, Count, TierInv
    <3>2. calls' \in Nat /\ calls <= calls'
      BY <3>1
    <3>3. ASSUME NEW g, req' = [req EXCEPT ![r] = g], g.pc \in {"check", "save", "idle"}
          PROVE  TierInv' /\ NextTierFollows'
      <4>1. LookedUp(g)'
        BY <3>3 DEF LookedUp
      <4>2. TierInv'
        BY <2>1, <3>1, <3>2, <3>3, <4>1, LooksStay
      <4>3. QED
        BY <2>2, <3>1, <4>2
    <3>4. CASE Redeem(r)
      <4>1. PICK c, way, amount :
              req' = [req EXCEPT ![r] = [pc |-> "check", customer |-> c, way |-> way,
                                         amount |-> amount, copy |-> discount]]
        BY <3>4 DEF Redeem, Go
      <4>2. PICK g : g = [pc |-> "check", customer |-> c, way |-> way, amount |-> amount, copy |-> discount]
        OBVIOUS
      <4>3. g.pc = "check"
        BY <4>2
      <4>4. QED
        BY <3>3, <4>1, <4>2, <4>3
    <3>5. CASE Pay(r)
      <4>1. PICK tier : IF ~Admitted(req[r].way, tier) THEN req' = [req EXCEPT ![r] = Idle]
                        ELSE req' = [req EXCEPT ![r] =
                               [pc |-> "save", copy |-> Discounted(req[r].copy, req[r].way.by, tier)]]
        BY <3>5 DEF Pay, Return, Go
      <4>2. PICK g : req' = [req EXCEPT ![r] = g] /\ g.pc \in {"save", "idle"}
        <5>1. CASE ~Admitted(req[r].way, tier)
          <6>1. PICK g : g = Idle
            OBVIOUS
          <6>2. req' = [req EXCEPT ![r] = g] /\ g.pc = "idle"
            BY <4>1, <5>1, <6>1 DEF Idle
          <6>3. QED
            BY <6>2
        <5>2. CASE Admitted(req[r].way, tier)
          <6>1. PICK g : g = [pc |-> "save", copy |-> Discounted(req[r].copy, req[r].way.by, tier)]
            OBVIOUS
          <6>2. req' = [req EXCEPT ![r] = g] /\ g.pc = "save"
            BY <4>1, <5>2, <6>1
          <6>3. QED
            BY <6>2
        <5>3. QED
          BY <5>1, <5>2
      <4>3. QED
        BY <3>3, <4>2
    <3>6. CASE SaveCoupon(r)
      BY <3>3, <3>6 DEF SaveCoupon, Return, Idle
    <3>7. QED
      BY <2>6, <3>4, <3>5, <3>6
  <2>7. QED
    BY <2>1, <2>3, <2>4, <2>5, <2>6, ShowFollows DEF EligibilityNext
<1>3. QED
  BY <1>1, <1>2, PTL DEF EligibilitySpec

-----------------------------------------------------------------------------
(* Conditions.  A customer brings for the first row what it asks, and of   *)
(* vehicles and rows that are compared one by one the first decides.       *)

LEMMA IsSeqIs ==
    ASSUME NEW s, IsSeq(s)
    PROVE  /\ Len(s) \in Nat /\ DOMAIN s = 1 .. Len(s)
           /\ s # <<>> => 1 \in DOMAIN s
<1>1. s \in Seq(Range(s))
  BY DEF IsSeq
<1>2. Len(s) \in Nat /\ DOMAIN s = 1 .. Len(s)
  BY <1>1
<1>3. s # <<>> => Len(s) # 0
  BY <1>1
<1>4. QED
  BY <1>2, <1>3

LEMMA FirstIsMin ==
    ASSUME NEW T, T \subseteq Nat \ {0}, 1 \in T
    PROVE  Min(T) = 1
<1>1. T \in SUBSET Int /\ \A x \in T : 1 <= x
  OBVIOUS
<1>2. QED
  BY <1>1, LowestIsMin

LEMMA OnlyOneIsIt ==
    ASSUME NEW i \in Int
    PROVE  Min({i}) = i /\ Max({i}) = i
<1>1. i <= i /\ i >= i
  OBVIOUS
<1>2. QED
  BY <1>1 DEF Min, Max

LEMMA FirstDecides ==
    ASSUME NEW outs, DOMAIN outs \subseteq Nat \ {0}, 1 \in DOMAIN outs, outs[1] # "no"
    PROVE  AnyOf(outs) = outs[1]
<1>1. PICK ends : ends = {i \in DOMAIN outs : outs[i] # "no"}
  OBVIOUS
<1>2. ends \subseteq Nat \ {0} /\ 1 \in ends
  BY <1>1
<1>3. Min(ends) = 1
  BY <1>2, FirstIsMin
<1>4. ends # {}
  BY <1>2
<1>5. AnyOf(outs) = IF ends = {} THEN "no" ELSE outs[Min(ends)]
  BY <1>1 DEF AnyOf
<1>6. QED
  BY <1>3, <1>4, <1>5

(* If nothing throws, one is enough.                                       *)
LEMMA OneIsEnough ==
    ASSUME NEW outs, DOMAIN outs \subseteq Nat, \A i \in DOMAIN outs : outs[i] \in {"yes", "no"}
    PROVE  /\ AnyOf(outs) \in {"yes", "no"}
           /\ AnyOf(outs) = "yes" <=> \E i \in DOMAIN outs : outs[i] = "yes"
<1>1. PICK ends : ends = {i \in DOMAIN outs : outs[i] # "no"}
  OBVIOUS
<1>2. AnyOf(outs) = IF ends = {} THEN "no" ELSE outs[Min(ends)]
  BY <1>1 DEF AnyOf
<1>3. CASE ends = {}
  BY <1>1, <1>2, <1>3
<1>4. CASE ends # {}
  <2>1. ends \in SUBSET Nat
    BY <1>1
  <2>2. PICK m \in ends : \A y \in ends : m <= y
    BY <1>4, <2>1, LeastExists
  <2>3. Min(ends) = m
    <3>1. ends \in SUBSET Int
      BY <2>1
    <3>2. QED
      BY <2>2, <3>1, LowestIsMin
  <2>4. AnyOf(outs) = "yes" /\ m \in DOMAIN outs /\ outs[m] = "yes"
    BY <1>1, <1>2, <1>4, <2>2, <2>3
  <2>5. QED
    BY <2>4
<1>5. QED
  BY <1>3, <1>4

(* What a row of a vehicle is told as.                                     *)
LEMMA ToldIs ==
    ASSUME NEW row
    PROVE  LET v == ToldVehicle(row)
           IN  /\ v.make = row.make /\ v.year = row.year /\ v.model = row.model
               /\ v.variants = row.variants
               /\ v.features = [f \in {row.type} \ {None} |-> row.value]
  BY DEF ToldVehicle

(* A row is met by what is told of it, if its field is looked for in the   *)
(* letters it is told in and its value can be trimmed.                     *)
LEMMA RowMeetsItself ==
    ASSUME NEW check, NEW row, Asks(row) # {} \/ row.variants # {},
           row.type # None => /\ row.operator \in Within /\ row.value.n \in Nat
                              /\ FieldOf(check, row) = row.type
    PROVE  /\ check # "simple" \/ Plain(row) => VehicleMatches(check, ToldVehicle(row), row) = "yes"
           /\ check = "simple" /\ ~Plain(row) => VehicleMatches(check, ToldVehicle(row), row) = "error"
<1>1. PICK v : v = ToldVehicle(row)
  OBVIOUS
<1>2. /\ v.make = row.make /\ v.year = row.year /\ v.model = row.model /\ v.variants = row.variants
      /\ v.features = [f \in {row.type} \ {None} |-> row.value]
  BY <1>1, ToldIs
<1>3. row.type # None => row.type \in DOMAIN v.features /\ v.features[row.type] = row.value
  BY <1>2
<1>4. row.type # None => Feature(check, v.features[row.type], row)
                           = IF check = "simple" /\ ~row.value.text THEN "error" ELSE "yes"
  <2>1. SUFFICES ASSUME row.type # None
                 PROVE  Feature(check, row.value, row)
                          = IF check = "simple" /\ ~row.value.text THEN "error" ELSE "yes"
    BY <1>3
  <2>2. row.operator \in {"==", ">=", "<="} /\ row.value.n \in Nat
    BY <2>1 DEF Within
  <2>3. Applies(row.value, row.operator, row.value) = TRUE
    BY <2>2 DEF Applies
  <2>4. QED
    BY <2>3 DEF Feature, Trimmed, Answer
<1>5. \A f \in Asks(row) \ {"type"} : v[f] = row[f]
  BY <1>2 DEF Asks
<1>6. row.variants \subseteq v.variants
  BY <1>2
<1>7. PICK field : field = FieldOf(check, row)
  OBVIOUS
<1>8. ~(row.type # None /\ field \notin DOMAIN v.features)
  BY <1>3, <1>7
<1>9. PICK out : out = Feature(check, v.features[field], row)
  OBVIOUS
<1>10. row.type # None => out = IF check = "simple" /\ ~row.value.text THEN "error" ELSE "yes"
  BY <1>4, <1>7, <1>9
<1>11. VehicleMatches(check, v, row) =
         IF row.type # None /\ out = "error" THEN "error"
         ELSE Answer(/\ Asks(row) # {} \/ row.variants # {}
                     /\ row.type # None => out = "yes"
                     /\ \A f \in Asks(row) \ {"type"} : v[f] = row[f]
                     /\ row.variants # {"all"} => row.variants \subseteq v.variants)
  BY <1>7, <1>8, <1>9 DEF VehicleMatches
<1>12. ASSUME check # "simple" \/ Plain(row) PROVE VehicleMatches(check, v, row) = "yes"
  <2>1. row.type # None => out = "yes"
    BY <1>10, <1>12 DEF Plain
  <2>2. QED
    BY <1>5, <1>6, <1>11, <2>1 DEF Answer
<1>13. ASSUME check = "simple", ~Plain(row) PROVE VehicleMatches(check, v, row) = "error"
  BY <1>10, <1>11, <1>13 DEF Plain
<1>14. QED
  BY <1>1, <1>12, <1>13

(* What of a vehicle's rows everybody can bring.                           *)
LEMMA RowsAre ==
    ASSUME NEW e, IsEntry(e), Bringable(e), e.type = "VEHICLE_SPECIFIC", NEW i \in DOMAIN e.rows
    PROVE  /\ Asks(e.rows[i]) # {} \/ e.rows[i].variants # {}
           /\ e.rows[i].type # None => /\ e.rows[i].operator \in Within /\ e.rows[i].value.n \in Nat
                                       /\ e.rows[i].type \in DOMAIN Lower
<1>1. Asks(e.rows[i]) # {} \/ e.rows[i].variants # {}
  BY DEF Bringable
<1>2. e.rows[i].type # None => e.rows[i].operator \in Within
  BY DEF Bringable
<1>3. e.rows[i].type # None => e.rows[i].type \in DOMAIN Lower /\ HasValue(e.rows[i])
  BY DEF IsEntry
<1>4. QED
  BY <1>1, <1>2, <1>3 DEF HasValue

(* The simple check stops at the first row of the first vehicle.           *)
LEMMA SimpleVehicleBrought ==
    ASSUME NEW e, IsEntry(e), Bringable(e), e.type = "VEHICLE_SPECIFIC",
           NEW order, order.vehicles = Told(e)
    PROVE  Vehicle("simple", e.rows, order) = "yes" <=> Obtainable("simple", e)
<1>1. PICK rows : rows = e.rows
  OBVIOUS
<1>2. DOMAIN rows \subseteq Nat \ {0} /\ 1 \in DOMAIN rows
  <2>1. IsSeq(rows) /\ rows # <<>>
    BY <1>1 DEF IsEntry, Bringable
  <2>2. QED
    BY <2>1, IsSeqIs
<1>3. PICK v : v = order.vehicles
  OBVIOUS
<1>4. DOMAIN v = DOMAIN rows /\ v[1] = ToldVehicle(rows[1])
  BY <1>1, <1>2, <1>3 DEF Told, ToldRow
<1>5. PICK first : first = VehicleMatches("simple", v[1], rows[1])
  OBVIOUS
<1>6. /\ Plain(rows[1]) => first = "yes"
      /\ ~Plain(rows[1]) => first = "error"
  <2>1. FieldOf("simple", rows[1]) = rows[1].type
    BY DEF FieldOf
  <2>2. /\ Asks(rows[1]) # {} \/ rows[1].variants # {}
        /\ rows[1].type # None => rows[1].operator \in Within /\ rows[1].value.n \in Nat
    BY <1>1, <1>2, RowsAre
  <2>3. QED
    BY <1>4, <1>5, <2>1, <2>2, RowMeetsItself
<1>7. PICK inner : inner = [j \in DOMAIN rows |-> VehicleMatches("simple", v[1], rows[j])]
  OBVIOUS
<1>8. AnyOf(inner) = first /\ first # "no"
  <2>1. DOMAIN inner \subseteq Nat \ {0} /\ 1 \in DOMAIN inner /\ inner[1] = first /\ first # "no"
    BY <1>2, <1>5, <1>6, <1>7
  <2>2. QED
    BY <2>1, FirstDecides
<1>9. PICK outs : outs = [i \in DOMAIN v |-> AnyOf([j \in DOMAIN rows |-> VehicleMatches("simple", v[i], rows[j])])]
  OBVIOUS
<1>10. AnyOf(outs) = first
  <2>1. DOMAIN outs \subseteq Nat \ {0} /\ 1 \in DOMAIN outs /\ outs[1] = AnyOf(inner)
    BY <1>2, <1>4, <1>7, <1>9
  <2>2. QED
    BY <1>8, <2>1, FirstDecides
<1>11. Vehicle("simple", e.rows, order) = first
  BY <1>1, <1>3, <1>9, <1>10 DEF Vehicle
<1>12. Obtainable("simple", e) <=> Plain(rows[1])
  BY <1>1 DEF Obtainable
<1>13. QED
  BY <1>6, <1>11, <1>12

(* The complex check never throws, and looks for fields in lower case.     *)
LEMMA ComplexRowMatches ==
    ASSUME NEW row, NEW v
    PROVE  VehicleMatches("complex", v, row) \in {"yes", "no"}
<1>1. \A actual : Feature("complex", actual, row) \in {"yes", "no"}
  BY DEF Feature, Answer
<1>2. \A actual : Feature("complex", actual, row) # "error"
  BY <1>1
<1>3. QED
  BY <1>2 DEF VehicleMatches, Answer

LEMMA ComplexVehicleBrought ==
    ASSUME NEW e, IsEntry(e), Bringable(e), e.type = "VEHICLE_SPECIFIC",
           NEW order, order.vehicles = Told(e)
    PROVE  Vehicle("complex", e.rows, order) = "yes" <=> Obtainable("complex", e)
<1>1. PICK rows : rows = e.rows
  OBVIOUS
<1>2. DOMAIN rows \subseteq Nat
  <2>1. IsSeq(rows)
    BY <1>1 DEF IsEntry
  <2>2. QED
    BY <2>1, IsSeqIs
<1>3. PICK v : v = order.vehicles
  OBVIOUS
<1>4. DOMAIN v = DOMAIN rows /\ \A i \in DOMAIN rows : v[i] = ToldVehicle(rows[i])
  BY <1>1, <1>3 DEF Told, ToldRow
<1>5. PICK row, outs :
        /\ row = [i \in DOMAIN v |-> [j \in DOMAIN rows |-> VehicleMatches("complex", v[i], rows[j])]]
        /\ outs = [i \in DOMAIN v |-> AnyOf([j \in DOMAIN rows |-> VehicleMatches("complex", v[i], rows[j])])]
  OBVIOUS
<1>6. \A i \in DOMAIN v : /\ outs[i] \in {"yes", "no"}
                          /\ outs[i] = "yes" <=> \E j \in DOMAIN rows :
                                                   VehicleMatches("complex", v[i], rows[j]) = "yes"
  <2>1. TAKE i \in DOMAIN v
  <2>2. PICK inner : inner = [j \in DOMAIN rows |-> VehicleMatches("complex", v[i], rows[j])]
    OBVIOUS
  <2>3. DOMAIN inner \subseteq Nat /\ \A j \in DOMAIN inner : inner[j] \in {"yes", "no"}
    BY <1>2, <2>2, ComplexRowMatches
  <2>4. /\ AnyOf(inner) \in {"yes", "no"}
        /\ AnyOf(inner) = "yes" <=> \E j \in DOMAIN inner : inner[j] = "yes"
    BY <2>3, OneIsEnough
  <2>5. outs[i] = AnyOf(inner)
    BY <1>5, <2>2
  <2>6. QED
    BY <2>2, <2>4, <2>5
<1>7. AnyOf(outs) = "yes" <=> \E i, j \in DOMAIN rows : VehicleMatches("complex", v[i], rows[j]) = "yes"
  <2>1. DOMAIN outs \subseteq Nat /\ DOMAIN outs = DOMAIN rows
        /\ \A i \in DOMAIN outs : outs[i] \in {"yes", "no"}
    BY <1>2, <1>4, <1>5, <1>6
  <2>2. AnyOf(outs) = "yes" <=> \E i \in DOMAIN outs : outs[i] = "yes"
    BY <2>1, OneIsEnough
  <2>3. QED
    BY <1>4, <1>6, <2>1, <2>2
<1>8. Vehicle("complex", e.rows, order) = AnyOf(outs)
  BY <1>1, <1>3, <1>5 DEF Vehicle
<1>9. Obtainable("complex", e) <=>
        \E i \in DOMAIN rows : rows[i].type = None \/ Lower[rows[i].type] = rows[i].type
  BY <1>1 DEF Obtainable
<1>10. ASSUME NEW i \in DOMAIN rows, rows[i].type = None \/ Lower[rows[i].type] = rows[i].type
       PROVE  VehicleMatches("complex", v[i], rows[i]) = "yes"
  <2>1. /\ Asks(rows[i]) # {} \/ rows[i].variants # {}
        /\ rows[i].type # None => rows[i].operator \in Within /\ rows[i].value.n \in Nat
    BY <1>1, RowsAre
  <2>2. rows[i].type # None => FieldOf("complex", rows[i]) = rows[i].type
    BY <1>10 DEF FieldOf
  <2>3. QED
    BY <1>4, <2>1, <2>2, RowMeetsItself
<1>11. ASSUME NEW i \in DOMAIN rows, NEW j \in DOMAIN rows,
              VehicleMatches("complex", v[i], rows[j]) = "yes",
              \A m \in DOMAIN rows : rows[m].type # None /\ Lower[rows[m].type] # rows[m].type
       PROVE  FALSE
  <2>1. PICK f, g : f = rows[i].type /\ g = rows[j].type
    OBVIOUS
  <2>2. f # None /\ g # None /\ f \in DOMAIN Lower /\ g \in DOMAIN Lower /\ Lower[f] # f
    BY <1>1, <1>11, <2>1, RowsAre
  <2>3. DOMAIN v[i].features = {f}
    <3>1. v[i].features = [x \in {f} \ {None} |-> rows[i].value]
      BY <1>4, <2>1, ToldIs
    <3>2. QED
      BY <2>2, <3>1
  <2>4. Lower[Lower[g]] = Lower[g]
    BY <2>2, EligibilityAssumption
  <2>5. Lower[g] # f
    BY <2>2, <2>4
  <2>6. FieldOf("complex", rows[j]) = Lower[g]
    BY <2>1 DEF FieldOf
  <2>7. VehicleMatches("complex", v[i], rows[j]) = "no"
    BY <2>1, <2>2, <2>3, <2>5, <2>6 DEF VehicleMatches
  <2>8. QED
    BY <1>11, <2>7
<1>12. QED
  BY <1>7, <1>8, <1>9, <1>10, <1>11

(* What a list of rows names, and the first value it has for a name.        *)
NamedIn(list) == {list[i].type : i \in DOMAIN list}
FirstValues(list) ==
    [n \in {list[i].type : i \in DOMAIN list} |-> list[Min({i \in DOMAIN list : list[i].type = n})].value]

LEMMA ProductBrought ==
    ASSUME NEW e, IsEntry(e), Bringable(e), e.type = "PRODUCT_SPECIFIC", NEW order,
           order.products = NamedIn(Told(e))
    PROVE  Product(e.rows, order) = "yes" /\ order.products # {}
<1>1. IsSeq(e.rows) /\ e.rows # <<>>
  BY DEF IsEntry, Bringable
<1>2. 1 \in DOMAIN e.rows
  BY <1>1, IsSeqIs
<1>3. DOMAIN Told(e) = DOMAIN e.rows /\ Told(e)[1] = e.rows[1]
  BY <1>2 DEF Told, ToldRow
<1>4. e.rows[1].type \in order.products
  BY <1>2, <1>3 DEF NamedIn
<1>5. QED
  BY <1>2, <1>4 DEF Product, Answer

LEMMA ServiceBrought ==
    ASSUME NEW e, IsEntry(e), Bringable(e), e.type = "SERVICE_BASED", NEW order,
           order.services = FirstValues(Told(e))
    PROVE  Service(e.rows, order) = "yes" <=> Obtainable("complex", e)
<1>1. PICK rows, told : rows = e.rows /\ told = Told(e)
  OBVIOUS
<1>2. DOMAIN rows \subseteq Nat \ {0} /\ 1 \in DOMAIN rows
  <2>1. IsSeq(rows) /\ rows # <<>>
    BY <1>1 DEF IsEntry, Bringable
  <2>2. QED
    BY <2>1, IsSeqIs
<1>3. DOMAIN told = DOMAIN rows /\ told[1] = rows[1]
  BY <1>1, <1>2 DEF Told, ToldRow
<1>4. PICK T : T = {i \in DOMAIN told : told[i].type = rows[1].type}
  OBVIOUS
<1>5. Min(T) = 1
  <2>1. T \subseteq Nat \ {0} /\ 1 \in T
    BY <1>2, <1>3, <1>4
  <2>2. QED
    BY <2>1, FirstIsMin
<1>6. rows[1].type \in DOMAIN order.services /\ order.services[rows[1].type] = rows[1].value
  <2>1. PICK x, named : x = rows[1].type /\ named = {told[i].type : i \in DOMAIN told}
    OBVIOUS
  <2>2. x \in named
    BY <1>2, <1>3, <2>1
  <2>3. order.services = [n \in named |-> told[Min({i \in DOMAIN told : told[i].type = n})].value]
    BY <1>1, <2>1 DEF FirstValues
  <2>4. x \in DOMAIN order.services /\ order.services[x] = told[Min({i \in DOMAIN told : told[i].type = x})].value
    BY <2>2, <2>3
  <2>5. order.services[x] = told[Min(T)].value
    BY <1>4, <2>1, <2>4
  <2>6. QED
    BY <1>3, <1>5, <2>1, <2>4, <2>5
<1>7. rows[1].operator \in {"==", ">=", "<="} /\ HasValue(rows[1])
  <2>1. rows[1].operator \in Within
    BY <1>1, <1>2 DEF Bringable
  <2>2. QED
    BY <1>1, <1>2, <2>1 DEF IsEntry, Within
<1>8. Applies(rows[1].value, rows[1].operator, rows[1].value) = TRUE
  BY <1>7 DEF Applies, HasValue
<1>9. PICK first : first = Trimmed(rows[1].value, rows[1])
  OBVIOUS
<1>10. first = IF rows[1].value.text THEN "yes" ELSE "error"
  BY <1>8, <1>9 DEF Trimmed, Answer
<1>11. PICK outs : outs = [i \in DOMAIN rows |->
                             IF rows[i].type \notin DOMAIN order.services THEN "no"
                             ELSE Trimmed(order.services[rows[i].type], rows[i])]
  OBVIOUS
<1>12. DOMAIN outs \subseteq Nat \ {0} /\ 1 \in DOMAIN outs /\ outs[1] = first /\ first # "no"
  BY <1>2, <1>6, <1>9, <1>10, <1>11
<1>13. AnyOf(outs) = first
  BY <1>12, FirstDecides
<1>14. Service(e.rows, order) = first
  BY <1>1, <1>11, <1>13 DEF Service
<1>15. Obtainable("complex", e) <=> rows[1].value.text
  BY <1>1 DEF Obtainable
<1>16. QED
  BY <1>10, <1>14, <1>15

(* Without any services no service is met.                                 *)
LEMMA NoServices ==
    ASSUME NEW rows, NEW order, DOMAIN order.services = {}
    PROVE  Service(rows, order) = "no"
<1>1. PICK outs : outs = [i \in DOMAIN rows |->
                            IF rows[i].type \notin DOMAIN order.services THEN "no"
                            ELSE Trimmed(order.services[rows[i].type], rows[i])]
  OBVIOUS
<1>2. {i \in DOMAIN outs : outs[i] # "no"} = {}
  BY <1>1
<1>3. AnyOf(outs) = "no"
  BY <1>2 DEF AnyOf
<1>4. QED
  BY <1>1, <1>3 DEF Service

(* Nobody meets a condition with nothing.                                  *)
LEMMA NothingBrought ==
    ASSUME NEW rows, NEW check
    PROVE  /\ Vehicle(check, rows, Nothing) = "no"
           /\ Product(rows, Nothing) = "no"
           /\ Service(rows, Nothing) = "no"
<1>1. Nothing.vehicles = <<>> /\ Nothing.products = {} /\ DOMAIN Nothing.services = {}
  BY DEF Nothing
<1>2. Product(rows, Nothing) = "no" /\ Service(rows, Nothing) = "no"
  BY <1>1, NoServices DEF Product, Answer
<1>3. \A outs : DOMAIN outs = {} => AnyOf(outs) = "no"
  BY DEF AnyOf
<1>4. PICK v : v = Nothing.vehicles /\ DOMAIN v = {}
  BY <1>1
<1>5. PICK outs : outs = [i \in DOMAIN v |-> AnyOf([j \in DOMAIN rows |-> VehicleMatches(check, v[i], rows[j])])]
  OBVIOUS
<1>6. AnyOf(outs) = "no"
  BY <1>3, <1>4, <1>5
<1>7. Vehicle(check, rows, Nothing) = "no"
  BY <1>4, <1>5, <1>6 DEF Vehicle
<1>8. QED
  BY <1>2, <1>7

(* The last entry of a section is the only one.                            *)
LEMMA EntryTold ==
    ASSUME NEW k, IsSeq(k), Distinct(k), NEW i \in DOMAIN k,
           k[i].type \in {"VEHICLE_SPECIFIC", "PRODUCT_SPECIFIC", "SERVICE_BASED"}
    PROVE  /\ Section(k[i].type) \in DOMAIN ComplexCriteria(k)
           /\ ComplexCriteria(k)[Section(k[i].type)] = Told(k[i])
<1>1. i \in Int
  BY IsSeqIs
<1>2. PICK s : s = Section(k[i].type)
  OBVIOUS
<1>3. \A j \in DOMAIN k : Section(k[j].type) = s => k[j].type = k[i].type
  BY <1>2 DEF Section
<1>4. \A j \in DOMAIN k : Section(k[j].type) = s <=> j = i
  BY <1>2, <1>3 DEF Distinct
<1>5. {j \in DOMAIN k : Section(k[j].type) = s} = {i}
  BY <1>4
<1>6. Max({j \in DOMAIN k : Section(k[j].type) = s}) = i
  BY <1>1, <1>5, OnlyOneIsIt
<1>7. PICK names : names = {Section(k[j].type) : j \in DOMAIN k}
  OBVIOUS
<1>8. s \in names
  BY <1>2, <1>7
<1>9. ComplexCriteria(k) = [x \in names |-> Told(k[Max({j \in DOMAIN k : Section(k[j].type) = x})])]
  BY <1>7 DEF ComplexCriteria
<1>10. s \in DOMAIN ComplexCriteria(k) /\ ComplexCriteria(k)[s] = Told(k[Max({j \in DOMAIN k : Section(k[j].type) = s})])
  BY <1>8, <1>9
<1>11. QED
  BY <1>2, <1>6, <1>10

(* What the customer brings for the entry of a section.                    *)
LEMMA SectionBrought ==
    ASSUME NEW criteria
    PROVE  /\ "vehicle" \in DOMAIN criteria => Bring(criteria).vehicles = criteria["vehicle"]
           /\ "products" \in DOMAIN criteria => Bring(criteria).products = NamedIn(criteria["products"])
           /\ "services" \in DOMAIN criteria => Bring(criteria).services = FirstValues(criteria["services"])
<1>1. ASSUME "vehicle" \in DOMAIN criteria PROVE Bring(criteria).vehicles = criteria["vehicle"]
  BY <1>1 DEF Bring
<1>2. ASSUME "products" \in DOMAIN criteria
      PROVE  Bring(criteria).products = NamedIn(criteria["products"])
  BY <1>2 DEF Bring, NamedIn
<1>3. ASSUME "services" \in DOMAIN criteria
      PROVE  Bring(criteria).services = FirstValues(criteria["services"])
  BY <1>3 DEF Bring, FirstValues
<1>4. QED
  BY <1>1, <1>2, <1>3

LEMMA EntryMet ==
    ASSUME NEW e, IsEntry(e), Bringable(e), NEW criteria, Section(e.type) \in DOMAIN criteria,
           criteria[Section(e.type)] = Told(e)
    PROVE  /\ e.type = "VEHICLE_SPECIFIC" =>
                /\ Vehicle("simple", e.rows, Bring(criteria)) = "yes" <=> Obtainable("simple", e)
                /\ Vehicle("complex", e.rows, Bring(criteria)) = "yes" <=> Obtainable("complex", e)
           /\ e.type = "PRODUCT_SPECIFIC" => /\ Product(e.rows, Bring(criteria)) = "yes"
                                             /\ Bring(criteria).products # {}
           /\ e.type = "SERVICE_BASED" =>
                (Service(e.rows, Bring(criteria)) = "yes" <=> Obtainable("complex", e))
<1>1. PICK b : b = Bring(criteria)
  OBVIOUS
<1>2. CASE e.type = "VEHICLE_SPECIFIC"
  <2>1. "vehicle" \in DOMAIN criteria /\ criteria["vehicle"] = Told(e)
    BY <1>2 DEF Section
  <2>2. b.vehicles = Told(e)
    BY <1>1, <2>1, SectionBrought
  <2>3. /\ Vehicle("simple", e.rows, b) = "yes" <=> Obtainable("simple", e)
        /\ Vehicle("complex", e.rows, b) = "yes" <=> Obtainable("complex", e)
    BY <1>2, <2>2, SimpleVehicleBrought, ComplexVehicleBrought
  <2>4. QED
    BY <1>1, <1>2, <2>3
<1>3. CASE e.type = "PRODUCT_SPECIFIC"
  <2>1. "products" \in DOMAIN criteria /\ criteria["products"] = Told(e)
    BY <1>3 DEF Section
  <2>2. b.products = NamedIn(Told(e))
    BY <1>1, <2>1, SectionBrought
  <2>3. Product(e.rows, b) = "yes" /\ b.products # {}
    BY <1>3, <2>2, ProductBrought
  <2>4. QED
    BY <1>1, <1>3, <2>3
<1>4. CASE e.type = "SERVICE_BASED"
  <2>1. "services" \in DOMAIN criteria /\ criteria["services"] = Told(e)
    BY <1>4 DEF Section
  <2>2. b.services = FirstValues(Told(e))
    BY <1>1, <2>1, SectionBrought
  <2>3. Service(e.rows, b) = "yes" <=> Obtainable("complex", e)
    BY <1>4, <2>2, ServiceBrought
  <2>4. QED
    BY <1>1, <1>4, <2>3
<1>5. QED
  BY <1>2, <1>3, <1>4 DEF Bringable

(* A complex coupon, entry by entry.                                       *)
InTierOf(k, e, tier) ==
    /\ e.type = "TIER_BASED"
    /\ \E j \in DOMAIN e.rows : e.rows[j].tier = tier
    /\ \E j \in DOMAIN k : k[j].type = "PRODUCT_SPECIFIC"

LEMMA ComplexSuffices ==
    ASSUME NEW k, IsSeq(k), \A i \in DOMAIN k : IsEntry(k[i]), k # <<>>, Distinct(k),
           NEW c, NEW tier, tier \in TierIds \cup {None}, None \notin TierIds,
           \A i \in DOMAIN k : Bringable(k[i]) \/ InTierOf(k, k[i], tier)
    PROVE  /\ ValidateComplex(k, Nothing, c, tier).answer = "no"
           /\ ValidateComplex(k, ValidateComplex(k, Nothing, c, tier).bring, c, tier).answer = "yes"
                <=> \A i \in DOMAIN k : Obtainable("complex", k[i])
<1>1. PICK i0 : i0 \in DOMAIN k
  BY IsSeqIs
<1>2. \A i \in DOMAIN k : CheckEntry(k[i], Nothing, c, tier) = "no"
  <2>1. TAKE i \in DOMAIN k
  <2>2. PICK e : e = k[i] /\ (Bringable(e) \/ e.type = "TIER_BASED")
    BY DEF InTierOf
  <2>3. /\ Vehicle("complex", e.rows, Nothing) = "no" /\ Product(e.rows, Nothing) = "no"
        /\ Service(e.rows, Nothing) = "no" /\ Nothing.products = {}
    BY NothingBrought DEF Nothing
  <2>4. e.type \in {"VEHICLE_SPECIFIC", "PRODUCT_SPECIFIC", "SERVICE_BASED", "TIER_BASED"}
    BY <2>2 DEF Bringable
  <2>5. CheckEntry(e, Nothing, c, tier) = "no"
    BY <2>3, <2>4 DEF CheckEntry
  <2>6. QED
    BY <2>2, <2>5
<1>3. CheckComplex(k, Nothing, c, tier) = "no"
  <2>1. PICK outs : outs = {CheckEntry(k[i], Nothing, c, tier) : i \in DOMAIN k}
    OBVIOUS
  <2>2. outs = {"no"}
    BY <1>1, <1>2, <2>1
  <2>3. CheckComplex(k, Nothing, c, tier) = IF "error" \in outs THEN "error" ELSE Answer(outs \subseteq {"yes"})
    BY <2>1 DEF CheckComplex
  <2>4. QED
    BY <2>2, <2>3 DEF Answer
<1>4. PICK b : b = Bring(ComplexCriteria(k))
  OBVIOUS
<1>5. /\ ValidateComplex(k, Nothing, c, tier).answer = "no"
      /\ ValidateComplex(k, Nothing, c, tier).bring = b
  BY <1>3, <1>4 DEF ValidateComplex, Validated
<1>6. \A i \in DOMAIN k : Bringable(k[i]) =>
        /\ k[i].type = "VEHICLE_SPECIFIC" =>
             (Vehicle("complex", k[i].rows, b) = "yes" <=> Obtainable("complex", k[i]))
        /\ k[i].type = "PRODUCT_SPECIFIC" => Product(k[i].rows, b) = "yes" /\ b.products # {}
        /\ k[i].type = "SERVICE_BASED" =>
             (Service(k[i].rows, b) = "yes" <=> Obtainable("complex", k[i]))
  <2>1. TAKE i \in DOMAIN k
  <2>2. HAVE Bringable(k[i])
  <2>3. k[i].type \in {"VEHICLE_SPECIFIC", "PRODUCT_SPECIFIC", "SERVICE_BASED"}
    BY <2>2 DEF Bringable
  <2>4. PICK criteria, e : criteria = ComplexCriteria(k) /\ e = k[i]
    OBVIOUS
  <2>5. Section(e.type) \in DOMAIN criteria /\ criteria[Section(e.type)] = Told(e)
    BY <2>3, <2>4, EntryTold
  <2>6. IsEntry(e) /\ Bringable(e)
    BY <2>2, <2>4
  <2>7. /\ e.type = "VEHICLE_SPECIFIC" =>
             (Vehicle("complex", e.rows, Bring(criteria)) = "yes" <=> Obtainable("complex", e))
        /\ e.type = "PRODUCT_SPECIFIC" => /\ Product(e.rows, Bring(criteria)) = "yes"
                                          /\ Bring(criteria).products # {}
        /\ e.type = "SERVICE_BASED" =>
             (Service(e.rows, Bring(criteria)) = "yes" <=> Obtainable("complex", e))
    BY <2>5, <2>6, EntryMet
  <2>8. QED
    BY <1>4, <2>4, <2>7
<1>7. \A i \in DOMAIN k : CheckEntry(k[i], b, c, tier) = "yes" <=> Obtainable("complex", k[i])
  <2>1. TAKE i \in DOMAIN k
  <2>2. PICK e : e = k[i]
    OBVIOUS
  <2>3. CASE Bringable(e)
    <3>1. CASE e.type = "VEHICLE_SPECIFIC"
      <4>1. CheckEntry(e, b, c, tier) = Vehicle("complex", e.rows, b)
        BY <3>1 DEF CheckEntry
      <4>2. QED
        BY <1>6, <2>2, <2>3, <3>1, <4>1
    <3>2. CASE e.type = "PRODUCT_SPECIFIC"
      <4>1. CheckEntry(e, b, c, tier) = Product(e.rows, b) /\ Obtainable("complex", e)
        BY <3>2 DEF CheckEntry, Obtainable
      <4>2. QED
        BY <1>6, <2>2, <2>3, <3>2, <4>1
    <3>3. CASE e.type = "SERVICE_BASED"
      <4>1. CheckEntry(e, b, c, tier) = Service(e.rows, b)
        BY <3>3 DEF CheckEntry
      <4>2. QED
        BY <1>6, <2>2, <2>3, <3>3, <4>1
    <3>4. QED
      BY <2>3, <3>1, <3>2, <3>3 DEF Bringable
  <2>4. CASE InTierOf(k, e, tier)
    <3>1. e.type = "TIER_BASED" /\ (\E j \in DOMAIN e.rows : e.rows[j].tier = tier)
      BY <2>4 DEF InTierOf
    <3>2. tier # None
      <4>1. \A j \in DOMAIN e.rows : e.rows[j].tier \in TierIds
        BY <2>2, <3>1 DEF IsEntry
      <4>2. QED
        BY <3>1, <4>1
    <3>3. PICK j \in DOMAIN k : k[j].type = "PRODUCT_SPECIFIC"
      BY <2>4 DEF InTierOf
    <3>4. Bringable(k[j])
      BY <3>3 DEF InTierOf
    <3>5. b.products # {}
      BY <1>6, <3>3, <3>4
    <3>6. TierBased(e.rows, tier) = "yes"
      BY <3>1, <3>2 DEF TierBased, Answer
    <3>7. CheckEntry(e, b, c, tier) = "yes" /\ Obtainable("complex", e)
      BY <3>1, <3>5, <3>6 DEF CheckEntry, Obtainable
    <3>8. QED
      BY <2>2, <3>7
  <2>5. QED
    BY <2>2, <2>3, <2>4
<1>8. CheckComplex(k, b, c, tier) = "yes" <=> \A i \in DOMAIN k : CheckEntry(k[i], b, c, tier) = "yes"
  <2>1. PICK outs : outs = {CheckEntry(k[i], b, c, tier) : i \in DOMAIN k}
    OBVIOUS
  <2>2. CheckComplex(k, b, c, tier) = IF "error" \in outs THEN "error" ELSE Answer(outs \subseteq {"yes"})
    BY <2>1 DEF CheckComplex
  <2>3. CheckComplex(k, b, c, tier) = "yes" <=> outs \subseteq {"yes"}
    BY <2>2 DEF Answer
  <2>4. QED
    BY <2>1, <2>3
<1>9. ValidateComplex(k, b, c, tier).answer = CheckComplex(k, b, c, tier)
  BY DEF ValidateComplex, Validated
<1>10. QED
  BY <1>5, <1>7, <1>8, <1>9

LEMMA SimpleSuffices ==
    ASSUME NEW k, IsEntry(k), Bringable(k), NEW c, NEW tier
    PROVE  /\ ValidateSimple(k, Nothing, c, tier).answer = "no"
           /\ ValidateSimple(k, ValidateSimple(k, Nothing, c, tier).bring, c, tier).answer = "yes"
                <=> Obtainable("simple", k)
<1>1. k.type \in {"VEHICLE_SPECIFIC", "PRODUCT_SPECIFIC", "SERVICE_BASED"}
  BY DEF Bringable
<1>2. CheckSimple(k, Nothing, c, tier) = "no"
  <2>1. /\ Vehicle("simple", k.rows, Nothing) = "no" /\ Product(k.rows, Nothing) = "no"
        /\ Service(k.rows, Nothing) = "no"
    BY NothingBrought
  <2>2. QED
    BY <1>1, <2>1 DEF CheckSimple
<1>3. PICK criteria, b : criteria = SimpleCriteria(k) /\ b = Bring(criteria)
  OBVIOUS
<1>4. /\ ValidateSimple(k, Nothing, c, tier).answer = "no"
      /\ ValidateSimple(k, Nothing, c, tier).bring = b
  BY <1>2, <1>3 DEF ValidateSimple, Validated
<1>5. ASSUME k.type # "SERVICE_BASED"
      PROVE  CheckSimple(k, b, c, tier) = "yes" <=> Obtainable("simple", k)
  <2>1. Section(k.type) \in DOMAIN criteria /\ criteria[Section(k.type)] = Told(k)
    <3>1. SimpleSection(k.type) = Section(k.type)
      BY <1>5 DEF SimpleSection
    <3>2. QED
      BY <1>3, <3>1 DEF SimpleCriteria
  <2>2. /\ k.type = "VEHICLE_SPECIFIC" => (Vehicle("simple", k.rows, b) = "yes" <=> Obtainable("simple", k))
        /\ k.type = "PRODUCT_SPECIFIC" => Product(k.rows, b) = "yes"
    BY <1>3, <2>1, EntryMet
  <2>3. k.type = "PRODUCT_SPECIFIC" => Obtainable("simple", k)
    BY DEF Obtainable
  <2>4. QED
    BY <1>1, <1>5, <2>2, <2>3 DEF CheckSimple
<1>6. ASSUME k.type = "SERVICE_BASED"
      PROVE  CheckSimple(k, b, c, tier) = "yes" <=> Obtainable("simple", k)
  <2>1. "services" \notin DOMAIN criteria
    BY <1>3, <1>6 DEF SimpleCriteria, SimpleSection
  <2>2. DOMAIN b.services = {}
    BY <1>3, <2>1 DEF Bring
  <2>3. CheckSimple(k, b, c, tier) = "no"
    BY <1>6, <2>2, NoServices DEF CheckSimple
  <2>4. ~Obtainable("simple", k)
    BY <1>6 DEF Obtainable
  <2>5. QED
    BY <2>3, <2>4
<1>7. CheckSimple(k, b, c, tier) = "yes" <=> Obtainable("simple", k)
  BY <1>5, <1>6
<1>8. ValidateSimple(k, b, c, tier).answer = CheckSimple(k, b, c, tier)
  BY DEF ValidateSimple, Validated
<1>9. QED
  BY <1>4, <1>7, <1>8

(* A customer who comes with nothing is refused, and who comes back with   *)
(* exactly what the refusal told him is accepted if and only if it can be  *)
(* brought as it was told (CriteriaSuffice).                               *)
THEOREM CriteriaAreEnough == EligibilitySpec => []CriteriaSuffice
<1>1. CriteriaSuffice
  <2>1. ASSUME NEW c \in Customers, NEW tier \in AnyTier, NEW x \in DOMAIN Complex,
               Complex[x] # <<>>, Distinct(Complex[x]),
               \A i \in DOMAIN Complex[x] :
                 Bringable(Complex[x][i]) \/ InTierOf(Complex[x], Complex[x][i], tier)
        PROVE  LET first == ValidateComplex(Complex[x], Nothing, c, tier)
               IN  /\ first.answer = "no"
                   /\ ValidateComplex(Complex[x], first.bring, c, tier).answer = "yes"
                        <=> \A i \in DOMAIN Complex[x] : Obtainable("complex", Complex[x][i])
    <3>1. PICK k : k = Complex[x]
      OBVIOUS
    <3>2. IsSeq(k) /\ (\A i \in DOMAIN k : IsEntry(k[i])) /\ None \notin TierIds
      BY <3>1, EligibilityAssumption
    <3>3. /\ k # <<>> /\ Distinct(k) /\ tier \in TierIds \cup {None}
          /\ \A i \in DOMAIN k : Bringable(k[i]) \/ InTierOf(k, k[i], tier)
      BY <2>1, <3>1 DEF AnyTier
    <3>4. /\ ValidateComplex(k, Nothing, c, tier).answer = "no"
          /\ ValidateComplex(k, ValidateComplex(k, Nothing, c, tier).bring, c, tier).answer = "yes"
               <=> \A i \in DOMAIN k : Obtainable("complex", k[i])
      BY <3>2, <3>3, ComplexSuffices
    <3>5. QED
      BY <3>1, <3>4
  <2>2. ASSUME NEW c \in Customers, NEW tier \in AnyTier, NEW x \in DOMAIN Simple,
               Bringable(Simple[x])
        PROVE  LET first == ValidateSimple(Simple[x], Nothing, c, tier)
               IN  /\ first.answer = "no"
                   /\ ValidateSimple(Simple[x], first.bring, c, tier).answer = "yes"
                        <=> Obtainable("simple", Simple[x])
    <3>1. IsEntry(Simple[x])
      BY EligibilityAssumption
    <3>2. QED
      BY <2>2, <3>1, SimpleSuffices
  <2>3. QED
    BY <2>1, <2>2 DEF CriteriaSuffice, InTierOf
<1>2. QED
  BY <1>1, PTL

-----------------------------------------------------------------------------
(* Conditions sent back to where they come from.                           *)

LEMMA RowsAreTheSame ==
    ASSUME NEW rows
    PROVE  SameRows(rows, rows)
  BY DEF SameRows, Same

LEMMA EntryEchoed ==
    ASSUME NEW k, IsSeq(k), Distinct(k), NEW i \in DOMAIN k, NEW c \in Customers, NEW tier,
           People[c].birthday \in BOOLEAN
    PROVE  MatchesEntry(k[i], k, c, tier) <=>
             /\ k[i].type = "BIRTHDAY" => People[c].birthday
             /\ k[i].type = "TIER_BASED" => \E j \in DOMAIN k[i].rows : k[i].rows[j].tier = tier
<1>1. i \in Int
  BY IsSeqIs
<1>2. {j \in DOMAIN k : k[j].type = k[i].type} = {i}
  BY DEF Distinct
<1>3. Min({j \in DOMAIN k : k[j].type = k[i].type}) = i
  BY <1>1, <1>2, OnlyOneIsIt
<1>4. PICK e, same : e = k[i] /\ same = {j \in DOMAIN k : k[j].type = k[i].type}
  OBVIOUS
<1>5. same # {} /\ k[Min(same)] = e
  BY <1>2, <1>3, <1>4
<1>6. Len(e.rows) = Len(e.rows) /\ SameRows(e.rows, e.rows)
  BY RowsAreTheSame
<1>7. CASE e.type = "BIRTHDAY"
  BY <1>4, <1>5, <1>7 DEF MatchesEntry
<1>8. CASE e.type = "TIER_BASED"
  BY <1>4, <1>5, <1>8 DEF MatchesEntry
<1>9. CASE e.type \notin {"BIRTHDAY", "TIER_BASED"}
  BY <1>4, <1>5, <1>6, <1>9 DEF MatchesEntry
<1>10. QED
  BY <1>7, <1>8, <1>9

(* Rows of a simple coupon are found among themselves; of a variant that   *)
(* is sent both have to be arrays.                                         *)
LEMMA RowsEchoed ==
    ASSUME NEW k, k.type # "VEHICLE_SPECIFIC"
    PROVE  ValidSimple(k.rows, k.rows, k.type)
  BY DEF ValidSimple

LEMMA VehiclesEchoed ==
    ASSUME NEW rows
    PROVE  ValidSimple(rows, rows, "VEHICLE_SPECIFIC") <=>
             \A i \in DOMAIN rows : rows[i].variant.kind \in {"absent", "array"}
<1>1. ASSUME NEW i \in DOMAIN rows, rows[i].variant.kind \in {"absent", "array"}
      PROVE  \E j \in DOMAIN rows :
               /\ rows[i].type = rows[j].type
               /\ rows[j].operator # None =>
                     rows[i].operator = rows[j].operator /\ rows[i].value.n = rows[j].value.n
               /\ \A f \in Asks(rows[i]) \ {"type"} : rows[i][f] = rows[j][f]
               /\ rows[i].variant.kind # "absent" =>
                     rows[i].variant.kind = "array" /\ rows[i].variant = rows[j].variant
  BY <1>1
<1>2. QED
  BY <1>1 DEF ValidSimple

(* Whoever is let in by all of his rows is by the first, and a domain is   *)
(* never let in.                                                           *)
LEMMA UsersEchoed ==
    ASSUME NEW rows, IsSeq(rows), rows # <<>>, OneValueEach(rows), NEW c, CampaignUser(rows, c) = "yes"
    PROVE  UserSpecific(rows, c) = "yes"
<1>1. \A i \in DOMAIN rows :
        /\ rows[i].type \in {"EMAIL", "PHONE_NUMBER"}
        /\ (rows[i].operator = "==") <=> Own(c)[rows[i].type] \in rows[i].value.commas
  BY DEF CampaignUser, Answer
<1>2. 1 \in DOMAIN rows /\ rows[1].value.bars = rows[1].value.commas
  BY IsSeqIs DEF OneValueEach
<1>3. rows[1].type \in DOMAIN Own(c)
  BY <1>1, <1>2 DEF Own
<1>4. (rows[1].operator = "==") <=> Own(c)[rows[1].type] \in rows[1].value.bars
  BY <1>1, <1>2
<1>5. QED
  BY <1>2, <1>3, <1>4 DEF UserSpecific, Answer

LEMMA SimpleEchoed ==
    ASSUME NEW k, IsEntry(k), NEW c, NEW tier \in AnyTier, None \notin TierIds
    PROVE  LET echoed == AdmitSimple(k, k.rows, c, tier) = "yes"
               direct == CheckSimple(k, Nothing, c, tier) = "yes"
           IN  CASE k.type \in {"BIRTHDAY", "TIER_BASED"} -> echoed <=> direct
                 [] k.type = "USER_SPECIFIC" ->
                      echoed /\ k.rows # <<>> /\ OneValueEach(k.rows) => direct
                 [] k.type = "VEHICLE_SPECIFIC" ->
                      echoed <=> \A i \in DOMAIN k.rows : k.rows[i].variant.kind \in {"absent", "array"}
                 [] OTHER -> echoed
<1>1. CASE k.type = "BIRTHDAY"
  <2>1. AdmitSimple(k, k.rows, c, tier) = Birthday(c) /\ CheckSimple(k, Nothing, c, tier) = Birthday(c)
    BY <1>1 DEF AdmitSimple, CheckSimple
  <2>2. QED
    BY <1>1, <2>1
<1>2. CASE k.type = "TIER_BASED"
  <2>1. /\ AdmitSimple(k, k.rows, c, tier) = IF \E i \in DOMAIN k.rows : k.rows[i].tier = tier
                                              THEN "yes" ELSE "error"
        /\ CheckSimple(k, Nothing, c, tier) = TierBased(k.rows, tier)
    BY <1>2 DEF AdmitSimple, CheckSimple
  <2>2. AdmitSimple(k, k.rows, c, tier) = "yes" <=> \E i \in DOMAIN k.rows : k.rows[i].tier = tier
    BY <2>1
  <2>3. \A i \in DOMAIN k.rows : k.rows[i].tier # None
    BY <1>2 DEF IsEntry
  <2>4. TierBased(k.rows, tier) = "yes" <=> \E i \in DOMAIN k.rows : k.rows[i].tier = tier
    BY <2>3 DEF TierBased, Answer
  <2>5. QED
    BY <1>2, <2>1, <2>2, <2>4
<1>3. CASE k.type = "USER_SPECIFIC"
  <2>1. /\ AdmitSimple(k, k.rows, c, tier) = CampaignUser(k.rows, c)
        /\ CheckSimple(k, Nothing, c, tier) = UserSpecific(k.rows, c)
    BY <1>3 DEF AdmitSimple, CheckSimple
  <2>2. IsSeq(k.rows)
    BY DEF IsEntry
  <2>3. CampaignUser(k.rows, c) = "yes" /\ k.rows # <<>> /\ OneValueEach(k.rows)
          => UserSpecific(k.rows, c) = "yes"
    BY <2>2, UsersEchoed
  <2>4. QED
    BY <1>3, <2>1, <2>3
<1>4. CASE k.type = "VEHICLE_SPECIFIC"
  <2>1. AdmitSimple(k, k.rows, c, tier) = Answer(ValidSimple(k.rows, k.rows, "VEHICLE_SPECIFIC"))
    BY <1>4 DEF AdmitSimple
  <2>2. AdmitSimple(k, k.rows, c, tier) = "yes"
          <=> \A i \in DOMAIN k.rows : k.rows[i].variant.kind \in {"absent", "array"}
    BY <2>1, VehiclesEchoed DEF Answer
  <2>3. QED
    BY <1>4, <2>2
<1>5. CASE k.type \notin {"BIRTHDAY", "TIER_BASED", "USER_SPECIFIC", "VEHICLE_SPECIFIC"}
  <2>1. AdmitSimple(k, k.rows, c, tier) = Answer(ValidSimple(k.rows, k.rows, k.type))
    BY <1>5 DEF AdmitSimple
  <2>2. AdmitSimple(k, k.rows, c, tier) = "yes"
    BY <1>5, <2>1, RowsEchoed DEF Answer
  <2>3. QED
    BY <1>5, <2>2
<1>6. QED
  BY <1>1, <1>2, <1>3, <1>4, <1>5

(* Sending a coupon's own conditions with a campaign lets in whom          *)
(* EchoIsAccepted says: for a birthday or a tier whom a redemption would,  *)
(* for users nobody else, and otherwise everybody, but for variants that   *)
(* are no arrays.                                                          *)
THEOREM EchoPasses == EligibilitySpec => []EchoIsAccepted
<1>1. EchoIsAccepted
  <2>1. ASSUME NEW c \in Customers, NEW tier \in AnyTier, NEW x \in DOMAIN Simple
        PROVE  LET k      == Simple[x]
                   echoed == AdmitSimple(k, k.rows, c, tier) = "yes"
                   direct == CheckSimple(k, Nothing, c, tier) = "yes"
               IN  CASE k.type \in {"BIRTHDAY", "TIER_BASED"} -> echoed <=> direct
                     [] k.type = "USER_SPECIFIC" ->
                          echoed /\ k.rows # <<>> /\ OneValueEach(k.rows) => direct
                     [] k.type = "VEHICLE_SPECIFIC" ->
                          echoed <=> \A i \in DOMAIN k.rows : k.rows[i].variant.kind \in {"absent", "array"}
                     [] OTHER -> echoed
    <3>1. PICK k : k = Simple[x]
      OBVIOUS
    <3>2. IsEntry(k) /\ None \notin TierIds
      BY <3>1, EligibilityAssumption
    <3>3. QED
      BY <3>1, <3>2, SimpleEchoed
  <2>2. ASSUME NEW c \in Customers, NEW tier \in AnyTier, NEW x \in DOMAIN Complex, Distinct(Complex[x])
        PROVE  ValidComplex(Complex[x], Complex[x], c, tier) <=>
                 \A i \in DOMAIN Complex[x] :
                    /\ Complex[x][i].type = "BIRTHDAY" => People[c].birthday
                    /\ Complex[x][i].type = "TIER_BASED" =>
                          \E j \in DOMAIN Complex[x][i].rows : Complex[x][i].rows[j].tier = tier
    <3>1. PICK k : k = Complex[x]
      OBVIOUS
    <3>2. IsSeq(k) /\ Distinct(k) /\ People[c].birthday \in BOOLEAN
      BY <2>2, <3>1, EligibilityAssumption
    <3>3. \A i \in DOMAIN k :
            MatchesEntry(k[i], k, c, tier) <=>
               /\ k[i].type = "BIRTHDAY" => People[c].birthday
               /\ k[i].type = "TIER_BASED" => \E j \in DOMAIN k[i].rows : k[i].rows[j].tier = tier
      BY <3>2, EntryEchoed
    <3>4. ValidComplex(k, k, c, tier) <=> \A i \in DOMAIN k : MatchesEntry(k[i], k, c, tier)
      BY DEF ValidComplex
    <3>5. QED
      BY <3>1, <3>3, <3>4
  <2>3. QED
    BY <2>1, <2>2 DEF EchoIsAccepted
<1>2. QED
  BY <1>1, PTL

=============================================================================
