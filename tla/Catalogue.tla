------------------------------- MODULE Catalogue -------------------------------
(***************************************************************************)
(* What administrators offer the customers: a campaign with its rules,     *)
(* coupons, tiers and segments (CampaignsService), a rule with its tiers   *)
(* (RulesService), an offer with its segments and codes (OffersService),   *)
(* the segments themselves (CustomerSegmentService), and the customers     *)
(* who fetch a code of the offer.                                          *)
(*                                                                         *)
(* An update of a campaign or a rule reads and writes in one transaction   *)
(* that MySQL gives a snapshot of its first read: it begins in one step    *)
(* and commits in another, writes by the row what differs from the         *)
(* snapshot, and leaves alone what others wrote in between.  The other     *)
(* handlers read and write step by step.                                   *)
(*                                                                         *)
(* Not modelled: texts, dates, images, who may administer what (the        *)
(* access guards), and customers whose account is not active.              *)
(***************************************************************************)
EXTENDS Handlers, Integers, FiniteSets, Functions

CONSTANTS
    Customers,
    Segments,
    Members,        \* the customers of the segments that exist at first
    CampaignForms,  \* what administrators may ask of the campaign
    RuleForms,      \* of the rule: tiers, each with its rate or Omitted
    OfferForms,     \* of the offer
    MaxCalls        \* bound: calls

None == 0
Omitted == -1

(* A form names finitely many of anything.                                 *)
ASSUME CatalogueAssumption ==
    /\ IsFiniteSet(Segments) /\ IsFiniteSet(Customers)
    /\ DOMAIN Members \subseteq Segments
    /\ \A s \in DOMAIN Members : Members[s] \subseteq Customers
    /\ \A f \in CampaignForms :
         /\ f.segments \subseteq Segments
         /\ IsFiniteSet(DOMAIN f.tiers) /\ IsFiniteSet(f.rules) /\ IsFiniteSet(f.coupons)
    /\ \A f \in RuleForms :
         /\ IsFiniteSet(DOMAIN f.tiers)
         /\ \A t \in DOMAIN f.tiers : f.tiers[t] \in Nat \cup {Omitted}
    /\ \A f \in OfferForms : f.segments \subseteq Segments /\ f.codes \in Nat
    /\ None \notin Customers

VARIABLES
    campaign,   \* status of the campaign
    links,      \* its rows in campaign_rules, _coupons, _tiers and _customer_segments
    rule,       \* status of the rule
    rates,      \* rule_tiers
    offer,      \* offers
    offerLinks, \* offer_customer_segments, rows per segment
    issued,     \* user_offer, rows per customer
    codes,      \* offer_coupon_assignments
    segment,    \* status of the customer segments
    members,    \* customer_segment_members, rows per segment and customer
    next,       \* the next id of a link or rate
    calls,
    asked,      \* history: items and rates of the campaign's last form
    ratesAsked, \* history: the rate last asked for each tier of the rule
    told,       \* history: <<customer, code>> answered
    moved,      \* history: customers whose segments changed since the offer was created
    overlap     \* history: two requests were in flight at once

campaignVars == <<campaign, links, asked>>
ruleVars == <<rule, rates, ratesAsked>>
offerVars == <<offer, offerLinks, issued, codes, told>>
segmentVars == <<segment, members, moved>>
vars == <<campaignVars, ruleVars, offerVars, segmentVars, req, next, calls, overlap>>

-----------------------------------------------------------------------------

(* A call that takes more than one step.                                   *)
Begin(r, job) ==
    /\ At(r, "idle") /\ calls < MaxCalls
    /\ calls' = calls + 1
    /\ req' = [req EXCEPT ![r] = job]
    /\ overlap' = (overlap \/ Busy)

(* One that takes one.                                                     *)
Call ==
    /\ calls < MaxCalls /\ calls' = calls + 1
    /\ overlap' = (overlap \/ Busy)
    /\ UNCHANGED req

Found(set) == {s \in set : segment[s] # "absent"}

Row(item, rate, id) == [item |-> item, rate |-> rate, id |-> id]
Items(rows) == {l.item : l \in rows}

Unrated(items) == [i \in items |-> None]

(* Rows for a set of items at their rates, with the next ids.              *)
NewRows(items, rate) ==
    LET number == CHOOSE f \in [items -> next .. next + Cardinality(items) - 1] :
                     \A i, j \in items : i # j => f[i] # f[j]
    IN  {Row(i, rate[i], number[i]) : i \in items}

-----------------------------------------------------------------------------
(* Campaigns.                                                              *)

TierItems(form) == {<<"tier", t>> : t \in DOMAIN form.tiers}
SegmentItems(form) == {<<"segment", s>> : s \in Found(form.segments)}
RuleItems(form) == {<<"rule", x>> : x \in form.rules}
CouponItems(form) == {<<"coupon", x>> : x \in form.coupons}

(* create gives a campaign all of them, whatever its type.                 *)
AllItems(form) == TierItems(form) \cup SegmentItems(form)
                    \cup RuleItems(form) \cup CouponItems(form)

(* update leaves a campaign of coupons no rules, one of points no coupons. *)
Wanted(form) == TierItems(form) \cup SegmentItems(form)
                  \cup (IF form.type = "COUPONS" THEN {} ELSE RuleItems(form))
                  \cup (IF form.type = "POINTS" THEN {} ELSE CouponItems(form))

RateIn(form) == [i \in AllItems(form) |-> IF i[1] = "tier" THEN form.tiers[i[2]] ELSE None]
Remember(form, items) == asked' = [i \in items |-> RateIn(form)[i]]

CreateCampaign ==
    /\ campaign = "absent" /\ Call
    /\ \E form \in CampaignForms :
         /\ form.segments = Found(form.segments)
         /\ campaign' = "active"
         /\ links' = NewRows(AllItems(form), RateIn(form))
         /\ next' = next + Cardinality(AllItems(form))
         /\ Remember(form, AllItems(form))
    /\ UNCHANGED <<ruleVars, offerVars, segmentVars>>

UpdateCampaign(r) ==
    /\ campaign # "absent"
    /\ \E form \in CampaignForms :
          Begin(r, [pc |-> "campaign", form |-> form, status |-> campaign, rows |-> links])
    /\ UNCHANGED <<campaignVars, ruleVars, offerVars, segmentVars, next>>

(* Mutant: a campaign of coupons keeps its rules, one of points its        *)
(* coupons, as create leaves them.                                         *)
AllKept(rows, form) ==
    {l \in links : \A o \in rows : o.id = l.id => o.item \in AllItems(form)}

(* The rows of the snapshot that the form does not name are deleted.       *)
Kept(rows, form) == {l \in links : \A o \in rows : o.id = l.id => o.item \in Wanted(form)}

(* A rate that differs from the snapshot's is written.                     *)
Rerated(l, rows, form) ==
    IF \E o \in rows : o.id = l.id /\ o.rate # RateIn(form)[o.item]
      THEN [l EXCEPT !.rate = RateIn(form)[l.item]] ELSE l

(* Mutant: save writes the copy.                                           *)
Copied(q) == q.status

(* No column of the edit is the status.                                    *)
StatusAfter(q) == campaign

CommitCampaign(r) ==
    /\ At(r, "campaign")
    /\ LET form == req[r].form
           rows == req[r].rows
           new  == Wanted(form) \ Items(rows)
       IN  /\ campaign' = StatusAfter(req[r])
           /\ links' = {Rerated(l, rows, form) : l \in Kept(rows, form)}
                         \cup NewRows(new, RateIn(form))
           /\ next' = next + Cardinality(new)
           /\ Remember(form, Wanted(form))
    /\ Return(r)
    /\ UNCHANGED <<ruleVars, offerVars, segmentVars, calls, overlap>>

RemoveCampaign ==
    /\ campaign # "absent" /\ Call
    /\ campaign' = "removed"
    /\ UNCHANGED <<links, asked, ruleVars, offerVars, segmentVars, next>>

-----------------------------------------------------------------------------
(* Rules.                                                                  *)

OrOne(rate) == IF rate = Omitted THEN 1 ELSE rate
RatesOf(form) == [t \in DOMAIN form.tiers |-> OrOne(form.tiers[t])]

CreateRule ==
    /\ rule = "absent" /\ Call
    /\ \E form \in RuleForms :
         /\ rule' = "active"
         /\ rates' = NewRows(DOMAIN form.tiers, RatesOf(form))
         /\ next' = next + Cardinality(DOMAIN form.tiers)
         /\ ratesAsked' = RatesOf(form)
    /\ UNCHANGED <<campaignVars, offerVars, segmentVars>>

UpdateRule(r) ==
    /\ rule # "absent"
    /\ \E form \in RuleForms : Begin(r, [pc |-> "rule", form |-> form, rows |-> rates])
    /\ UNCHANGED <<campaignVars, ruleVars, offerVars, segmentVars, next>>

(* What an edit makes of the rate of a tier that the rule has.             *)
Edited(old, rate) == IF rate = Omitted THEN old ELSE rate

(* Tiers the form does not name stay.  A status in the form is taken.      *)
CommitRule(r) ==
    /\ At(r, "rule")
    /\ LET form == req[r].form
           rows == req[r].rows
           new  == DOMAIN form.tiers \ Items(rows)
           Saved(l) == \E o \in rows :
                         /\ o.id = l.id /\ o.item \in DOMAIN form.tiers
                         /\ o.rate # Edited(o.rate, form.tiers[o.item])
       IN  /\ \/ UNCHANGED rule
              \/ form.active /\ rule' = "active"
           /\ rates' = {IF Saved(l)
                          THEN [l EXCEPT !.rate = Edited(@, form.tiers[l.item])]
                          ELSE l : l \in rates}
                         \cup NewRows(new, RatesOf(form))
           /\ next' = next + Cardinality(new)
           /\ ratesAsked' = [t \in DOMAIN ratesAsked \cup DOMAIN form.tiers |->
                 IF t \notin DOMAIN ratesAsked THEN RatesOf(form)[t]
                 ELSE IF t \notin DOMAIN form.tiers \/ form.tiers[t] = Omitted
                        THEN ratesAsked[t] ELSE form.tiers[t]]
    /\ Return(r)
    /\ UNCHANGED <<campaignVars, offerVars, segmentVars, calls, overlap>>

RemoveRule ==
    /\ rule # "absent" /\ Call
    /\ rule' = "removed"
    /\ UNCHANGED <<campaignVars, rates, ratesAsked, offerVars, segmentVars, next>>

-----------------------------------------------------------------------------
(* Offers.                                                                 *)

NoOffer == [status |-> "absent", all |-> FALSE, source |-> "none"]

(* The row an edit makes of a copy.                                        *)
Applied(row, form) ==
    [status |-> IF form.active THEN "active" ELSE row.status,
     all    |-> form.all,
     source |-> form.source]

(* The columns that differ from the copy are written.                      *)
Merged(copy, row) == [f \in DOMAIN row |-> IF row[f] # copy[f] THEN row[f] ELSE offer[f]]

MembersOf(segs) == {m \in members : m.item[1] \in segs}
CustomersOf(segs) == {m.item[2] : m \in MembersOf(segs)}

(* A user_offer for every row of the segments' members.                    *)
Issues(segs) ==
    LET items == {<<m.item[2], m.id>> : m \in MembersOf(segs)}
    IN  NewRows(items, Unrated(items))

NewCodes(form) == {[customer |-> None, id |-> next + k] : k \in 0 .. form.codes - 1}

(* Links, issues and codes of a form, with ids from next on.               *)
Add(form, segs, keptLinks, keptIssues) ==
    LET issues == Issues(segs)
    IN  /\ offerLinks' = keptLinks \cup NewRows(segs, Unrated(segs))
        /\ issued' = keptIssues \cup {[l EXCEPT !.item = @[1]] : l \in issues}
        /\ codes' = codes \cup NewCodes(form)
        /\ next' = next + Cardinality(segs) + Cardinality(issues) + form.codes

(* The row is saved on another connection than the rest, and first.        *)
CreateOffer(r) ==
    /\ offer = NoOffer
    /\ \E form \in OfferForms :
         /\ Begin(r, [pc |-> "fill", form |-> form])
         /\ offer' = Applied([NoOffer EXCEPT !.status = "active"], form)
    /\ UNCHANGED <<campaignVars, ruleVars, segmentVars, offerLinks, issued, codes, told, next>>

Addressed(form) == IF form.all THEN {} ELSE form.segments

FillOffer(r) ==
    /\ At(r, "fill")
    /\ LET form == req[r].form
           segs == Addressed(form)
       IN  IF segs = Found(segs)
             THEN Add(form, segs, offerLinks, issued)
             ELSE UNCHANGED <<offerLinks, issued, codes, next>>
    /\ Return(r)
    /\ UNCHANGED <<campaignVars, ruleVars, segmentVars, offer, told, calls, overlap>>

(* An offer of a business shows to everybody and has no codes.             *)
CreateBusinessOffer ==
    /\ offer = NoOffer /\ Call
    /\ offer' = [status |-> "active", all |-> TRUE, source |-> "none"]
    /\ UNCHANGED <<campaignVars, ruleVars, segmentVars, offerLinks, issued, codes, told, next>>

(* The transaction's snapshot is taken when it reads the row.              *)
UpdateOffer(r) ==
    /\ offer # NoOffer
    /\ \E form \in OfferForms :
          Begin(r, [pc |-> "sync", form |-> form, copy |-> offer,
                    links |-> offerLinks, issued |-> issued])
    /\ UNCHANGED <<campaignVars, ruleVars, offerVars, segmentVars, next>>

(* Saving a row that differs waits for whoever has saved one, and the      *)
(* links are read after that, outside the transaction.                     *)
Writes(job) == Applied(job.copy, job.form) # job.copy

SyncOffer(r) ==
    /\ At(r, "sync")
    /\ Writes(req[r]) => ~\E o \in Requests : At(o, "commit") /\ Writes(req[o].job)
    /\ req' = [req EXCEPT ![r] = [pc |-> "commit", job |-> req[r], linked |-> Items(offerLinks)]]
    /\ UNCHANGED <<campaignVars, ruleVars, offerVars, segmentVars, next, calls, overlap>>

Dropped(form, linked) ==
    IF form.all /\ form.segments # {} THEN form.segments ELSE linked \ form.segments

(* Mutant: links go, what they issued stays.                               *)
NothingWithdrawn(job, segs) == {}

(* Everything issued to a customer of a dropped segment is withdrawn.      *)
Withdrawn(job, segs) == {i \in job.issued : i.item \in CustomersOf(segs)}

CommitOffer(r) ==
    /\ At(r, "commit")
    /\ LET job  == req[r].job
           form == job.form
           drop == Dropped(form, req[r].linked)
           add  == form.segments \ req[r].linked
       IN  IF add = Found(add)
             THEN /\ offer' = Merged(job.copy, Applied(job.copy, form))
                  /\ Add(form, add,
                         offerLinks \ {l \in job.links : l.item \in drop},
                         issued \ Withdrawn(job, drop))
             ELSE UNCHANGED <<offer, offerLinks, issued, codes, next>>
    /\ Return(r)
    /\ UNCHANGED <<campaignVars, ruleVars, segmentVars, told, calls, overlap>>

RemoveOffer ==
    /\ offer # NoOffer /\ Call
    /\ offer' = [offer EXCEPT !.status = "removed"]
    /\ UNCHANGED <<campaignVars, ruleVars, segmentVars, offerLinks, issued, codes, told, next>>

(* A customer opens the offer: the code he has already, the first code     *)
(* that is free, or one made for him.  The offer's status is not asked.    *)
CodesOf(c) == {k \in codes : k.customer = c}
Free == {k \in codes : k.customer = None}
Tell(c, k) == told' = told \cup {<<c, k.id>>}

OpenOffer(r) ==
    /\ offer.source # "none"
    /\ \E c \in Customers :
         \/ CodesOf(c) = {} /\ UNCHANGED told
            /\ Begin(r, [pc |-> "pick", customer |-> c, source |-> offer.source])
         \/ \E k \in CodesOf(c) : Tell(c, k) /\ Call
    /\ UNCHANGED <<campaignVars, ruleVars, segmentVars, offer, offerLinks, issued, codes, next>>

(* Mutant: a code is picked whoever has it.                                *)
PickAny(r) ==
    /\ At(r, "pick") /\ req[r].source = "uploaded"
    /\ \E k \in codes :
          req' = [req EXCEPT ![r] = [pc |-> "assign", customer |-> req[r].customer, code |-> k]]
    /\ UNCHANGED <<campaignVars, ruleVars, segmentVars, offerVars, next, calls, overlap>>

PickCode(r) ==
    /\ At(r, "pick") /\ req[r].source = "uploaded"
    /\ IF Free = {} THEN Return(r)
       ELSE \E k \in Free :
              /\ \A other \in Free : k.id <= other.id
              /\ req' = [req EXCEPT ![r] = [pc |-> "assign", customer |-> req[r].customer, code |-> k]]
    /\ UNCHANGED <<campaignVars, ruleVars, segmentVars, offerVars, next, calls, overlap>>

AssignCode(r) ==
    /\ At(r, "assign")
    /\ LET k == req[r].code
       IN  /\ codes' = {IF o.id = k.id THEN [o EXCEPT !.customer = req[r].customer] ELSE o : o \in codes}
           /\ Tell(req[r].customer, k)
    /\ Return(r)
    /\ UNCHANGED <<campaignVars, ruleVars, segmentVars, offer, offerLinks, issued, next, calls, overlap>>

GenerateCode(r) ==
    /\ At(r, "pick") /\ req[r].source = "auto-generated"
    /\ LET k == [customer |-> req[r].customer, id |-> next]
       IN  codes' = codes \cup {k} /\ Tell(req[r].customer, k)
    /\ next' = next + 1
    /\ Return(r)
    /\ UNCHANGED <<campaignVars, ruleVars, segmentVars, offer, offerLinks, issued, calls, overlap>>

-----------------------------------------------------------------------------
(* Customer segments.                                                      *)

MemberRows(s, c) == {m \in members : m.item = <<s, c>>}

(* The one who joins or leaves after the offer was made.                   *)
Move(c) == moved' = IF offer = NoOffer THEN moved ELSE moved \cup {c}

(* The row is committed, then the customers are added.                     *)
NewSegment(r, file) ==
    /\ \E s \in Segments, list \in SUBSET Customers :
         /\ segment[s] = "absent"
         /\ segment' = [segment EXCEPT ![s] = "active"]
         /\ Begin(r, [pc |-> "members", segment |-> s, todo |-> list, file |-> file])
    /\ UNCHANGED <<campaignVars, ruleVars, offerVars, members, moved, next>>

CreateSegment(r) == NewSegment(r, FALSE)

(* bulkUpload: the customers are the lines of a file.  (Who is new to the  *)
(* loyalty system gets an account: Upload of module Accounts.)             *)
UploadSegment(r) == NewSegment(r, TRUE)

(* A line of the file that fails is passed over.                           *)
LineFails(r) ==
    /\ At(r, "members") /\ req[r].file
    /\ \E c \in req[r].todo : req' = [req EXCEPT ![r].todo = @ \ {c}]
    /\ UNCHANGED <<campaignVars, ruleVars, offerVars, segmentVars, next, calls, overlap>>

(* An edit adds customers and removes none, and does not ask the status;   *)
(* so does the call that adds one customer.                                *)
UpdateSegment(r) ==
    /\ \E s \in Found(Segments), list \in SUBSET Customers \ {{}} :
          Begin(r, [pc |-> "members", segment |-> s, todo |-> list, file |-> FALSE])
    /\ UNCHANGED <<campaignVars, ruleVars, offerVars, segmentVars, next>>

AddMember(r) ==
    /\ At(r, "members")
    /\ \/ req[r].todo = {} /\ Return(r)
       \/ \E c \in req[r].todo :
            LET rest == [req[r] EXCEPT !.todo = @ \ {c}]
            IN  req' = [req EXCEPT ![r] =
                          IF MemberRows(rest.segment, c) # {} THEN rest
                          ELSE [pc |-> "insert", customer |-> c, job |-> rest]]
    /\ UNCHANGED <<campaignVars, ruleVars, offerVars, segmentVars, next, calls, overlap>>

InsertMember(r) ==
    /\ At(r, "insert")
    /\ LET c == req[r].customer
       IN  /\ members' = members \cup {Row(<<req[r].job.segment, c>>, None, next)}
           /\ Move(c)
    /\ next' = next + 1
    /\ req' = [req EXCEPT ![r] = req[r].job]
    /\ UNCHANGED <<campaignVars, ruleVars, offerVars, segment, calls, overlap>>

(* One row of the customer is found and removed.                           *)
RemoveMember ==
    /\ Call
    /\ \E m \in members : members' = members \ {m} /\ Move(m.item[2])
    /\ UNCHANGED <<campaignVars, ruleVars, offerVars, segment, next>>

RemoveSegment ==
    /\ Call
    /\ \E s \in Found(Segments) : segment' = [segment EXCEPT ![s] = "removed"]
    /\ UNCHANGED <<campaignVars, ruleVars, offerVars, members, moved, next>>

-----------------------------------------------------------------------------
FirstMembers == {p \in Segments \X Customers : p[1] \in DOMAIN Members /\ p[2] \in Members[p[1]]}

Init ==
    /\ campaign = "absent" /\ links = {} /\ asked = <<>>
    /\ rule = "absent" /\ rates = {} /\ ratesAsked = <<>>
    /\ offer = NoOffer /\ offerLinks = {} /\ issued = {} /\ codes = {} /\ told = {}
    /\ segment = [s \in Segments |-> IF s \in DOMAIN Members THEN "active" ELSE "absent"]
    /\ next = Cardinality(FirstMembers) + 1
    /\ members = LET number == CHOOSE f \in Bijection(FirstMembers, 1 .. next - 1) : TRUE
                 IN  {Row(i, None, number[i]) : i \in FirstMembers}
    /\ req = [r \in Requests |-> Idle]
    /\ calls = 0 /\ moved = {} /\ overlap = FALSE

Next ==
    \/ CreateCampaign \/ RemoveCampaign
    \/ CreateRule \/ RemoveRule
    \/ CreateBusinessOffer \/ RemoveOffer
    \/ RemoveMember \/ RemoveSegment
    \/ \E r \in Requests :
         \/ UpdateCampaign(r) \/ CommitCampaign(r)
         \/ UpdateRule(r) \/ CommitRule(r)
         \/ CreateOffer(r) \/ FillOffer(r)
         \/ UpdateOffer(r) \/ SyncOffer(r) \/ CommitOffer(r)
         \/ OpenOffer(r) \/ PickCode(r) \/ AssignCode(r) \/ GenerateCode(r)
         \/ CreateSegment(r) \/ UploadSegment(r) \/ LineFails(r) \/ UpdateSegment(r)
         \/ AddMember(r) \/ InsertMember(r)

Spec == Init /\ [][Next]_vars

-----------------------------------------------------------------------------
Calm == ~overlap /\ ~Busy

(* Whatever sequence of edits they go through, a campaign is linked to     *)
(* what its last form named, at the form's rates; a rule has for a tier    *)
(* the last rate a form gave it, through the forms that leave the tier or  *)
(* its rate out; and no row is there twice.                                *)
AsAsked ==
    Calm => /\ {<<l.item, l.rate>> : l \in links} = {<<i, asked[i]>> : i \in DOMAIN asked}
            /\ Cardinality(links) = Cardinality(DOMAIN asked)
            /\ {<<l.item, l.rate>> : l \in rates} = {<<t, ratesAsked[t]>> : t \in DOMAIN ratesAsked}
            /\ Cardinality(rates) = Cardinality(DOMAIN ratesAsked)

(* "Each coupon can only be assigned to one customer", and a customer who  *)
(* opens the offer again is told the same one, unless calls overlap.       *)
OneCodeEach ==
    ~overlap => \A a, b \in told : a[1] = b[1] <=> a[2] = b[2]

(* The same comment without the proviso: a code is told to one customer,   *)
(* also when two open the offer at once.                                   *)
CodeToldToOne == \A a, b \in told : a[2] = b[2] => a[1] = b[1]

(* An edit that began before a removal does not bring back what was        *)
(* removed: a campaign never returns, an offer only by a form that says so.*)
RemovedStaysRemoved ==
    [][/\ campaign = "removed" => campaign' = "removed"
       /\ offer.status = "removed" =>
             \/ offer'.status = "removed"
             \/ \E r \in Requests : At(r, "commit") /\ req[r].job.form.active]_vars

(* A customer of exactly one segment has been issued the offer as often as *)
(* the segment is linked to it, also when edits of the offer overlap.      *)
IssuedWhereLinked ==
    \A c \in Customers \ moved, s \in Segments :
        {m \in members : m.item[2] = c} = MemberRows(s, c) /\ Cardinality(MemberRows(s, c)) = 1
          => Cardinality({i \in issued : i.item = c}) = Cardinality({l \in offerLinks : l.item = s})
=============================================================================
