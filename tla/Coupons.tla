-------------------------------- MODULE Coupons --------------------------------
(***************************************************************************)
(* One coupon from its creation to its deletion: administrators give it to *)
(* customers (CouponsService.create, update, remove, importFromCsv and the *)
(* segments of CustomerSegmentService), purchases earn it (earnCoupon),    *)
(* and customers redeem it for points, directly or through a campaign      *)
(* (CouponsService.redeem, CustomerService.handleCampaignCoupons), or with *)
(* a burn (WalletService.addTransaction).                                  *)
(*                                                                         *)
(* A redemption checks five records and then writes five, each write a     *)
(* step of its own; nothing holds the coupon in between.  Its reads after  *)
(* the coupon's are one step.  An administrator's handler is one step (it  *)
(* runs in a database transaction).                                        *)
(*                                                                         *)
(* Not modelled: what the conditions of a coupon compare, the wallet that  *)
(* is credited (module PointsLifecycle), languages, logs, listings, and    *)
(* what shops report of their own coupons (syncCoupons).                   *)
(***************************************************************************)
EXTENDS Handlers, Integers, FiniteSets, Functions

CONSTANTS
    Users,              \* customers
    SegmentMembers,     \* the segment's members at first
    CampaignAudience,   \* customers the segments and tiers of the campaign admit
    CampaignSegmented,  \* the campaign has segments
    Terms,              \* what administrators choose from: [usageLimit, maxUsagePerUser,
                        \* reuseInterval], 0: none
    LastDay,            \* date_to
    Days,               \* bound: days
    MaxCredits,         \* bound: redemptions
    MaxDisturbances     \* bound: edits, and handlers that die

ASSUME CouponsAssumption ==
    /\ IsFiniteSet(Users) /\ IsFiniteSet(Requests)
    /\ CampaignAudience \cup SegmentMembers \subseteq Users
    /\ CampaignSegmented \in BOOLEAN
    /\ Terms \subseteq [usageLimit : Nat, maxUsagePerUser : Nat, reuseInterval : Nat]
    /\ {LastDay, Days, MaxCredits, MaxDisturbances} \subseteq Nat

VARIABLES
    coupon,     \* coupons
    linked,     \* coupon_customer_segments holds the segment
    inSegment,  \* customer_segment_members of the segment
    rows,       \* user_coupons of the coupon, per customer
    activities, \* customer_activities of the coupon, per customer
    today,
    credits,    \* history: EARN transactions of the coupon, per customer
    edits, failures,
    raced       \* history: something happened while a request was in flight

tables == <<coupon, linked, inSegment, rows, activities>>
couponsVars == <<tables, req, today, credits, edits, failures, raced>>

-----------------------------------------------------------------------------
Never == -1

(* ISSUED rows have no redeemed_at; of the USED ones the last counts.      *)
NoRows == [issued |-> 0, used |-> 0, last |-> Never]

(* redeem, redeem with a campaign_id, and handleCampaignCoupons            *)
Paths == {"direct", "campaign", "event"}

(* Mutant: the history is written before the points.                       *)
RecordFirst(pc) == CASE pc = "check"    -> "activity" [] pc = "activity" -> "credit"
                     [] pc = "credit"   -> "use"      [] pc = "use"      -> "count"

(* The order of the writes.                                                *)
After(pc) == CASE pc = "check"    -> "credit" [] pc = "credit" -> "activity"
               [] pc = "activity" -> "use"    [] pc = "use"    -> "count"

Advance(r) == req' = [req EXCEPT ![r].pc = After(@)]
Touch == raced' = (raced \/ Busy)

Total(f) == SumFunctionOnSet(f, Users)

-----------------------------------------------------------------------------
(* What a redemption checks.                                               *)

(* Mutant: one use too many.                                               *)
LimitExceeded(used, limit) == limit # 0 /\ used > limit
LimitReached(used, limit) == limit # 0 /\ used >= limit

Reusable(last, interval, day) ==
    last = Never \/ interval = 0 \/ day >= last + interval

(* couponValidations, copied in handleCampaignCoupons: a coupon past its   *)
(* date is refused only if it is also inactive.                            *)
Valid(copy, c) ==
    /\ copy.status # "inactive"
    /\ Reusable(rows[c].last, copy.terms.reuseInterval, today)
    /\ ~LimitReached(copy.used, copy.terms.usageLimit)

(* checkAlreadyRewaredCoupons                                              *)
FewUses(copy, c) == ~LimitReached(activities[c], copy.terms.maxUsagePerUser)

Assigned(c) == rows[c].issued + rows[c].used > 0

(* The segments of the coupon if it was named directly, of the campaign if *)
(* there is one; without segments, an assignment or a coupon for all.      *)
(* handleCampaignCoupons does not ask for an assignment.                   *)
Eligible(copy, c, path) ==
    CASE path = "direct"   -> IF linked THEN c \in inSegment
                                        ELSE copy.allUsers \/ Assigned(c)
      [] path = "campaign" -> /\ c \in CampaignAudience
                              /\ CampaignSegmented \/ copy.allUsers \/ Assigned(c)
      [] path = "event"    -> c \in CampaignAudience

(* validateCoupon answers it; redeem goes on.                              *)
Applicable(q) ==
    Eligible(q.copy, q.cust, q.path) /\ Valid(q.copy, q.cust) /\ FewUses(q.copy, q.cust)

-----------------------------------------------------------------------------
(* Redemption.                                                             *)

(* The coupon is found by its code, in whatever status.                    *)
Redeem(r, c) ==
    /\ At(r, "idle") /\ coupon.status # "absent"
    /\ Total(credits) + Cardinality({q \in Requests : req[q] # Idle}) < MaxCredits
    /\ \E path \in Paths :
          req' = [req EXCEPT ![r] = [pc |-> "check", cust |-> c, path |-> path,
                                     copy |-> coupon]]
    /\ Touch
    /\ UNCHANGED <<tables, today, credits, edits, failures>>

Refused(r) ==
    /\ At(r, "check") /\ ~Applicable(req[r])
    /\ Return(r)
    /\ UNCHANGED <<tables, today, credits, edits, failures, raced>>

Admitted(r) ==
    /\ At(r, "check") /\ Applicable(req[r])
    /\ req' = [req EXCEPT ![r] = [pc |-> After("check"), cust |-> req[r].cust,
                                  copy |-> req[r].copy]]
    /\ UNCHANGED <<tables, today, credits, edits, failures, raced>>

(* creditWallet                                                            *)
Credit(r) ==
    /\ At(r, "credit")
    /\ credits' = [credits EXCEPT ![req[r].cust] = @ + 1]
    /\ Advance(r)
    /\ UNCHANGED <<tables, today, edits, failures, raced>>

(* createCustomerActivity                                                  *)
Record(r) ==
    /\ At(r, "activity")
    /\ activities' = [activities EXCEPT ![req[r].cust] = @ + 1]
    /\ Advance(r)
    /\ UNCHANGED <<coupon, linked, inSegment, rows, today, credits, edits,
                   failures, raced>>

(* A new row: one that was ISSUED stays as it is.                          *)
Use(r) ==
    /\ At(r, "use")
    /\ rows' = [rows EXCEPT ![req[r].cust].used = @ + 1,
                            ![req[r].cust].last = today]
    /\ Advance(r)
    /\ UNCHANGED <<coupon, linked, inSegment, activities, today, credits,
                   edits, failures, raced>>

(* save writes every column that differs from the copy.                    *)
Counted(copy) == [copy EXCEPT !.used = @ + 1]

Count(r) ==
    /\ At(r, "count")
    /\ coupon' = Counted(req[r].copy)
    /\ Return(r)
    /\ UNCHANGED <<linked, inSegment, rows, activities, today, credits,
                   edits, failures, raced>>

(* A save throws or the process stops: what was written stays.             *)
Die(r) ==
    /\ ~At(r, "idle") /\ edits + failures < MaxDisturbances
    /\ failures' = failures + 1
    /\ Return(r)
    /\ UNCHANGED <<tables, today, credits, edits, raced>>

-----------------------------------------------------------------------------
(* Other uses.                                                             *)

(* earnCoupon looks for an ISSUED row, then inserts one; the filter on the *)
(* products is asynchronous, so every active coupon passes it.             *)
Earn(r, c) ==
    /\ At(r, "idle") /\ coupon.status = "active" /\ rows[c].issued = 0
    /\ req' = [req EXCEPT ![r] = [pc |-> "issue", cust |-> c]]
    /\ Touch
    /\ UNCHANGED <<tables, today, credits, edits, failures>>

Issue(r) ==
    /\ At(r, "issue")
    /\ rows' = [rows EXCEPT ![req[r].cust].issued = @ + 1]
    /\ Return(r)
    /\ UNCHANGED <<coupon, linked, inSegment, activities, today, credits,
                   edits, failures, raced>>

HasIssued(c) == rows[c].issued > 0

(* addTransaction with a coupon_code: the first ISSUED row with that code, *)
(* whoever it was issued to, is USED before the balance is looked at.      *)
UseWithBurn ==
    /\ edits + failures < MaxDisturbances /\ edits' = edits + 1
    /\ \E c \in Users :
         /\ HasIssued(c)
         /\ rows' = [rows EXCEPT ![c].issued = @ - 1, ![c].used = @ + 1,
                                 ![c].last = today]
    /\ Touch
    /\ UNCHANGED <<coupon, linked, inSegment, activities, req, today,
                   credits, failures>>

-----------------------------------------------------------------------------
(* Administrators.                                                         *)

IssueTo(set) == rows' = [c \in Users |->
                  IF c \in set THEN [rows[c] EXCEPT !.issued = @ + 1] ELSE rows[c]]

(* Every row of the customers goes, USED ones too.                         *)
RemoveRows(set) ==
    rows' = [c \in Users |-> IF c \in set THEN NoRows ELSE rows[c]]

(* status is 0, 1 or 2 in the code; a coupon is absent before create.      *)
New(all, terms) == [status |-> "active", used |-> 0, allUsers |-> all,
                    terms |-> terms]

(* create: for all, for the members of a segment, or for nobody; this also *)
(* if a segment is not found, for the coupon is saved outside of the       *)
(* transaction that is rolled back.                                        *)
(* importFromCsv gives each coupon of the file to one of them.             *)
Create ==
    /\ coupon.status = "absent"
    /\ \E terms \in Terms :
         \/ \E all \in BOOLEAN :
                coupon' = New(all, terms) /\ UNCHANGED <<linked, rows>>
         \/ /\ coupon' = New(FALSE, terms) /\ linked' = TRUE
            /\ \/ IssueTo(inSegment)
               \/ \E c \in inSegment : IssueTo({c})
    /\ Touch
    /\ UNCHANGED <<inSegment, activities, req, today, credits, edits, failures>>

Edit ==
    /\ edits + failures < MaxDisturbances /\ edits' = edits + 1
    /\ coupon.status # "absent"
    /\ Touch

(* update, of a coupon in whatever status, assigns what the form sends to  *)
(* the row, limits and interval too; the counter is not on the form.       *)
AssignRow ==
    /\ Edit
    /\ \E status \in {"inactive", "active"}, all \in BOOLEAN, terms \in Terms :
          coupon' = [coupon EXCEPT !.status = status, !.allUsers = all,
                                   !.terms = terms]

(* The form has the same segments, one more, or one less.                  *)
UpdateRow ==
    /\ AssignRow
    /\ UNCHANGED <<linked, inSegment, rows, activities, req, today, credits,
                   failures>>

LinkSegment ==
    /\ AssignRow /\ ~linked
    /\ linked' = TRUE /\ IssueTo(inSegment)
    /\ UNCHANGED <<inSegment, activities, req, today, credits, failures>>

UnlinkSegment ==
    /\ AssignRow /\ linked
    /\ linked' = FALSE /\ RemoveRows(inSegment)
    /\ UNCHANGED <<inSegment, activities, req, today, credits, failures>>

Remove ==
    /\ Edit
    /\ coupon' = [coupon EXCEPT !.status = "deleted"]
    /\ linked' = FALSE
    /\ RemoveRows(IF linked THEN inSegment ELSE {})
    /\ UNCHANGED <<inSegment, activities, req, today, credits, failures>>

(* addCustomerToSegment and removeCustomerFromSegment leave user_coupons.  *)
ChangeMembers ==
    /\ edits + failures < MaxDisturbances /\ edits' = edits + 1
    /\ \E c \in Users :
          inSegment' = IF c \in inSegment THEN inSegment \ {c} ELSE inSegment \cup {c}
    /\ Touch
    /\ UNCHANGED <<coupon, linked, rows, activities, req, today, credits,
                   failures>>

Midnight ==
    /\ today < Days /\ today' = today + 1
    /\ UNCHANGED <<tables, req, credits, edits, failures, raced>>

-----------------------------------------------------------------------------
CouponsInit ==
    /\ \E terms \in Terms : coupon = [New(FALSE, terms) EXCEPT !.status = "absent"]
    /\ linked = FALSE /\ inSegment = SegmentMembers
    /\ rows = [c \in Users |-> NoRows]
    /\ activities = [c \in Users |-> 0]
    /\ req = [r \in Requests |-> Idle]
    /\ today = 0
    /\ credits = [c \in Users |-> 0]
    /\ edits = 0 /\ failures = 0 /\ raced = FALSE

CouponsNext ==
    \/ \E r \in Requests :
         \/ \E c \in Users : Redeem(r, c) \/ Earn(r, c)
         \/ Refused(r) \/ Admitted(r) \/ Credit(r) \/ Record(r) \/ Use(r)
         \/ Count(r) \/ Issue(r) \/ Die(r)
    \/ UseWithBurn \/ Create \/ UpdateRow \/ LinkSegment \/ UnlinkSegment
    \/ Remove \/ ChangeMembers \/ Midnight

CouponsSpec == CouponsInit /\ [][CouponsNext]_couponsVars

-----------------------------------------------------------------------------
(* Properties.                                                             *)

OneByOne == ~raced /\ failures = 0

(* One request at a time keeps usage_limit and max_usage_per_user: no      *)
(* redemption credits a customer beyond the limits of that moment, however *)
(* often administrators changed them and the segments before.  (A limit    *)
(* lowered below the uses so far is exceeded already; it stops the next.)  *)
RoomFor(c) ==
    /\ coupon.terms.usageLimit # 0 => Total(credits') <= coupon.terms.usageLimit
    /\ coupon.terms.maxUsagePerUser # 0 => credits'[c] <= coupon.terms.maxUsagePerUser

LimitsKept ==
    [][OneByOne' => \A c \in Users : credits'[c] > credits[c] => RoomFor(c)]_couponsVars

(* No trace of a redemption without its points: an activity follows its    *)
(* credit, also if the request dies in between.                            *)
TraceFollowsCredit == \A c \in Users : activities[c] <= credits[c]

=============================================================================
