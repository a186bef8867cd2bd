---------------------------- MODULE CatalogueProofs ----------------------------
(***************************************************************************)
(* What holds of campaigns, rules, offers, their segments and codes, and   *)
(* of a coupon's uses, for any customers, forms, requests and bounds.      *)
(*                                                                         *)
(* An edit compares its form with a snapshot, and inserts and deletes the  *)
(* difference.  Edits that do not overlap find the snapshot true, so that  *)
(* the tables become what the forms said.  Of an offer more is true: an    *)
(* edit inserts links and issues together and deletes them together, and   *)
(* what its snapshot pairs is paired, whoever edits meanwhile.             *)
(*                                                                         *)
(* Of a coupon, an activity follows its credit because a request that will *)
(* still write one is counted with those that are written.  The limits     *)
(* hold of one request at a time because its copy is then the coupon, and  *)
(* because of what the coupon's counter and the credits differ by while it *)
(* writes.                                                                 *)
(***************************************************************************)
EXTENDS Catalogue, Coupons, Sequences, SharedLemmas

-----------------------------------------------------------------------------
(* Finite sets.                                                            *)

LEMMA ImageIsFinite ==
    ASSUME NEW S, IsFiniteSet(S), NEW T, NEW f \in [S -> T], \A t \in T : \E x \in S : f[x] = t
    PROVE  IsFiniteSet(T)
<1>1. f \in Surjection(S, T)
  BY DEF Surjection
<1>2. QED
  BY <1>1, FS_Surjection

LEMMA SameSize ==
    ASSUME NEW S, IsFiniteSet(S), NEW T, NEW f \in [S -> T],
           \A x, y \in S : f[x] = f[y] => x = y, \A t \in T : \E x \in S : f[x] = t
    PROVE  IsFiniteSet(T) /\ Cardinality(T) = Cardinality(S)
<1>1. f \in Bijection(S, T)
  BY DEF Bijection, Injection, Surjection, IsInjective
<1>2. ExistsBijection(S, T)
  BY <1>1 DEF ExistsBijection
<1>3. QED
  BY <1>2, FS_Bijection

-----------------------------------------------------------------------------
(* New rows: one for each item, with ids of their own from next on.        *)

LEMMA NumberingExists ==
    ASSUME next \in Nat, NEW items, IsFiniteSet(items)
    PROVE  /\ Cardinality(items) \in Nat
           /\ \E f \in [items -> next .. next + Cardinality(items) - 1] :
                \A i, j \in items : i # j => f[i] # f[j]
<1>1. PICK n : n = Cardinality(items)
  OBVIOUS
<1>2. n \in Nat /\ ExistsBijection(1 .. n, items)
  BY <1>1, FS_CardinalityType
<1>3. PICK g : g \in [1 .. n -> items] /\ \A i \in items : \E k \in 1 .. n : g[k] = i
  BY <1>2 DEF ExistsBijection, Bijection, Surjection
<1> DEFINE place(i) == CHOOSE k \in 1 .. n : g[k] = i
           f == [i \in items |-> next - 1 + place(i)]
<1>4. \A i \in items : place(i) \in 1 .. n /\ g[place(i)] = i
  BY <1>3
<1> HIDE DEF place
<1>5. f \in [items -> next .. next + n - 1]
  BY <1>2, <1>4
<1>6. \A i, j \in items : i # j => f[i] # f[j]
  <2>1. ASSUME NEW i \in items, NEW j \in items, f[i] = f[j] PROVE i = j
    <3>1. place(i) = place(j)
      BY <1>2, <1>4, <2>1
    <3>2. QED
      BY <1>4, <3>1
  <2>2. QED
    BY <2>1
<1>7. QED
  BY <1>1, <1>2, <1>5, <1>6

LEMMA NewRowsAre ==
    ASSUME next \in Nat, NEW items, IsFiniteSet(items), NEW rate
    PROVE  /\ IsFiniteSet(NewRows(items, rate)) /\ Cardinality(items) \in Nat
           /\ \A l \in NewRows(items, rate) :
                /\ l = Row(l.item, l.rate, l.id) /\ l.item \in items /\ l.rate = rate[l.item]
                /\ l.id \in Nat /\ next <= l.id /\ l.id < next + Cardinality(items)
           /\ \A i \in items : \E l \in NewRows(items, rate) : l.item = i
           /\ \A l, m \in NewRows(items, rate) : l.item = m.item \/ l.id = m.id => l = m
<1>1. PICK n : n = Cardinality(items)
  OBVIOUS
<1>2. PICK number : number = CHOOSE f \in [items -> next .. next + Cardinality(items) - 1] :
                               \A i, j \in items : i # j => f[i] # f[j]
  OBVIOUS
<1>3. /\ number \in [items -> next .. next + Cardinality(items) - 1]
      /\ \A i, j \in items : i # j => number[i] # number[j]
  BY <1>2, NumberingExists
<1>4. n \in Nat
  BY <1>1, NumberingExists
<1>5. PICK table : table = NewRows(items, rate)
  OBVIOUS
<1>6. table = {Row(i, rate[i], number[i]) : i \in items}
  BY <1>2, <1>5 DEF NewRows
<1>7. \A i \in items : number[i] \in Nat /\ next <= number[i] /\ number[i] < next + n
  BY <1>1, <1>3, <1>4
<1>8. \A l \in table : \E i \in items :
        /\ l = Row(i, rate[i], number[i]) /\ l.item = i /\ l.rate = rate[i] /\ l.id = number[i]
  BY <1>6 DEF Row
<1>9. IsFiniteSet(table)
  <2>1. PICK f : f = [i \in items |-> Row(i, rate[i], number[i])]
    OBVIOUS
  <2>2. f \in [items -> table] /\ \A l \in table : \E i \in items : f[i] = l
    BY <1>6, <2>1
  <2>3. QED
    BY <2>2, ImageIsFinite
<1>10. \A i \in items : \E l \in table : l.item = i
  <2>1. TAKE i \in items
  <2>2. Row(i, rate[i], number[i]) \in table /\ Row(i, rate[i], number[i]).item = i
    BY <1>6 DEF Row
  <2>3. QED
    BY <2>2
<1>11. \A l, m \in table : l.item = m.item \/ l.id = m.id => l = m
  BY <1>3, <1>8
<1>12. \A l \in table : /\ l = Row(l.item, l.rate, l.id) /\ l.item \in items /\ l.rate = rate[l.item]
                        /\ l.id \in Nat /\ next <= l.id /\ l.id < next + n
  BY <1>7, <1>8
<1>13. QED
  BY <1>1, <1>4, <1>5, <1>9, <1>10, <1>11, <1>12

LEMMA CampaignItems ==
    ASSUME NEW form \in CampaignForms
    PROVE  /\ IsFiniteSet(AllItems(form)) /\ IsFiniteSet(Wanted(form))
           /\ Wanted(form) \subseteq AllItems(form)
<1>1. /\ IsFiniteSet(Segments) /\ form.segments \subseteq Segments
      /\ IsFiniteSet(DOMAIN form.tiers) /\ IsFiniteSet(form.rules) /\ IsFiniteSet(form.coupons)
  BY CatalogueAssumption
<1>2. Found(form.segments) \subseteq Segments
  BY <1>1 DEF Found
<1>3. IsFiniteSet(Found(form.segments))
  BY <1>1, <1>2, FS_Subset
<1>4. ASSUME NEW kind, NEW S, IsFiniteSet(S) PROVE IsFiniteSet({<<kind, x>> : x \in S})
  <2>1. PICK f, T : f = [x \in S |-> <<kind, x>>] /\ T = {<<kind, x>> : x \in S}
    OBVIOUS
  <2>2. f \in [S -> T] /\ \A t \in T : \E x \in S : f[x] = t
    BY <2>1
  <2>3. IsFiniteSet(T)
    BY <1>4, <2>2, ImageIsFinite
  <2>4. QED
    BY <2>1, <2>3
<1>5. /\ IsFiniteSet(TierItems(form)) /\ IsFiniteSet(SegmentItems(form))
      /\ IsFiniteSet(RuleItems(form)) /\ IsFiniteSet(CouponItems(form))
  BY <1>1, <1>3, <1>4 DEF TierItems, SegmentItems, RuleItems, CouponItems
<1>6. IsFiniteSet(TierItems(form) \cup SegmentItems(form))
  BY <1>5, FS_Union
<1>7. IsFiniteSet(TierItems(form) \cup SegmentItems(form) \cup RuleItems(form))
  BY <1>5, <1>6, FS_Union
<1>8. IsFiniteSet(AllItems(form))
  BY <1>5, <1>7, FS_Union DEF AllItems
<1>9. Wanted(form) \subseteq AllItems(form)
  BY DEF Wanted, AllItems
<1>10. QED
  BY <1>8, <1>9, FS_Subset

-----------------------------------------------------------------------------
(* Every request holds a form that may be sent, members are finitely many, *)
(* and ids only grow.  As long as calls did not overlap one request at     *)
(* most is in flight.                                                      *)

FormIn(q) ==
    /\ q.pc = "campaign" => q.form \in CampaignForms
    /\ q.pc = "rule" => q.form \in RuleForms
    /\ q.pc \in {"fill", "sync"} => q.form \in OfferForms
    /\ q.pc = "commit" => q.job.form \in OfferForms
    /\ q.pc = "insert" => q.job.pc = "members"

BaseInv ==
    /\ next \in Nat /\ IsFiniteSet(members)
    /\ DOMAIN req = Requests /\ \A r \in Requests : FormIn(req[r])

Solo == ~overlap => \A r, s \in Requests : req[r].pc # "idle" /\ req[s].pc # "idle" => r = s

Grows == next' \in Nat /\ next <= next'

LEMMA FormsStay ==
    ASSUME BaseInv, Grows, IsFiniteSet(members'),
           UNCHANGED req \/ \E r \in Requests : DOMAIN req' = Requests /\ FormIn(req'[r])
                              /\ \A s \in Requests \ {r} : req'[s] = req[s]
    PROVE  BaseInv' /\ Grows
  BY DEF BaseInv, Grows, FormIn

(* What Add adds to an offer: links, and issues of theirs.                 *)
LinksAdded(new, segs) ==
    /\ IsFiniteSet(new)
    /\ \A l \in new : l.item \in segs /\ l.id \in Nat /\ next <= l.id /\ l.id < next'
    /\ \A s \in segs : \E l \in new : l.item = s
    /\ \A l, m \in new : l.item = m.item => l = m

IssuesAdded(new, segs) ==
    /\ \A l \in new : l.id \in Nat /\ next <= l.id /\ l.id < next'
    /\ \A l \in new : \E m \in MembersOf(segs) : l.item = m.item[2]
    /\ \A m \in MembersOf(segs) : \E l \in new : l.item = m.item[2]
    /\ \A l, k \in new :
         (\A m, n \in MembersOf(segs) : m.item[2] = l.item /\ n.item[2] = k.item => m = n) => l = k

LEMMA AddGrows ==
    ASSUME next \in Nat, IsFiniteSet(members), NEW form \in OfferForms, NEW segs \in SUBSET Segments,
           NEW keptLinks, NEW keptIssues, Add(form, segs, keptLinks, keptIssues)
    PROVE  /\ Grows
           /\ \E new : offerLinks' = keptLinks \cup new /\ LinksAdded(new, segs)
           /\ \E new : issued' = keptIssues \cup new /\ IssuesAdded(new, segs)
           /\ codes' = codes \cup NewCodes(form)
           /\ \A k \in NewCodes(form) :
                /\ k = [customer |-> None, id |-> k.id]
                /\ k.id \in Nat /\ next <= k.id /\ k.id < next'
<1>1. IsFiniteSet(segs)
  BY CatalogueAssumption, FS_Subset
<1>2. PICK items : items = {<<m.item[2], m.id>> : m \in MembersOf(segs)}
  OBVIOUS
<1>3. IsFiniteSet(items)
  <2>1. MembersOf(segs) \subseteq members
    BY DEF MembersOf
  <2>2. PICK M : M = MembersOf(segs)
    OBVIOUS
  <2>3. IsFiniteSet(M)
    BY <2>1, <2>2, FS_Subset
  <2>4. PICK f : f = [m \in M |-> <<m.item[2], m.id>>]
    OBVIOUS
  <2>5. f \in [M -> items] /\ \A t \in items : \E x \in M : f[x] = t
    BY <1>2, <2>2, <2>4
  <2>6. QED
    BY <2>3, <2>5, ImageIsFinite
<1>4. PICK issues : issues = NewRows(items, Unrated(items)) /\ issues = Issues(segs)
  BY <1>2 DEF Issues
<1>5. PICK made : made = NewRows(segs, Unrated(segs))
  OBVIOUS
<1>6. /\ offerLinks' = keptLinks \cup made
      /\ issued' = keptIssues \cup {[l EXCEPT !.item = @[1]] : l \in issues}
      /\ codes' = codes \cup NewCodes(form)
      /\ next' = next + Cardinality(segs) + Cardinality(issues) + form.codes
  BY <1>4, <1>5 DEF Add
<1>7. /\ IsFiniteSet(made) /\ Cardinality(segs) \in Nat
      /\ \A l \in made : l.item \in segs /\ l.id \in Nat /\ next <= l.id /\ l.id < next + Cardinality(segs)
      /\ \A s \in segs : \E l \in made : l.item = s
      /\ \A l, m \in made : l.item = m.item => l = m
  <2>1. PICK rate : made = NewRows(segs, rate)
    BY <1>5
  <2>2. /\ IsFiniteSet(NewRows(segs, rate)) /\ Cardinality(segs) \in Nat
        /\ \A l \in NewRows(segs, rate) :
             /\ l = Row(l.item, l.rate, l.id) /\ l.item \in segs /\ l.rate = rate[l.item]
             /\ l.id \in Nat /\ next <= l.id /\ l.id < next + Cardinality(segs)
        /\ \A i \in segs : \E l \in NewRows(segs, rate) : l.item = i
        /\ \A l, m \in NewRows(segs, rate) : l.item = m.item \/ l.id = m.id => l = m
    BY <1>1, NewRowsAre
  <2>3. QED
    BY <2>1, <2>2
<1>8. /\ IsFiniteSet(issues) /\ Cardinality(items) \in Nat
      /\ \A l \in issues : /\ l = Row(l.item, l.rate, l.id) /\ l.item \in items
                           /\ l.id \in Nat /\ next <= l.id /\ l.id < next + Cardinality(items)
      /\ \A i \in items : \E l \in issues : l.item = i
      /\ \A l, m \in issues : l.item = m.item => l = m
  <2>1. PICK rate : issues = NewRows(items, rate)
    BY <1>4
  <2>2. /\ IsFiniteSet(NewRows(items, rate)) /\ Cardinality(items) \in Nat
        /\ \A l \in NewRows(items, rate) :
             /\ l = Row(l.item, l.rate, l.id) /\ l.item \in items /\ l.rate = rate[l.item]
             /\ l.id \in Nat /\ next <= l.id /\ l.id < next + Cardinality(items)
        /\ \A i \in items : \E l \in NewRows(items, rate) : l.item = i
        /\ \A l, m \in NewRows(items, rate) : l.item = m.item \/ l.id = m.id => l = m
    BY <1>3, NewRowsAre
  <2>3. QED
    BY <2>1, <2>2
<1>9. Cardinality(issues) = Cardinality(items)
  <2>1. PICK f : f = [l \in issues |-> l.item]
    OBVIOUS
  <2>2. /\ f \in [issues -> items] /\ \A t \in items : \E x \in issues : f[x] = t
        /\ \A x, y \in issues : f[x] = f[y] => x = y
    BY <1>8, <2>1
  <2>3. QED
    BY <1>8, <2>2, SameSize
<1>10. form.codes \in Nat
  BY CatalogueAssumption
<1>11. /\ Grows /\ next + Cardinality(segs) <= next' /\ next + Cardinality(items) <= next'
       /\ next + form.codes <= next'
  BY <1>6, <1>7, <1>8, <1>9, <1>10 DEF Grows
<1>12. /\ IsFiniteSet(made)
       /\ \A l \in made : l.item \in segs /\ l.id \in Nat /\ next <= l.id /\ l.id < next'
       /\ \A s \in segs : \E l \in made : l.item = s
       /\ \A l, m \in made : l.item = m.item => l = m
  BY <1>7, <1>11 DEF Grows
<1>13. PICK new : new = {[l EXCEPT !.item = @[1]] : l \in issues}
  OBVIOUS
<1>14. \A k \in new : \E l \in issues : k = Row(l.item[1], l.rate, l.id)
  <2>1. \A l \in issues : [l EXCEPT !.item = @[1]] = Row(l.item[1], l.rate, l.id)
    BY <1>8 DEF Row
  <2>2. QED
    BY <1>13, <2>1
<1>15. \A l \in issues : \E k \in new : k = Row(l.item[1], l.rate, l.id)
  <2>1. \A l \in issues : [l EXCEPT !.item = @[1]] = Row(l.item[1], l.rate, l.id)
    BY <1>8 DEF Row
  <2>2. QED
    BY <1>13, <2>1
<1>16. \A k \in new : k.id \in Nat /\ next <= k.id /\ k.id < next'
  BY <1>8, <1>11, <1>14 DEF Row, Grows
<1>17. \A k \in new : \E m \in MembersOf(segs) : k.item = m.item[2]
  BY <1>2, <1>8, <1>14 DEF Row
<1>18. \A m \in MembersOf(segs) : \E k \in new : k.item = m.item[2]
  <2>1. TAKE m \in MembersOf(segs)
  <2>2. PICK l \in issues : l.item = <<m.item[2], m.id>>
    BY <1>2, <1>8
  <2>3. PICK k \in new : k = Row(l.item[1], l.rate, l.id)
    BY <1>15
  <2>4. k.item = m.item[2]
    BY <2>2, <2>3 DEF Row
  <2>5. QED
    BY <2>4
<1>19. ASSUME NEW k \in new, NEW j \in new,
              \A m, n \in MembersOf(segs) : m.item[2] = k.item /\ n.item[2] = j.item => m = n
       PROVE  k = j
  <2>1. PICK l \in issues, i \in issues : k = Row(l.item[1], l.rate, l.id) /\ j = Row(i.item[1], i.rate, i.id)
    BY <1>14
  <2>2. PICK m \in MembersOf(segs), n \in MembersOf(segs) :
          l.item = <<m.item[2], m.id>> /\ i.item = <<n.item[2], n.id>>
    BY <1>2, <1>8
  <2>3. k.item = m.item[2] /\ j.item = n.item[2]
    BY <2>1, <2>2 DEF Row
  <2>4. l.item = i.item
    BY <1>19, <2>2, <2>3
  <2>5. QED
    BY <1>8, <2>1, <2>4
<1>20. \A k \in NewCodes(form) : /\ k = [customer |-> None, id |-> k.id]
                                 /\ k.id \in Nat /\ next <= k.id /\ k.id < next'
  BY <1>10, <1>11 DEF NewCodes, Grows
<1>21. LinksAdded(made, segs)
  BY <1>12 DEF LinksAdded
<1>22. IssuesAdded(new, segs)
  BY <1>16, <1>17, <1>18, <1>19 DEF IssuesAdded
<1>23. offerLinks' = keptLinks \cup made /\ issued' = keptIssues \cup new
  BY <1>6, <1>13
<1>24. QED
  BY <1>6, <1>11, <1>20, <1>21, <1>22, <1>23



LEMMA IdleForm == FormIn(Idle)
  BY DEF FormIn, Idle

(* Calls of one step, and the first steps of the others.                   *)
LEMMA CallsKeepForms ==
    ASSUME BaseInv,
           \/ CreateCampaign \/ RemoveCampaign \/ CreateRule \/ RemoveRule
           \/ CreateBusinessOffer \/ RemoveOffer \/ RemoveMember \/ RemoveSegment \/ UNCHANGED vars
    PROVE  BaseInv' /\ Grows
<1>1. UNCHANGED req /\ next \in Nat /\ IsFiniteSet(members)
  BY DEF CreateCampaign, RemoveCampaign, CreateRule, RemoveRule, CreateBusinessOffer,
     RemoveOffer,
         RemoveMember, RemoveSegment, Call, vars, BaseInv
<1>2. Grows
  <2>1. CASE CreateCampaign
    <3>1. PICK form \in CampaignForms : next' = next + Cardinality(AllItems(form))
      BY <2>1 DEF CreateCampaign
    <3>2. Cardinality(AllItems(form)) \in Nat
      BY CampaignItems, FS_CardinalityType
    <3>3. QED
      BY <1>1, <3>1, <3>2 DEF Grows
  <2>2. CASE CreateRule
    <3>1. PICK form \in RuleForms : next' = next + Cardinality(DOMAIN form.tiers)
      BY <2>2 DEF CreateRule
    <3>2. Cardinality(DOMAIN form.tiers) \in Nat
      BY CatalogueAssumption, FS_CardinalityType
    <3>3. QED
      BY <1>1, <3>1, <3>2 DEF Grows
  <2>3. CASE ~CreateCampaign /\ ~CreateRule
    <3>1. next' = next
      BY <2>3 DEF RemoveCampaign, RemoveRule, CreateBusinessOffer, RemoveOffer,
                  RemoveMember, RemoveSegment, vars
    <3>2. QED
      BY <1>1, <3>1 DEF Grows
  <2>4. QED
    BY <2>1, <2>2, <2>3
<1>3. IsFiniteSet(members')
  <2>1. members' \subseteq members
    BY DEF CreateCampaign, RemoveCampaign, CreateRule, RemoveRule, CreateBusinessOffer,
       RemoveOffer,
           RemoveMember, RemoveSegment, Call, vars, segmentVars
  <2>2. QED
    BY <1>1, <2>1, FS_Subset
<1>4. QED
  BY <1>1, <1>2, <1>3, FormsStay

LEMMA BeginsKeepForms ==
    ASSUME BaseInv, NEW r \in Requests,
           \/ UpdateCampaign(r) \/ UpdateRule(r) \/ CreateOffer(r) \/ UpdateOffer(r)
           \/ CreateSegment(r) \/ UploadSegment(r) \/ UpdateSegment(r)
    PROVE  BaseInv' /\ Grows
<1>1. next' = next /\ next \in Nat /\ members' = members /\ IsFiniteSet(members)
  BY DEF UpdateCampaign, UpdateRule, CreateOffer, UpdateOffer, CreateSegment, UploadSegment,
         NewSegment, UpdateSegment, segmentVars, BaseInv
<1>2. Grows /\ IsFiniteSet(members')
  BY <1>1 DEF Grows
<1>3. DOMAIN req = Requests
  BY DEF BaseInv
<1>4. ASSUME NEW g, FormIn(g), Begin(r, g) PROVE BaseInv' /\ Grows
  <2>1. DOMAIN req' = Requests /\ req'[r] = g /\ \A s \in Requests \ {r} : req'[s] = req[s]
    BY <1>3, <1>4 DEF Begin
  <2>2. FormIn(req'[r])
    BY <1>4, <2>1
  <2>3. QED
    BY <1>2, <2>1, <2>2, FormsStay
<1>5. CASE UpdateCampaign(r)
  <2>1. PICK form \in CampaignForms :
          Begin(r, [pc |-> "campaign", form |-> form, status |-> campaign, rows |-> links])
    BY <1>5 DEF UpdateCampaign
  <2>2. FormIn([pc |-> "campaign", form |-> form, status |-> campaign, rows |-> links])
    BY DEF FormIn
  <2>3. QED
    BY <1>4, <2>1, <2>2
<1>6. CASE UpdateRule(r)
  <2>1. PICK form \in RuleForms : Begin(r, [pc |-> "rule", form |-> form, rows |-> rates])
    BY <1>6 DEF UpdateRule
  <2>2. FormIn([pc |-> "rule", form |-> form, rows |-> rates])
    BY DEF FormIn
  <2>3. QED
    BY <1>4, <2>1, <2>2
<1>7. CASE CreateOffer(r)
  <2>1. PICK form \in OfferForms : Begin(r, [pc |-> "fill", form |-> form])
    BY <1>7 DEF CreateOffer
  <2>2. FormIn([pc |-> "fill", form |-> form])
    BY DEF FormIn
  <2>3. QED
    BY <1>4, <2>1, <2>2
<1>8. CASE UpdateOffer(r)
  <2>1. PICK form \in OfferForms :
          Begin(r, [pc |-> "sync", form |-> form, copy |-> offer, links |-> offerLinks, issued |-> issued])
    BY <1>8 DEF UpdateOffer
  <2>2. FormIn([pc |-> "sync", form |-> form, copy |-> offer, links |-> offerLinks, issued |-> issued])
    BY DEF FormIn
  <2>3. QED
    BY <1>4, <2>1, <2>2
<1>9. CASE CreateSegment(r) \/ UploadSegment(r) \/ UpdateSegment(r)
  <2>1. PICK s, list, file : Begin(r, [pc |-> "members", segment |-> s, todo |-> list, file |-> file])
    BY <1>9 DEF CreateSegment, UploadSegment, NewSegment, UpdateSegment
  <2>2. FormIn([pc |-> "members", segment |-> s, todo |-> list, file |-> file])
    BY DEF FormIn
  <2>3. QED
    BY <1>4, <2>1, <2>2
<1>10. QED
  BY <1>5, <1>6, <1>7, <1>8, <1>9

(* Steps of a request in flight.                                           *)
LEMMA StepsKeepForms ==
    ASSUME BaseInv, NEW r \in Requests,
           \/ CommitCampaign(r) \/ CommitRule(r) \/ FillOffer(r) \/ SyncOffer(r) \/ CommitOffer(r)
           \/ PickCode(r) \/ AssignCode(r) \/ GenerateCode(r)
           \/ LineFails(r) \/ AddMember(r) \/ InsertMember(r)
    PROVE  BaseInv' /\ Grows
<1>1. next \in Nat /\ IsFiniteSet(members) /\ DOMAIN req = Requests
  BY DEF BaseInv
<1>2. PICK q : q = req[r] /\ FormIn(q)
  BY DEF BaseInv
<1>3. IsFiniteSet(members')
  <2>1. CASE InsertMember(r)
    <3>1. PICK m : members' = members \cup {m}
      BY <2>1 DEF InsertMember
    <3>2. QED
      BY <1>1, <3>1, FS_AddElement
  <2>2. CASE ~InsertMember(r)
    <3>1. members' = members
      BY <2>2 DEF CommitCampaign, CommitRule, FillOffer, SyncOffer, CommitOffer, PickCode,
                  AssignCode, GenerateCode, LineFails, AddMember, segmentVars
    <3>2. QED
      BY <1>1, <3>1
  <2>3. QED
    BY <2>1, <2>2
<1>4. Grows
  <2>1. CASE CommitCampaign(r)
    <3>1. PICK new : new = Wanted(q.form) \ Items(q.rows)
      OBVIOUS
    <3>2. next' = next + Cardinality(new)
      BY <1>2, <2>1, <3>1 DEF CommitCampaign
    <3>3. q.form \in CampaignForms
      BY <1>2, <2>1 DEF CommitCampaign, At, FormIn
    <3>4. Cardinality(new) \in Nat
      <4>1. IsFiniteSet(Wanted(q.form)) /\ new \subseteq Wanted(q.form)
        BY <3>1, <3>3, CampaignItems
      <4>2. IsFiniteSet(new)
        BY <4>1, FS_Subset
      <4>3. QED
        BY <4>2, FS_CardinalityType
    <3>5. QED
      BY <1>1, <3>2, <3>4 DEF Grows
  <2>2. CASE CommitRule(r)
    <3>1. PICK new : new = DOMAIN q.form.tiers \ Items(q.rows)
      OBVIOUS
    <3>2. next' = next + Cardinality(new)
      BY <1>2, <2>2, <3>1 DEF CommitRule
    <3>3. q.form \in RuleForms
      BY <1>2, <2>2 DEF CommitRule, At, FormIn
    <3>4. Cardinality(new) \in Nat
      <4>1. IsFiniteSet(DOMAIN q.form.tiers) /\ new \subseteq DOMAIN q.form.tiers
        BY <3>1, <3>3, CatalogueAssumption
      <4>2. IsFiniteSet(new)
        BY <4>1, FS_Subset
      <4>3. QED
        BY <4>2, FS_CardinalityType
    <3>5. QED
      BY <1>1, <3>2, <3>4 DEF Grows
  <2>3. CASE FillOffer(r)
    <3>1. q.form \in OfferForms
      BY <1>2, <2>3 DEF FillOffer, At, FormIn
    <3>2. CASE Add(q.form, Addressed(q.form), offerLinks, issued)
      <4>1. Addressed(q.form) \in SUBSET Segments
        BY <3>1, CatalogueAssumption DEF Addressed
      <4>2. QED
        BY <1>1, <3>1, <3>2, <4>1, AddGrows
    <3>3. CASE next' = next
      BY <1>1, <3>3 DEF Grows
    <3>4. QED
      BY <1>2, <2>3, <3>2, <3>3 DEF FillOffer
  <2>4. CASE CommitOffer(r)
    <3>1. q.job.form \in OfferForms
      BY <1>2, <2>4 DEF CommitOffer, At, FormIn
    <3>2. PICK add : add = q.job.form.segments \ q.linked
      OBVIOUS
    <3>3. ASSUME NEW keptLinks, NEW keptIssues, Add(q.job.form, add, keptLinks, keptIssues)
          PROVE  Grows
      <4>1. add \in SUBSET Segments
        BY <3>1, <3>2, CatalogueAssumption
      <4>2. QED
        BY <1>1, <3>1, <3>3, <4>1, AddGrows
    <3>4. CASE next' = next
      BY <1>1, <3>4 DEF Grows
    <3>5. QED
      BY <1>2, <2>4, <3>2, <3>3, <3>4 DEF CommitOffer
  <2>5. CASE GenerateCode(r) \/ InsertMember(r)
    BY <1>1, <2>5 DEF GenerateCode, InsertMember, Grows
  <2>6. CASE SyncOffer(r) \/ PickCode(r) \/ AssignCode(r) \/ LineFails(r) \/ AddMember(r)
    BY <1>1, <2>6 DEF SyncOffer, PickCode, AssignCode, LineFails, AddMember, Grows
  <2>7. QED
    BY <2>1, <2>2, <2>3, <2>4, <2>5, <2>6
<1>5. ASSUME NEW g, FormIn(g), req' = [req EXCEPT ![r] = g] PROVE BaseInv' /\ Grows
  <2>1. DOMAIN req' = Requests /\ req'[r] = g /\ \A s \in Requests \ {r} : req'[s] = req[s]
    BY <1>1, <1>5
  <2>2. FormIn(req'[r])
    BY <1>5, <2>1
  <2>3. QED
    BY <1>3, <1>4, <2>1, <2>2, FormsStay
<1>6. CASE CommitCampaign(r) \/ CommitRule(r) \/ FillOffer(r) \/ CommitOffer(r) \/ AssignCode(r) \/ GenerateCode(r)
  <2>1. req' = [req EXCEPT ![r] = Idle]
    BY <1>6 DEF CommitCampaign, CommitRule, FillOffer, CommitOffer, AssignCode, GenerateCode,
       Return
  <2>2. QED
    BY <1>5, <2>1, IdleForm
<1>7. CASE SyncOffer(r)
  <2>1. PICK g : g = [pc |-> "commit", job |-> q, linked |-> Items(offerLinks)]
    OBVIOUS
  <2>2. req' = [req EXCEPT ![r] = g]
    BY <1>2, <1>7, <2>1 DEF SyncOffer
  <2>3. q.form \in OfferForms
    BY <1>2, <1>7 DEF SyncOffer, At, FormIn
  <2>4. FormIn(g)
    BY <2>1, <2>3 DEF FormIn
  <2>5. QED
    BY <1>5, <2>2, <2>4
<1>8. CASE PickCode(r)
  <2>1. CASE req' = [req EXCEPT ![r] = Idle]
    BY <1>5, <2>1, IdleForm
  <2>2. ASSUME NEW k, req' = [req EXCEPT ![r] = [pc |-> "assign", customer |-> q.customer, code |-> k]]
        PROVE  BaseInv' /\ Grows
    <3>1. FormIn([pc |-> "assign", customer |-> q.customer, code |-> k])
      BY DEF FormIn
    <3>2. QED
      BY <1>5, <2>2, <3>1
  <2>3. QED
    BY <1>2, <1>8, <2>1, <2>2 DEF PickCode, Return
<1>9. CASE LineFails(r)
  <2>1. PICK c : req' = [req EXCEPT ![r].todo = @ \ {c}]
    BY <1>9 DEF LineFails
  <2>2. PICK g : g = [q EXCEPT !.todo = @ \ {c}]
    OBVIOUS
  <2>3. req' = [req EXCEPT ![r] = g]
    BY <1>2, <2>1, <2>2
  <2>4. q.pc = "members"
    BY <1>2, <1>9 DEF LineFails, At
  <2>5. g.pc = "members"
    BY <2>2, <2>4
  <2>6. FormIn(g)
    BY <2>5 DEF FormIn
  <2>7. QED
    BY <1>5, <2>3, <2>6
<1>10. CASE AddMember(r)
  <2>1. q.pc = "members"
    BY <1>2, <1>10 DEF AddMember, At
  <2>2. CASE req' = [req EXCEPT ![r] = Idle]
    BY <1>5, <2>2, IdleForm
  <2>3. ASSUME NEW c, NEW rest, rest = [q EXCEPT !.todo = @ \ {c}],
               req' = [req EXCEPT ![r] = IF MemberRows(rest.segment, c) # {} THEN rest
                                         ELSE [pc |-> "insert", customer |-> c, job |-> rest]]
        PROVE  BaseInv' /\ Grows
    <3>1. rest.pc = "members"
      BY <2>1, <2>3
    <3>2. FormIn(rest) /\ FormIn([pc |-> "insert", customer |-> c, job |-> rest])
      BY <3>1 DEF FormIn
    <3>3. QED
      BY <1>5, <2>3, <3>2
  <2>4. QED
    BY <1>2, <1>10, <2>2, <2>3 DEF AddMember, Return
<1>11. CASE InsertMember(r)
  <2>1. q.job.pc = "members" /\ req' = [req EXCEPT ![r] = q.job]
    BY <1>2, <1>11 DEF InsertMember, At, FormIn
  <2>2. FormIn(q.job)
    BY <2>1 DEF FormIn
  <2>3. QED
    BY <1>5, <2>1, <2>2
<1>12. QED
  BY <1>6, <1>7, <1>8, <1>9, <1>10, <1>11

(* A customer opens the offer: told his code, or picks one.                *)
LEMMA OpenKeepsForms ==
    ASSUME BaseInv, NEW r \in Requests, OpenOffer(r)
    PROVE  BaseInv' /\ Grows
<1>1. next' = next /\ next \in Nat /\ IsFiniteSet(members') /\ DOMAIN req = Requests
  BY DEF OpenOffer, segmentVars, BaseInv
<1>2. Grows
  BY <1>1 DEF Grows
<1>3. CASE UNCHANGED req
  BY <1>1, <1>2, <1>3, FormsStay
<1>4. ASSUME NEW c, Begin(r, [pc |-> "pick", customer |-> c, source |-> offer.source])
      PROVE  BaseInv' /\ Grows
  <2>1. PICK g : g = [pc |-> "pick", customer |-> c, source |-> offer.source]
    OBVIOUS
  <2>2. DOMAIN req' = Requests /\ req'[r] = g /\ \A s \in Requests \ {r} : req'[s] = req[s]
    BY <1>1, <1>4, <2>1 DEF Begin
  <2>3. FormIn(g)
    BY <2>1 DEF FormIn
  <2>4. FormIn(req'[r])
    BY <2>2, <2>3
  <2>5. QED
    BY <1>1, <1>2, <2>2, <2>4, FormsStay
<1>5. QED
  BY <1>3, <1>4 DEF OpenOffer, Call

LEMMA InitForms == Init => BaseInv
<1>1. SUFFICES ASSUME Init PROVE BaseInv
  OBVIOUS
<1>2. IsFiniteSet(FirstMembers)
  <2>1. /\ IsFiniteSet(Segments) /\ IsFiniteSet(Customers) /\ DOMAIN Members \subseteq Segments
        /\ FirstMembers \subseteq Segments \X Customers
    BY CatalogueAssumption DEF FirstMembers
  <2>2. IsFiniteSet(Segments \X Customers)
    BY <2>1, FS_Product
  <2>3. QED
    BY <2>1, <2>2, FS_Subset
<1>3. next \in Nat
  <2>1. Cardinality(FirstMembers) \in Nat
    BY <1>2, FS_CardinalityType
  <2>2. QED
    BY <1>1, <2>1 DEF Init
<1>4. IsFiniteSet(members)
  <2>1. PICK number : members = {Row(i, None, number[i]) : i \in FirstMembers}
    BY <1>1 DEF Init
  <2>2. PICK f : f = [i \in FirstMembers |-> Row(i, None, number[i])]
    OBVIOUS
  <2>3. f \in [FirstMembers -> members] /\ \A t \in members : \E x \in FirstMembers : f[x] = t
    BY <2>1, <2>2
  <2>4. QED
    BY <1>2, <2>3, ImageIsFinite
<1>5. QED
  BY <1>1, <1>3, <1>4, IdleForm DEF Init, BaseInv

LEMMA FormsKept == BaseInv /\ [Next]_vars => BaseInv' /\ Grows
<1>1. SUFFICES ASSUME BaseInv, [Next]_vars PROVE BaseInv' /\ Grows
  OBVIOUS
<1>2. ASSUME NEW r \in Requests,
             \/ UpdateCampaign(r) \/ UpdateRule(r) \/ CreateOffer(r) \/ UpdateOffer(r)
             \/ CreateSegment(r) \/ UploadSegment(r) \/ UpdateSegment(r)
      PROVE  BaseInv' /\ Grows
  BY <1>1, <1>2, BeginsKeepForms
<1>3. ASSUME NEW r \in Requests,
             \/ CommitCampaign(r) \/ CommitRule(r) \/ FillOffer(r) \/ SyncOffer(r) \/ CommitOffer(r)
             \/ PickCode(r) \/ AssignCode(r) \/ GenerateCode(r)
             \/ LineFails(r) \/ AddMember(r) \/ InsertMember(r)
      PROVE  BaseInv' /\ Grows
  BY <1>1, <1>3, StepsKeepForms
<1>4. ASSUME \/ CreateCampaign \/ RemoveCampaign \/ CreateRule \/ RemoveRule
             \/ CreateBusinessOffer \/ RemoveOffer \/ RemoveMember \/ RemoveSegment \/ UNCHANGED vars
      PROVE  BaseInv' /\ Grows
  BY <1>1, <1>4, CallsKeepForms
<1>5. QED
  BY <1>1, <1>2, <1>3, <1>4, OpenKeepsForms DEF Next


-----------------------------------------------------------------------------
(* What was removed.                                                       *)

(* Whatever an edit holds of a campaign or an offer that is removed under  *)
(* way, its saves leave it removed, unless its form activates the offer    *)
(* (RemovedStaysRemoved).                                                  *)
THEOREM RemovedIsNotBroughtBack == Spec => RemovedStaysRemoved
<1>1. ASSUME [Next]_vars, campaign = "removed" PROVE campaign' = "removed"
  <2>1. campaign' = campaign \/ campaign' = "removed"
    BY <1>1 DEF Next, vars, campaignVars, ruleVars, offerVars, segmentVars, CreateCampaign,
       RemoveCampaign,
       CreateRule, RemoveRule, CreateBusinessOffer, RemoveOffer, RemoveMember, RemoveSegment,
       UpdateCampaign, CommitCampaign, StatusAfter, UpdateRule, CommitRule, CreateOffer, FillOffer,
       UpdateOffer, SyncOffer, CommitOffer, OpenOffer, PickCode, AssignCode, GenerateCode,
       CreateSegment, UploadSegment, NewSegment, LineFails, UpdateSegment, AddMember, InsertMember
  <2>2. QED
    BY <1>1, <2>1
<1>2. ASSUME [Next]_vars, offer.status = "removed"
      PROVE  \/ offer'.status = "removed"
             \/ \E r \in Requests : At(r, "commit") /\ req[r].job.form.active
  <2>1. offer # NoOffer
    BY <1>2 DEF NoOffer
  <2>2. CASE UNCHANGED offer
    BY <1>2, <2>2
  <2>3. CASE RemoveOffer
    <3>1. offer' = [offer EXCEPT !.status = "removed"]
      BY <2>3 DEF RemoveOffer
    <3>2. QED
      BY <1>2, <3>1
  <2>4. ASSUME NEW r \in Requests, CommitOffer(r), ~UNCHANGED offer
        PROVE  \/ offer'.status = "removed"
               \/ \E s \in Requests : At(s, "commit") /\ req[s].job.form.active
    <3>1. PICK copy, form : copy = req[r].job.copy /\ form = req[r].job.form
      OBVIOUS
    <3>2. At(r, "commit") /\ offer' = Merged(copy, Applied(copy, form))
      BY <2>4, <3>1 DEF CommitOffer
    <3>3. CASE form.active
      BY <3>1, <3>2, <3>3
    <3>4. CASE ~form.active
      <4>1. PICK row : row = Applied(copy, form)
        OBVIOUS
      <4>2. "status" \in DOMAIN row /\ row["status"] = copy["status"]
        BY <3>4, <4>1 DEF Applied
      <4>3. Merged(copy, row)["status"] = offer["status"]
        BY <4>2 DEF Merged
      <4>4. QED
        BY <1>2, <3>2, <4>1, <4>3
    <3>5. QED
      BY <3>3, <3>4
  <2>5. UNCHANGED offer \/ RemoveOffer \/ \E r \in Requests : CommitOffer(r)
    BY <1>2, <2>1 DEF Next, vars, campaignVars, ruleVars, offerVars, segmentVars,
       CreateCampaign, RemoveCampaign,
       CreateRule, RemoveRule, CreateBusinessOffer, RemoveMember, RemoveSegment,
       UpdateCampaign, CommitCampaign, UpdateRule, CommitRule, CreateOffer, FillOffer,
       UpdateOffer, SyncOffer, OpenOffer, PickCode, AssignCode, GenerateCode,
       CreateSegment, UploadSegment, NewSegment, LineFails, UpdateSegment, AddMember, InsertMember
  <2>6. QED
    BY <2>2, <2>3, <2>4, <2>5
<1>3. QED
  BY <1>1, <1>2, PTL DEF Spec, RemovedStaysRemoved

-----------------------------------------------------------------------------
(* Calls that do not overlap.                                              *)

AllIdle == \A s \in Requests : req[s].pc = "idle"
Others(r) == \A s \in Requests \ {r} : req[s].pc = "idle"

LEMMA AloneBefore ==
    ASSUME ~Busy
    PROVE  AllIdle
  BY DEF Busy, AllIdle, Idle

(* A call of one step that meets nobody.                                   *)
LEMMA CallMeets ==
    ASSUME Call
    PROVE  UNCHANGED req /\ (~overlap' => ~overlap /\ AllIdle)
<1>1. UNCHANGED req /\ overlap' = (overlap \/ Busy)
  BY DEF Call
<1>2. QED
  BY <1>1, AloneBefore

LEMMA BeginMeets ==
    ASSUME BaseInv, NEW r \in Requests, NEW g, Begin(r, g)
    PROVE  /\ DOMAIN req' = Requests /\ req'[r] = g /\ \A s \in Requests \ {r} : req'[s] = req[s]
           /\ ~overlap' => ~overlap /\ AllIdle
<1>1. req' = [req EXCEPT ![r] = g] /\ overlap' = (overlap \/ Busy)
  BY DEF Begin
<1>2. QED
  BY <1>1, AloneBefore DEF BaseInv

LEMMA StepMeets ==
    ASSUME Solo, NEW r \in Requests, req[r].pc # "idle", overlap' = overlap, ~overlap'
    PROVE  ~overlap /\ Others(r)
  BY DEF Solo, Others

(* What each step of a request in flight leaves alone.                     *)
LEMMA StepsInFlight ==
    ASSUME BaseInv, NEW r \in Requests,
           \/ CommitCampaign(r) \/ CommitRule(r) \/ FillOffer(r) \/ SyncOffer(r) \/ CommitOffer(r)
           \/ PickCode(r) \/ AssignCode(r) \/ GenerateCode(r)
           \/ LineFails(r) \/ AddMember(r) \/ InsertMember(r)
    PROVE  /\ req[r].pc # "idle" /\ overlap' = overlap
           /\ DOMAIN req' = Requests /\ \A s \in Requests \ {r} : req'[s] = req[s]
<1>1. req[r].pc # "idle" /\ overlap' = overlap
  BY DEF CommitCampaign, CommitRule, FillOffer, SyncOffer, CommitOffer, PickCode, AssignCode,
         GenerateCode, LineFails, AddMember, InsertMember, At
<1>2. \E g : req' = [req EXCEPT ![r] = g]
  <2>1. CASE CommitCampaign(r) \/ CommitRule(r) \/ FillOffer(r) \/ CommitOffer(r) \/ AssignCode(r) \/ GenerateCode(r)
    BY <2>1 DEF CommitCampaign, CommitRule, FillOffer, CommitOffer, AssignCode, GenerateCode,
       Return
  <2>2. CASE SyncOffer(r) \/ PickCode(r) \/ LineFails(r) \/ AddMember(r) \/ InsertMember(r)
    BY <2>2 DEF SyncOffer, PickCode, LineFails, AddMember, InsertMember, Return
  <2>3. QED
    BY <2>1, <2>2
<1>3. QED
  BY <1>1, <1>2 DEF BaseInv

(* What begins in the administration.                                      *)
LEMMA BeginsWhat ==
    ASSUME NEW r \in Requests,
           \/ UpdateCampaign(r) \/ UpdateRule(r) \/ CreateOffer(r) \/ UpdateOffer(r)
           \/ CreateSegment(r) \/ UploadSegment(r) \/ UpdateSegment(r)
    PROVE  \E g : /\ Begin(r, g) /\ g.pc \in {"campaign", "rule", "fill", "sync", "members"}
                  /\ g.pc = "campaign" => g.rows = links
                  /\ g.pc = "rule" => g.rows = rates
                  /\ g.pc = "sync" => offer # NoOffer /\ g.links = offerLinks /\ g.issued = issued
                  /\ g.pc = "fill" => CreateOffer(r)
<1>1. CASE UpdateCampaign(r)
  <2>1. PICK form \in CampaignForms :
          Begin(r, [pc |-> "campaign", form |-> form, status |-> campaign, rows |-> links])
    BY <1>1 DEF UpdateCampaign
  <2>2. PICK g : g = [pc |-> "campaign", form |-> form, status |-> campaign, rows |-> links]
    OBVIOUS
  <2>3. Begin(r, g) /\ g.pc = "campaign" /\ g.rows = links
    BY <2>1, <2>2
  <2>4. QED
    BY <2>3
<1>2. CASE UpdateRule(r)
  <2>1. PICK form \in RuleForms : Begin(r, [pc |-> "rule", form |-> form, rows |-> rates])
    BY <1>2 DEF UpdateRule
  <2>2. PICK g : g = [pc |-> "rule", form |-> form, rows |-> rates]
    OBVIOUS
  <2>3. Begin(r, g) /\ g.pc = "rule" /\ g.rows = rates
    BY <2>1, <2>2
  <2>4. QED
    BY <2>3
<1>3. CASE CreateOffer(r)
  <2>1. PICK form \in OfferForms : Begin(r, [pc |-> "fill", form |-> form])
    BY <1>3 DEF CreateOffer
  <2>2. PICK g : g = [pc |-> "fill", form |-> form]
    OBVIOUS
  <2>3. Begin(r, g) /\ g.pc = "fill"
    BY <2>1, <2>2
  <2>4. QED
    BY <1>3, <2>3
<1>4. CASE UpdateOffer(r)
  <2>1. PICK form \in OfferForms :
          Begin(r, [pc |-> "sync", form |-> form, copy |-> offer, links |-> offerLinks, issued |-> issued])
    BY <1>4 DEF UpdateOffer
  <2>2. PICK g : g = [pc |-> "sync", form |-> form, copy |-> offer, links |-> offerLinks, issued |-> issued]
    OBVIOUS
  <2>3. /\ Begin(r, g) /\ g.pc = "sync" /\ g.links = offerLinks /\ g.issued = issued
        /\ offer # NoOffer
    BY <1>4, <2>1, <2>2 DEF UpdateOffer
  <2>4. QED
    BY <2>3
<1>5. CASE CreateSegment(r) \/ UploadSegment(r) \/ UpdateSegment(r)
  <2>1. PICK s, list, file : Begin(r, [pc |-> "members", segment |-> s, todo |-> list, file |-> file])
    BY <1>5 DEF CreateSegment, UploadSegment, NewSegment, UpdateSegment
  <2>2. PICK g : g = [pc |-> "members", segment |-> s, todo |-> list, file |-> file]
    OBVIOUS
  <2>3. Begin(r, g) /\ g.pc = "members"
    BY <2>1, <2>2
  <2>4. QED
    BY <2>3
<1>6. QED
  BY <1>1, <1>2, <1>3, <1>4, <1>5

(* The steps of Next, by what they do to the requests.                     *)
LEMMA StepKinds ==
    ASSUME BaseInv, [Next]_vars
    PROVE  \/ UNCHANGED vars
           \/ Call
           \/ \E r \in Requests : (\E g : Begin(r, g))
           \/ \E r \in Requests :
                \/ CommitCampaign(r) \/ CommitRule(r) \/ FillOffer(r) \/ SyncOffer(r) \/ CommitOffer(r)
                \/ PickCode(r) \/ AssignCode(r) \/ GenerateCode(r)
                \/ LineFails(r) \/ AddMember(r) \/ InsertMember(r)
<1>1. ASSUME \/ CreateCampaign \/ RemoveCampaign \/ CreateRule \/ RemoveRule
             \/ CreateBusinessOffer \/ RemoveOffer \/ RemoveMember \/ RemoveSegment
      PROVE  Call
  BY <1>1 DEF CreateCampaign, RemoveCampaign, CreateRule, RemoveRule, CreateBusinessOffer,
     RemoveOffer,
              RemoveMember, RemoveSegment
<1>2. ASSUME NEW r \in Requests,
             \/ UpdateCampaign(r) \/ UpdateRule(r) \/ CreateOffer(r) \/ UpdateOffer(r)
             \/ CreateSegment(r) \/ UploadSegment(r) \/ UpdateSegment(r)
      PROVE  \E g : Begin(r, g)
  BY <1>2 DEF UpdateCampaign, UpdateRule, CreateOffer, UpdateOffer, CreateSegment,
     UploadSegment,
              NewSegment, UpdateSegment
<1>3. ASSUME NEW r \in Requests, OpenOffer(r) PROVE Call \/ \E g : Begin(r, g)
  BY <1>3 DEF OpenOffer
<1>4. QED
  BY <1>1, <1>2, <1>3 DEF Next

LEMMA SoloKept == BaseInv /\ Solo /\ [Next]_vars => Solo'
<1>1. SUFFICES ASSUME BaseInv, Solo, [Next]_vars, ~overlap' PROVE Solo'
  BY DEF Solo
<1>2. CASE UNCHANGED vars
  BY <1>1, <1>2 DEF vars, Solo
<1>3. CASE Call
  BY <1>1, <1>3, CallMeets DEF Solo
<1>4. ASSUME NEW r \in Requests, NEW g, Begin(r, g) PROVE Solo'
  <2>1. \A s \in Requests \ {r} : req'[s].pc = "idle"
    BY <1>1, <1>4, BeginMeets DEF AllIdle
  <2>2. QED
    BY <2>1 DEF Solo
<1>5. ASSUME NEW r \in Requests,
             \/ CommitCampaign(r) \/ CommitRule(r) \/ FillOffer(r) \/ SyncOffer(r) \/ CommitOffer(r)
             \/ PickCode(r) \/ AssignCode(r) \/ GenerateCode(r)
             \/ LineFails(r) \/ AddMember(r) \/ InsertMember(r)
      PROVE  Solo'
  <2>1. /\ req[r].pc # "idle" /\ overlap' = overlap
        /\ \A s \in Requests \ {r} : req'[s] = req[s]
    BY <1>1, <1>5, StepsInFlight
  <2>2. Others(r)
    BY <1>1, <2>1, StepMeets
  <2>3. QED
    BY <2>1, <2>2 DEF Solo, Others
<1>6. QED
  BY <1>1, <1>2, <1>3, <1>4, <1>5, StepKinds

(* What a request is about to do after a step.                             *)
LEMMA AfterStep ==
    ASSUME BaseInv, NEW r \in Requests,
           \/ CommitCampaign(r) \/ CommitRule(r) \/ FillOffer(r) \/ SyncOffer(r) \/ CommitOffer(r)
           \/ PickCode(r) \/ AssignCode(r) \/ GenerateCode(r)
           \/ LineFails(r) \/ AddMember(r) \/ InsertMember(r)
    PROVE  /\ req'[r].pc \in {"idle", "commit", "assign", "members", "insert"}
           /\ req'[r].pc = "commit" => SyncOffer(r)
           /\ req'[r].pc = "assign" => PickCode(r)
<1>1. DOMAIN req = Requests /\ FormIn(req[r])
  BY DEF BaseInv
<1>2. CASE CommitCampaign(r) \/ CommitRule(r) \/ FillOffer(r) \/ CommitOffer(r) \/ AssignCode(r) \/ GenerateCode(r)
  BY <1>1, <1>2 DEF CommitCampaign, CommitRule, FillOffer, CommitOffer, AssignCode,
     GenerateCode, Return, Idle
<1>3. CASE SyncOffer(r)
  <2>1. req'[r].pc = "commit"
    BY <1>1, <1>3 DEF SyncOffer
  <2>2. QED
    BY <1>3, <2>1
<1>4. CASE PickCode(r)
  <2>1. req'[r].pc \in {"idle", "assign"}
    BY <1>1, <1>4 DEF PickCode, Return, Idle
  <2>2. QED
    BY <1>4, <2>1
<1>5. CASE LineFails(r)
  <2>1. PICK c : req' = [req EXCEPT ![r].todo = @ \ {c}]
    BY <1>5 DEF LineFails
  <2>2. req'[r].pc = req[r].pc
    BY <1>1, <2>1
  <2>3. req'[r].pc = "members"
    BY <1>5, <2>2 DEF LineFails, At
  <2>4. QED
    BY <2>3
<1>6. CASE AddMember(r)
  <2>1. PICK q : q = req[r] /\ q.pc = "members"
    BY <1>6 DEF AddMember, At
  <2>2. ASSUME NEW c, NEW rest, rest = [q EXCEPT !.todo = @ \ {c}],
               req' = [req EXCEPT ![r] = IF MemberRows(rest.segment, c) # {} THEN rest
                                         ELSE [pc |-> "insert", customer |-> c, job |-> rest]]
        PROVE  req'[r].pc \in {"members", "insert"}
    <3>1. rest.pc = "members"
      BY <2>1, <2>2
    <3>2. req'[r] = rest \/ req'[r] = [pc |-> "insert", customer |-> c, job |-> rest]
      BY <1>1, <2>2
    <3>3. QED
      BY <3>1, <3>2
  <2>3. req' = [req EXCEPT ![r] = Idle] => req'[r].pc = "idle"
    BY <1>1 DEF Idle
  <2>4. req'[r].pc \in {"idle", "members", "insert"}
    BY <1>6, <2>1, <2>2, <2>3 DEF AddMember, Return
  <2>5. QED
    BY <2>4
<1>7. CASE InsertMember(r)
  <2>1. req[r].job.pc = "members" /\ req' = [req EXCEPT ![r] = req[r].job]
    BY <1>1, <1>7 DEF InsertMember, At, FormIn
  <2>2. req'[r].pc = "members"
    BY <1>1, <2>1
  <2>3. QED
    BY <2>2
<1>8. QED
  BY <1>2, <1>3, <1>4, <1>5, <1>6, <1>7


-----------------------------------------------------------------------------
(* Codes of an offer: each has an id of its own; and as long as calls do   *)
(* not overlap nobody has two, who picks one has none, and what was told   *)
(* is what the customer has.                                               *)

CodesTyped ==
    /\ \A k \in codes : k = [customer |-> k.customer, id |-> k.id] /\ k.id \in Nat /\ k.id < next
    /\ \A k, l \in codes : k.id = l.id => k = l

CodesSole ==
    /\ \A k, l \in codes : k.customer # None /\ k.customer = l.customer => k = l
    /\ \A t \in told : \E k \in codes : k.customer # None /\ t = <<k.customer, k.id>>

Picks(q) ==
    /\ q.pc \in {"pick", "assign"} =>
         q.customer # None /\ \A k \in codes : k.customer # q.customer
    /\ q.pc = "assign" => q.code \in codes /\ q.code.customer = None

CodeInv == CodesTyped /\ (~overlap => CodesSole /\ \A r \in Requests : Picks(req[r]))

(* Steps that touch no code.                                               *)
LEMMA CodesStay ==
    ASSUME CodeInv, next \in Nat, Grows, UNCHANGED <<codes, told>>, ~overlap' => ~overlap,
           ~overlap' => \A r \in Requests : req'[r] = req[r] \/ Picks(req'[r])
    PROVE  CodeInv'
<1>1. CodesTyped'
  BY DEF CodeInv, CodesTyped, Grows
<1>2. ASSUME ~overlap' PROVE CodesSole' /\ \A r \in Requests : Picks(req[r])'
  BY <1>2 DEF CodeInv, CodesSole, Picks
<1>3. QED
  BY <1>1, <1>2 DEF CodeInv

LEMMA AddKeepsCodes ==
    ASSUME BaseInv, CodeInv, Grows, NEW form, codes' = codes \cup NewCodes(form), UNCHANGED told,
           \A k \in NewCodes(form) : /\ k = [customer |-> None, id |-> k.id]
                                     /\ k.id \in Nat /\ next <= k.id /\ k.id < next',
           ~overlap' => ~overlap /\ \A r \in Requests : req'[r].pc = "idle"
    PROVE  CodeInv'
<1>1. next \in Nat /\ next' \in Nat /\ next <= next'
  BY DEF BaseInv, Grows
<1>2. PICK new : new = NewCodes(form)
  OBVIOUS
<1>3. \A k \in new : /\ k = [customer |-> None, id |-> k.id] /\ k.customer = None
                     /\ k.id \in Nat /\ next <= k.id /\ k.id < next'
  BY <1>2
<1>4. \A k \in codes : k = [customer |-> k.customer, id |-> k.id] /\ k.id \in Nat /\ k.id < next
  BY DEF CodeInv, CodesTyped
<1>5. \A k, l \in codes \cup new : k.id = l.id => k = l
  <2>1. ASSUME NEW k \in codes, NEW l \in new PROVE k.id # l.id
    BY <1>1, <1>3, <1>4
  <2>2. QED
    BY <1>3, <2>1 DEF CodeInv, CodesTyped
<1>6. CodesTyped'
  <2>1. \A k \in codes \cup new : /\ k = [customer |-> k.customer, id |-> k.id]
                                  /\ k.id \in Nat /\ k.id < next'
    BY <1>1, <1>3, <1>4
  <2>2. QED
    BY <1>2, <1>5, <2>1 DEF CodesTyped
<1>7. ASSUME ~overlap' PROVE CodesSole' /\ \A r \in Requests : Picks(req[r])'
  <2>1. CodesSole
    BY <1>7 DEF CodeInv
  <2>2. CodesSole'
    BY <1>2, <1>3, <2>1 DEF CodesSole
  <2>3. \A r \in Requests : Picks(req[r])'
    BY <1>7 DEF Picks
  <2>4. QED
    BY <2>2, <2>3
<1>8. QED
  BY <1>6, <1>7 DEF CodeInv

(* A customer opens the offer.                                             *)
LEMMA OpenKeepsCodes ==
    ASSUME BaseInv, CodeInv, NEW r \in Requests, OpenOffer(r)
    PROVE  CodeInv'
<1>1. UNCHANGED <<codes, next>> /\ next \in Nat
  BY DEF OpenOffer, BaseInv
<1>2. CodesTyped'
  BY <1>1 DEF CodeInv, CodesTyped
<1>3. PICK c \in Customers :
         \/ CodesOf(c) = {} /\ UNCHANGED told
            /\ Begin(r, [pc |-> "pick", customer |-> c, source |-> offer.source])
         \/ \E k \in CodesOf(c) : Tell(c, k) /\ Call
  BY DEF OpenOffer
<1>4. c # None
  BY CatalogueAssumption
<1>5. CASE CodesOf(c) = {} /\ UNCHANGED told
            /\ Begin(r, [pc |-> "pick", customer |-> c, source |-> offer.source])
  <2>1. PICK g : g = [pc |-> "pick", customer |-> c, source |-> offer.source]
    OBVIOUS
  <2>2. /\ req'[r] = g /\ \A s \in Requests \ {r} : req'[s] = req[s]
        /\ ~overlap' => ~overlap /\ AllIdle
    BY <1>5, <2>1, BeginMeets
  <2>3. ASSUME ~overlap' PROVE CodesSole' /\ \A s \in Requests : Picks(req[s])'
    <3>1. CodesSole'
      BY <1>1, <1>5, <2>2, <2>3 DEF CodeInv, CodesSole
    <3>2. Picks(g)'
      BY <1>1, <1>4, <1>5, <2>1 DEF Picks, CodesOf
    <3>3. \A s \in Requests \ {r} : Picks(req[s])'
      BY <2>2, <2>3 DEF AllIdle, Picks
    <3>4. Picks(req[r])'
      BY <2>2, <3>2 DEF Picks
    <3>5. QED
      BY <3>1, <3>3, <3>4
  <2>4. QED
    BY <1>2, <2>3 DEF CodeInv
<1>6. ASSUME NEW k \in CodesOf(c), Tell(c, k), Call PROVE CodeInv'
  <2>1. UNCHANGED req /\ (~overlap' => ~overlap /\ AllIdle)
    BY <1>6, CallMeets
  <2>2. k \in codes /\ k.customer = c /\ told' = told \cup {<<c, k.id>>}
    BY <1>6 DEF CodesOf, Tell
  <2>3. ASSUME ~overlap' PROVE CodesSole' /\ \A s \in Requests : Picks(req[s])'
    <3>1. CodesSole'
      BY <1>1, <1>4, <2>1, <2>2, <2>3 DEF CodeInv, CodesSole
    <3>2. QED
      BY <2>1, <2>3, <3>1 DEF AllIdle, Picks
  <2>4. QED
    BY <1>2, <2>3 DEF CodeInv
<1>7. QED
  BY <1>3, <1>5, <1>6

LEMMA PickKeepsCodes ==
    ASSUME BaseInv, Solo, CodeInv, NEW r \in Requests, PickCode(r)
    PROVE  CodeInv'
<1>1. UNCHANGED <<codes, told, next>> /\ next \in Nat /\ DOMAIN req = Requests
  BY DEF PickCode, offerVars, BaseInv
<1>2. Grows
  BY <1>1 DEF Grows
<1>3. PICK q : q = req[r] /\ q.pc = "pick"
  BY DEF PickCode, At
<1>4. ~overlap' => ~overlap
  BY DEF PickCode
<1>5. CASE req' = [req EXCEPT ![r] = Idle]
  <2>1. Picks(Idle)
    BY DEF Picks, Idle
  <2>2. \A s \in Requests : req'[s] = req[s] \/ Picks(req'[s])
    BY <1>1, <1>5, <2>1
  <2>3. QED
    BY <1>1, <1>2, <1>4, <2>2, CodesStay
<1>6. ASSUME NEW k \in Free, req' = [req EXCEPT ![r] = [pc |-> "assign", customer |-> q.customer, code |-> k]]
      PROVE  CodeInv'
  <2>1. PICK g : g = [pc |-> "assign", customer |-> q.customer, code |-> k]
    OBVIOUS
  <2>2. k \in codes /\ k.customer = None
    BY DEF Free
  <2>3. ~overlap => Picks(q)
    BY <1>3 DEF CodeInv
  <2>4. ~overlap => Picks(g)
    BY <1>3, <2>1, <2>2, <2>3 DEF Picks
  <2>5. \A s \in Requests : req'[s] = req[s] \/ req'[s] = g
    BY <1>1, <1>6, <2>1
  <2>6. ~overlap' => \A s \in Requests : req'[s] = req[s] \/ Picks(req'[s])
    BY <1>4, <2>4, <2>5
  <2>7. QED
    BY <1>1, <1>2, <1>4, <2>6, CodesStay
<1>7. QED
  BY <1>3, <1>5, <1>6 DEF PickCode, Return

LEMMA AssignKeepsCodes ==
    ASSUME BaseInv, Solo, CodeInv, NEW r \in Requests, AssignCode(r)
    PROVE  CodeInv'
<1>1. PICK q : q = req[r] /\ q.pc = "assign"
  BY DEF AssignCode, At
<1>2. PICK k, c : k = q.code /\ c = q.customer
  OBVIOUS
<1>3. /\ codes' = {IF o.id = k.id THEN [o EXCEPT !.customer = c] ELSE o : o \in codes}
      /\ told' = told \cup {<<c, k.id>>} /\ req' = [req EXCEPT ![r] = Idle]
      /\ next' = next /\ overlap' = overlap
  BY <1>1, <1>2 DEF AssignCode, Tell, Return
<1>4. /\ \A o \in codes : o = [customer |-> o.customer, id |-> o.id] /\ o.id \in Nat /\ o.id < next
      /\ \A o, p \in codes : o.id = p.id => o = p
  BY DEF CodeInv, CodesTyped
<1>5. /\ \A n \in codes' : \E o \in codes :
           n = [customer |-> IF o.id = k.id THEN c ELSE o.customer, id |-> o.id]
      /\ \A o \in codes : \E n \in codes' :
           n = [customer |-> IF o.id = k.id THEN c ELSE o.customer, id |-> o.id]
  <2> DEFINE after(o) == IF o.id = k.id THEN [o EXCEPT !.customer = c] ELSE o
  <2>1. codes' = {after(o) : o \in codes}
    BY <1>3
  <2>2. \A o \in codes : after(o) = [customer |-> IF o.id = k.id THEN c ELSE o.customer, id |-> o.id]
    BY <1>4
  <2> HIDE DEF after
  <2>3. QED
    BY <2>1, <2>2
<1>6. CodesTyped'
  <2>1. \A n \in codes' : n = [customer |-> n.customer, id |-> n.id] /\ n.id \in Nat /\ n.id < next'
    BY <1>3, <1>4, <1>5
  <2>2. \A n, m \in codes' : n.id = m.id => n = m
    <3>1. TAKE n \in codes', m \in codes'
    <3>2. PICK o \in codes, p \in codes :
            /\ n = [customer |-> IF o.id = k.id THEN c ELSE o.customer, id |-> o.id]
            /\ m = [customer |-> IF p.id = k.id THEN c ELSE p.customer, id |-> p.id]
      BY <1>5
    <3>3. QED
      BY <1>4, <3>2
  <2>3. QED
    BY <2>1, <2>2 DEF CodesTyped
<1>7. ASSUME ~overlap' PROVE CodesSole' /\ \A s \in Requests : Picks(req[s])'
  <2>1. Others(r) /\ CodesSole /\ Picks(q)
    BY <1>1, <1>3, <1>7, StepMeets DEF CodeInv
  <2>2. k \in codes /\ k.customer = None /\ c # None /\ \A o \in codes : o.customer # c
    BY <1>1, <1>2, <2>1 DEF Picks
  <2>3. \A n, m \in codes' : n.customer # None /\ n.customer = m.customer => n = m
    <3>1. TAKE n \in codes', m \in codes'
    <3>2. HAVE n.customer # None /\ n.customer = m.customer
    <3>3. PICK o \in codes, p \in codes :
            /\ n = [customer |-> IF o.id = k.id THEN c ELSE o.customer, id |-> o.id]
            /\ m = [customer |-> IF p.id = k.id THEN c ELSE p.customer, id |-> p.id]
      BY <1>5
    <3>4. CASE n.customer = c
      <4>1. o.id = k.id /\ p.id = k.id
        BY <2>2, <3>2, <3>3, <3>4
      <4>2. QED
        BY <3>3, <4>1
    <3>5. CASE n.customer # c
      <4>1. n.customer = o.customer /\ m.customer = p.customer /\ o.id # k.id /\ p.id # k.id
        BY <3>2, <3>3, <3>5
      <4>2. o = p
        BY <2>1, <3>2, <4>1 DEF CodesSole
      <4>3. QED
        BY <3>3, <4>2
    <3>6. QED
      BY <3>4, <3>5
  <2>4. \A t \in told' : \E n \in codes' : n.customer # None /\ t = <<n.customer, n.id>>
    <3>1. ASSUME NEW t \in told PROVE \E n \in codes' : n.customer # None /\ t = <<n.customer, n.id>>
      <4>1. PICK o \in codes : o.customer # None /\ t = <<o.customer, o.id>>
        BY <2>1 DEF CodesSole
      <4>2. o.id # k.id
        BY <1>4, <2>2, <4>1
      <4>3. PICK n \in codes' : n = [customer |-> o.customer, id |-> o.id]
        BY <1>5, <4>2
      <4>4. QED
        BY <4>1, <4>3
    <3>2. \E n \in codes' : n.customer # None /\ <<c, k.id>> = <<n.customer, n.id>>
      <4>1. PICK n \in codes' : n = [customer |-> c, id |-> k.id]
        BY <1>5, <2>2
      <4>2. n.customer = c /\ n.id = k.id
        BY <4>1
      <4>3. QED
        BY <2>2, <4>2
    <3>3. QED
      BY <1>3, <3>1, <3>2
  <2>5. \A s \in Requests : req'[s].pc = "idle"
    BY <1>3, <2>1 DEF Others, BaseInv, Idle
  <2>6. QED
    BY <2>3, <2>4, <2>5 DEF CodesSole, Picks
<1>8. QED
  BY <1>6, <1>7 DEF CodeInv

LEMMA GenerateKeepsCodes ==
    ASSUME BaseInv, Solo, CodeInv, NEW r \in Requests, GenerateCode(r)
    PROVE  CodeInv'
<1>1. PICK q : q = req[r] /\ q.pc = "pick"
  BY DEF GenerateCode, At
<1>2. PICK c : c = q.customer
  OBVIOUS
<1>3. PICK k : k = [customer |-> c, id |-> next] /\ k.customer = c /\ k.id = next
  <2>1. [customer |-> c, id |-> next].customer = c /\ [customer |-> c, id |-> next].id = next
    OBVIOUS
  <2>2. QED
    BY <2>1
<1>4. /\ codes' = codes \cup {k} /\ told' = told \cup {<<c, k.id>>} /\ req' = [req EXCEPT ![r] = Idle]
      /\ next' = next + 1 /\ overlap' = overlap
  BY <1>1, <1>2, <1>3 DEF GenerateCode, Tell, Return
<1>5. /\ \A o \in codes : o = [customer |-> o.customer, id |-> o.id] /\ o.id \in Nat /\ o.id < next
      /\ \A o, p \in codes : o.id = p.id => o = p
      /\ next \in Nat
  BY DEF CodeInv, CodesTyped, BaseInv
<1>6. CodesTyped'
  <2>1. \A n \in codes' : n = [customer |-> n.customer, id |-> n.id] /\ n.id \in Nat /\ n.id < next'
    BY <1>3, <1>4, <1>5
  <2>2. \A o \in codes : o.id # k.id
    BY <1>3, <1>5
  <2>3. \A n, m \in codes' : n.id = m.id => n = m
    BY <1>4, <1>5, <2>2
  <2>4. QED
    BY <2>1, <2>3 DEF CodesTyped
<1>7. ASSUME ~overlap' PROVE CodesSole' /\ \A s \in Requests : Picks(req[s])'
  <2>1. Others(r) /\ CodesSole /\ Picks(q)
    BY <1>1, <1>4, <1>7, StepMeets DEF CodeInv
  <2>2. c # None /\ \A o \in codes : o.customer # c
    BY <1>1, <1>2, <2>1 DEF Picks
  <2>3. CodesSole'
    BY <1>3, <1>4, <2>1, <2>2 DEF CodesSole
  <2>4. \A s \in Requests : req'[s].pc = "idle"
    BY <1>4, <2>1 DEF Others, BaseInv, Idle
  <2>5. QED
    BY <2>3, <2>4 DEF Picks
<1>8. QED
  BY <1>6, <1>7 DEF CodeInv

LEMMA FillKeepsCodes ==
    ASSUME BaseInv, Solo, CodeInv, NEW r \in Requests, FillOffer(r) \/ CommitOffer(r)
    PROVE  CodeInv'
<1>1. PICK q : q = req[r] /\ FormIn(q)
  BY DEF BaseInv
<1>2. Grows
  BY StepsKeepForms
<1>3. /\ UNCHANGED told /\ req[r].pc # "idle" /\ overlap' = overlap /\ req' = [req EXCEPT ![r] = Idle]
  BY DEF FillOffer, CommitOffer, Return, At
<1>4. ~overlap' => ~overlap /\ \A s \in Requests : req'[s].pc = "idle"
  BY <1>3, StepMeets DEF Others, BaseInv, Idle
<1>5. next \in Nat /\ IsFiniteSet(members)
  BY DEF BaseInv
<1>6. ASSUME NEW form \in OfferForms, NEW segs \in SUBSET Segments, NEW kl, NEW ki, Add(form, segs, kl, ki)
      PROVE  CodeInv'
  <2>1. /\ codes' = codes \cup NewCodes(form)
        /\ \A k \in NewCodes(form) : /\ k = [customer |-> None, id |-> k.id]
                                     /\ k.id \in Nat /\ next <= k.id /\ k.id < next'
    BY <1>5, <1>6, AddGrows
  <2>2. QED
    BY <1>2, <1>3, <1>4, <2>1, AddKeepsCodes
<1>7. CASE UNCHANGED codes
  <2>1. Picks(Idle)
    BY DEF Picks, Idle
  <2>2. \A s \in Requests : req'[s] = req[s] \/ Picks(req'[s])
    BY <1>3, <2>1 DEF BaseInv
  <2>3. QED
    BY <1>2, <1>3, <1>4, <1>5, <1>7, <2>2, CodesStay
<1>8. CASE FillOffer(r)
  <2>1. q.form \in OfferForms
    BY <1>1, <1>8 DEF FillOffer, At, FormIn
  <2>2. Addressed(q.form) \in SUBSET Segments
    BY <2>1, CatalogueAssumption DEF Addressed
  <2>3. Add(q.form, Addressed(q.form), offerLinks, issued) \/ UNCHANGED codes
    BY <1>1, <1>8 DEF FillOffer
  <2>4. QED
    BY <1>6, <1>7, <2>1, <2>2, <2>3
<1>9. CASE CommitOffer(r)
  <2>1. q.job.form \in OfferForms
    BY <1>1, <1>9 DEF CommitOffer, At, FormIn
  <2>2. PICK add : add = q.job.form.segments \ q.linked
    OBVIOUS
  <2>3. add \in SUBSET Segments
    BY <2>1, <2>2, CatalogueAssumption
  <2>4. (\E kl, ki : Add(q.job.form, add, kl, ki)) \/ UNCHANGED codes
    BY <1>1, <1>9, <2>2 DEF CommitOffer
  <2>5. QED
    BY <1>6, <1>7, <2>1, <2>3, <2>4
<1>10. QED
  BY <1>8, <1>9

(* All the other steps.                                                    *)
LEMMA OthersKeepCodes ==
    ASSUME BaseInv, Solo, CodeInv, Grows, UNCHANGED <<codes, told>>,
           \/ UNCHANGED vars
           \/ Call
           \/ \E r \in Requests : (\E g : Begin(r, g) /\ g.pc # "pick" /\ g.pc # "assign")
           \/ \E r \in Requests :
                \/ CommitCampaign(r) \/ CommitRule(r) \/ SyncOffer(r)
                \/ LineFails(r) \/ AddMember(r) \/ InsertMember(r)
    PROVE  CodeInv'
<1>1. next \in Nat
  BY DEF BaseInv
<1>2. CASE UNCHANGED vars
  BY <1>1, <1>2, CodesStay DEF vars
<1>3. CASE Call
  BY <1>1, <1>3, CallMeets, CodesStay
<1>4. ASSUME NEW r \in Requests, NEW g, Begin(r, g), g.pc # "pick", g.pc # "assign" PROVE CodeInv'
  <2>1. Picks(g)
    BY <1>4 DEF Picks
  <2>2. /\ req'[r] = g /\ \A s \in Requests \ {r} : req'[s] = req[s]
        /\ ~overlap' => ~overlap
    BY <1>4, BeginMeets
  <2>3. \A s \in Requests : req'[s] = req[s] \/ Picks(req'[s])
    BY <2>1, <2>2
  <2>4. QED
    BY <1>1, <2>2, <2>3, CodesStay
<1>5. ASSUME NEW r \in Requests,
             \/ CommitCampaign(r) \/ CommitRule(r) \/ SyncOffer(r)
             \/ LineFails(r) \/ AddMember(r) \/ InsertMember(r)
      PROVE  CodeInv'
  <2>1. overlap' = overlap /\ \A s \in Requests \ {r} : req'[s] = req[s]
    BY <1>5, StepsInFlight
  <2>2. req'[r].pc # "pick" /\ req'[r].pc # "assign"
    <3>1. req'[r].pc \in {"idle", "commit", "assign", "members", "insert"}
      BY <1>5, AfterStep
    <3>2. req'[r].pc = "assign" => PickCode(r)
      BY <1>5, AfterStep
    <3>3. ~PickCode(r)
      <4>1. req[r].pc # "pick"
        BY <1>5 DEF CommitCampaign, CommitRule, SyncOffer, LineFails, AddMember, InsertMember,
           At
      <4>2. QED
        BY <4>1 DEF PickCode, At
    <3>4. QED
      BY <3>1, <3>2, <3>3
  <2>3. \A s \in Requests : req'[s] = req[s] \/ Picks(req'[s])
    BY <2>1, <2>2 DEF Picks
  <2>4. QED
    BY <1>1, <2>1, <2>3, CodesStay
<1>6. QED
  BY <1>2, <1>3, <1>4, <1>5

LEMMA CodesKept == BaseInv /\ Solo /\ CodeInv /\ [Next]_vars => CodeInv'
<1>1. SUFFICES ASSUME BaseInv, Solo, CodeInv, [Next]_vars PROVE CodeInv'
  OBVIOUS
<1>2. Grows
  BY <1>1, FormsKept
<1>3. CASE UNCHANGED vars
  BY <1>1, <1>2, <1>3, OthersKeepCodes DEF vars, offerVars
<1>4. CASE \/ CreateCampaign \/ RemoveCampaign \/ CreateRule \/ RemoveRule
           \/ CreateBusinessOffer \/ RemoveOffer \/ RemoveMember \/ RemoveSegment
  <2>1. UNCHANGED <<codes, told>> /\ Call
    BY <1>4 DEF CreateCampaign, RemoveCampaign, CreateRule, RemoveRule, CreateBusinessOffer,
       RemoveOffer,
                RemoveMember, RemoveSegment, offerVars
  <2>2. QED
    BY <1>1, <1>2, <2>1, OthersKeepCodes
<1>5. ASSUME NEW r \in Requests,
             \/ UpdateCampaign(r) \/ UpdateRule(r) \/ CreateOffer(r) \/ UpdateOffer(r)
             \/ CreateSegment(r) \/ UploadSegment(r) \/ UpdateSegment(r)
      PROVE  CodeInv'
  <2>1. UNCHANGED <<codes, told>>
    BY <1>5 DEF UpdateCampaign, UpdateRule, CreateOffer, UpdateOffer, CreateSegment,
       UploadSegment,
                NewSegment, UpdateSegment, offerVars
  <2>2. PICK g : Begin(r, g) /\ g.pc \in {"campaign", "rule", "fill", "sync", "members"}
    BY <1>5, BeginsWhat
  <2>3. QED
    BY <1>1, <1>2, <2>1, <2>2, OthersKeepCodes
<1>6. ASSUME NEW r \in Requests,
             \/ CommitCampaign(r) \/ CommitRule(r) \/ SyncOffer(r)
             \/ LineFails(r) \/ AddMember(r) \/ InsertMember(r)
      PROVE  CodeInv'
  <2>1. UNCHANGED <<codes, told>>
    BY <1>6 DEF CommitCampaign, CommitRule, SyncOffer, LineFails, AddMember, InsertMember,
       offerVars
  <2>2. QED
    BY <1>1, <1>2, <1>6, <2>1, OthersKeepCodes
<1>7. QED
  BY <1>1, <1>3, <1>4, <1>5, <1>6, OpenKeepsCodes, PickKeepsCodes, AssignKeepsCodes,
     GenerateKeepsCodes,
     FillKeepsCodes DEF Next

(* As long as calls do not overlap, an offer's code is told to one         *)
(* customer and a customer is told one code, however often he opens the    *)
(* offer and codes are generated or imported (OneCodeEach).                *)
THEOREM CodesAreSole == Spec => []OneCodeEach
<1>1. Init => BaseInv /\ Solo /\ CodeInv
  <2>1. Init => Solo
    BY DEF Init, Solo, Idle
  <2>2. Init => CodeInv
    BY DEF Init, CodeInv, CodesTyped, CodesSole, Picks, Idle
  <2>3. QED
    BY <2>1, <2>2, InitForms
<1>2. BaseInv /\ Solo /\ CodeInv /\ [Next]_vars => (BaseInv /\ Solo /\ CodeInv)'
  BY FormsKept, SoloKept, CodesKept
<1>3. CodeInv => OneCodeEach
  BY DEF CodeInv, CodesTyped, CodesSole, OneCodeEach
<1>4. QED
  BY <1>1, <1>2, <1>3, PTL DEF Spec


-----------------------------------------------------------------------------
(* Tables: one row for everything that was asked, at the rate that was     *)
(* asked.  An edit re-rates the rows it keeps and adds new ones.           *)

TableIs(table, want, n) ==
    /\ IsFiniteSet(DOMAIN want)
    /\ \A l \in table : /\ l = Row(l.item, l.rate, l.id) /\ l.id \in Nat /\ l.id < n
                        /\ l.item \in DOMAIN want /\ l.rate = want[l.item]
    /\ \A i \in DOMAIN want : \E l \in table : l.item = i
    /\ \A l, m \in table : l.item = m.item \/ l.id = m.id => l = m

TableInv ==
    ~overlap =>
      /\ TableIs(links, asked, next) /\ TableIs(rates, ratesAsked, next)
      /\ \A r \in Requests : /\ req[r].pc = "campaign" => req[r].rows = links
                             /\ req[r].pc = "rule" => req[r].rows = rates

LEMMA TableGrows ==
    ASSUME next \in Nat, NEW old, NEW was, TableIs(old, was, next), NEW edited, NEW want,
           IsFiniteSet(DOMAIN want),
           \A m \in edited : \E l \in old : m = Row(l.item, want[l.item], l.id) /\ l.item \in DOMAIN want,
           NEW items, IsFiniteSet(items), \A l \in old : l.item \notin items,
           DOMAIN want = {m.item : m \in edited} \cup items,
           NEW rate, \A i \in items : rate[i] = want[i],
           next' = next + Cardinality(items)
    PROVE  TableIs(edited \cup NewRows(items, rate), want, next')
<1>1. PICK new : new = NewRows(items, rate)
  OBVIOUS
<1>2. /\ Cardinality(items) \in Nat
      /\ \A l \in NewRows(items, rate) :
           /\ l = Row(l.item, l.rate, l.id) /\ l.item \in items /\ l.rate = rate[l.item]
           /\ l.id \in Nat /\ next <= l.id /\ l.id < next + Cardinality(items)
      /\ \A i \in items : \E l \in NewRows(items, rate) : l.item = i
      /\ \A l, m \in NewRows(items, rate) : l.item = m.item \/ l.id = m.id => l = m
  BY NewRowsAre
<1>3. /\ Cardinality(items) \in Nat
      /\ \A l \in new : /\ l = Row(l.item, l.rate, l.id) /\ l.item \in items /\ l.rate = want[l.item]
                        /\ l.id \in Nat /\ next <= l.id /\ l.id < next'
      /\ \A i \in items : \E l \in new : l.item = i
      /\ \A l, m \in new : l.item = m.item \/ l.id = m.id => l = m
  BY <1>1, <1>2
<1>4. \A m \in edited : \E l \in old :
        m = Row(l.item, want[l.item], l.id) /\ m.item = l.item /\ m.id = l.id /\ m.rate = want[l.item]
        /\ l.item \in DOMAIN want
  BY DEF Row
<1>5. /\ \A l \in old : l.id \in Nat /\ l.id < next
      /\ \A l, m \in old : l.item = m.item \/ l.id = m.id => l = m
  BY DEF TableIs
<1>6. next' \in Nat /\ next <= next'
  BY <1>3
<1>7. \A m \in edited : /\ m = Row(m.item, m.rate, m.id) /\ m.id \in Nat /\ m.id < next
                        /\ m.item \in DOMAIN want /\ m.item \notin items /\ m.rate = want[m.item]
  <2>1. TAKE m \in edited
  <2>2. PICK l \in old : m = Row(l.item, want[l.item], l.id) /\ m.item = l.item /\ m.id = l.id
                         /\ m.rate = want[l.item] /\ l.item \in DOMAIN want
    BY <1>4
  <2>3. QED
    BY <1>5, <2>2
<1>8. \A m, n \in edited : m.item = n.item \/ m.id = n.id => m = n
  <2>1. TAKE m \in edited, n \in edited
  <2>2. PICK l \in old : m = Row(l.item, want[l.item], l.id) /\ m.item = l.item /\ m.id = l.id
    BY <1>4
  <2>3. PICK k \in old : n = Row(k.item, want[k.item], k.id) /\ n.item = k.item /\ n.id = k.id
    BY <1>4
  <2>4. QED
    BY <1>5, <2>2, <2>3
<1>9. ASSUME NEW m \in edited, NEW n \in new PROVE m.item # n.item /\ m.id # n.id
  BY <1>3, <1>6, <1>7
<1>10. \A m, n \in edited \cup new : m.item = n.item \/ m.id = n.id => m = n
  BY <1>3, <1>8, <1>9
<1>11. \A m \in edited \cup new : /\ m = Row(m.item, m.rate, m.id) /\ m.id \in Nat /\ m.id < next'
                                  /\ m.item \in DOMAIN want /\ m.rate = want[m.item]
  BY <1>3, <1>6, <1>7
<1>12. \A i \in DOMAIN want : \E m \in edited \cup new : m.item = i
  <2>1. TAKE i \in DOMAIN want
  <2>2. i \in items \/ \E m \in edited : m.item = i
    OBVIOUS
  <2>3. QED
    BY <1>3, <2>2
<1>13. QED
  BY <1>1, <1>10, <1>11, <1>12 DEF TableIs

LEMMA TableRaised ==
    ASSUME NEW table, NEW want, NEW n \in Nat, NEW m \in Nat, TableIs(table, want, n), n <= m
    PROVE  TableIs(table, want, m)
  BY DEF TableIs

LEMMA TableSize ==
    ASSUME NEW table, NEW want, NEW n, TableIs(table, want, n)
    PROVE  /\ {<<l.item, l.rate>> : l \in table} = {<<i, want[i]>> : i \in DOMAIN want}
           /\ Cardinality(table) = Cardinality(DOMAIN want)
<1>1. {<<l.item, l.rate>> : l \in table} = {<<i, want[i]>> : i \in DOMAIN want}
  <2>1. ASSUME NEW l \in table PROVE <<l.item, l.rate>> \in {<<i, want[i]>> : i \in DOMAIN want}
    BY DEF TableIs
  <2>2. ASSUME NEW i \in DOMAIN want PROVE <<i, want[i]>> \in {<<l.item, l.rate>> : l \in table}
    <3>1. PICK l \in table : l.item = i /\ l.rate = want[i]
      BY DEF TableIs
    <3>2. QED
      BY <3>1
  <2>3. QED
    BY <2>1, <2>2
<1>2. PICK f : f = [i \in DOMAIN want |-> CHOOSE l \in table : l.item = i]
  OBVIOUS
<1>3. \A i \in DOMAIN want : f[i] \in table /\ f[i].item = i
  <2>1. \A i \in DOMAIN want : \E l \in table : l.item = i
    BY DEF TableIs
  <2>2. QED
    BY <1>2, <2>1
<1>4. /\ f \in [DOMAIN want -> table]
      /\ \A x, y \in DOMAIN want : f[x] = f[y] => x = y
      /\ \A l \in table : \E x \in DOMAIN want : f[x] = l
  <2>1. f \in [DOMAIN want -> table]
    BY <1>2, <1>3
  <2>2. \A x, y \in DOMAIN want : f[x] = f[y] => x = y
    BY <1>3
  <2>3. \A l \in table : l.item \in DOMAIN want /\ f[l.item] = l
    BY <1>3 DEF TableIs
  <2>4. QED
    BY <2>1, <2>2, <2>3
<1>5. IsFiniteSet(DOMAIN want)
  BY DEF TableIs
<1>6. Cardinality(table) = Cardinality(DOMAIN want)
  BY <1>4, <1>5, SameSize
<1>7. QED
  BY <1>1, <1>6

LEMMA TableStarts ==
    ASSUME next \in Nat, NEW items, IsFiniteSet(items), NEW rate, NEW want,
           \A i : i \in DOMAIN want <=> i \in items, \A i \in items : rate[i] = want[i]
    PROVE  TableIs(NewRows(items, rate), want, next + Cardinality(items))
<1>1. PICK new : new = NewRows(items, rate)
  OBVIOUS
<1>2. /\ Cardinality(items) \in Nat
      /\ \A l \in NewRows(items, rate) :
           /\ l = Row(l.item, l.rate, l.id) /\ l.item \in items /\ l.rate = rate[l.item]
           /\ l.id \in Nat /\ next <= l.id /\ l.id < next + Cardinality(items)
      /\ \A i \in items : \E l \in NewRows(items, rate) : l.item = i
      /\ \A l, m \in NewRows(items, rate) : l.item = m.item \/ l.id = m.id => l = m
  BY NewRowsAre
<1>3. /\ \A l \in new : /\ l = Row(l.item, l.rate, l.id) /\ l.id \in Nat /\ l.id < next + Cardinality(items)
                        /\ l.item \in DOMAIN want /\ l.rate = want[l.item]
      /\ \A i \in DOMAIN want : \E l \in new : l.item = i
      /\ \A l, m \in new : l.item = m.item \/ l.id = m.id => l = m
  BY <1>1, <1>2
<1>4. DOMAIN want = items
  OBVIOUS
<1>5. QED
  BY <1>1, <1>3, <1>4 DEF TableIs

-----------------------------------------------------------------------------
(* Creation and edits of the campaign and the rule.                        *)

LEMMA CreatesKeepTables ==
    ASSUME BaseInv, TableInv, CreateCampaign \/ CreateRule
    PROVE  TableInv'
<1>1. /\ next \in Nat /\ UNCHANGED req /\ (~overlap' => ~overlap /\ AllIdle)
  BY CallMeets DEF BaseInv, CreateCampaign, CreateRule
<1>2. next' \in Nat /\ next <= next'
  BY CallsKeepForms DEF Grows
<1>3. CASE CreateCampaign
  <2>1. PICK form \in CampaignForms :
          /\ links' = NewRows(AllItems(form), RateIn(form))
          /\ next' = next + Cardinality(AllItems(form))
          /\ asked' = [i \in AllItems(form) |-> RateIn(form)[i]]
    BY <1>3 DEF CreateCampaign, Remember
  <2>2. PICK items, rate : items = AllItems(form) /\ rate = RateIn(form)
    OBVIOUS
  <2>3. IsFiniteSet(items)
    BY <2>2, CampaignItems
  <2>4. PICK want : want = asked' /\ DOMAIN want = items /\ \A i \in items : rate[i] = want[i]
    BY <2>1, <2>2
  <2>5. TableIs(NewRows(items, rate), want, next + Cardinality(items))
    BY <1>1, <2>3, <2>4, TableStarts
  <2>6. TableIs(links', asked', next')
    BY <2>1, <2>2, <2>4, <2>5
  <2>7. UNCHANGED <<rates, ratesAsked>>
    BY <1>3 DEF CreateCampaign, ruleVars
  <2>8. ~overlap' => TableIs(rates', ratesAsked', next')
    <3>1. ~overlap' => TableIs(rates, ratesAsked, next)
      BY <1>1 DEF TableInv
    <3>2. QED
      BY <1>1, <1>2, <2>7, <3>1, TableRaised
  <2>9. QED
    BY <1>1, <2>6, <2>8 DEF TableInv, AllIdle
<1>4. CASE CreateRule
  <2>1. PICK form \in RuleForms :
          /\ rates' = NewRows(DOMAIN form.tiers, RatesOf(form))
          /\ next' = next + Cardinality(DOMAIN form.tiers)
          /\ ratesAsked' = RatesOf(form)
    BY <1>4 DEF CreateRule
  <2>2. PICK items, rate : items = DOMAIN form.tiers /\ rate = RatesOf(form)
    OBVIOUS
  <2>3. IsFiniteSet(items)
    BY <2>2, CatalogueAssumption
  <2>4. PICK want : want = ratesAsked' /\ DOMAIN want = items /\ \A i \in items : rate[i] = want[i]
    BY <2>1, <2>2 DEF RatesOf
  <2>5. TableIs(NewRows(items, rate), want, next + Cardinality(items))
    BY <1>1, <2>3, <2>4, TableStarts
  <2>6. TableIs(rates', ratesAsked', next')
    BY <2>1, <2>2, <2>4, <2>5
  <2>7. UNCHANGED <<links, asked>>
    BY <1>4 DEF CreateRule, campaignVars
  <2>8. ~overlap' => TableIs(links', asked', next')
    <3>1. ~overlap' => TableIs(links, asked, next)
      BY <1>1 DEF TableInv
    <3>2. QED
      BY <1>1, <1>2, <2>7, <3>1, TableRaised
  <2>9. QED
    BY <1>1, <2>6, <2>8 DEF TableInv, AllIdle
<1>5. QED
  BY <1>3, <1>4

(* An edit of the campaign, when nobody else is at work.                   *)
LEMMA CampaignCommitsTable ==
    ASSUME BaseInv, Solo, TableInv, NEW r \in Requests, CommitCampaign(r)
    PROVE  TableInv'
<1>1. PICK q : q = req[r] /\ q.pc = "campaign" /\ FormIn(q)
  BY DEF CommitCampaign, At, BaseInv
<1>2. PICK form, want, new : form = q.form /\ want = Wanted(form) /\ new = want \ Items(q.rows)
  OBVIOUS
<1>3. /\ links' = {Rerated(l, q.rows, form) : l \in Kept(q.rows, form)} \cup NewRows(new, RateIn(form))
      /\ next' = next + Cardinality(new)
      /\ asked' = [i \in want |-> RateIn(form)[i]]
      /\ req' = [req EXCEPT ![r] = Idle] /\ overlap' = overlap /\ UNCHANGED <<rates, ratesAsked>>
  BY <1>1, <1>2 DEF CommitCampaign, Remember, Return, ruleVars
<1>4. next \in Nat /\ next' \in Nat /\ next <= next' /\ DOMAIN req = Requests
  BY StepsKeepForms DEF BaseInv, Grows
<1>5. ASSUME ~overlap'
      PROVE  /\ TableIs(links', asked', next') /\ TableIs(rates', ratesAsked', next')
             /\ \A s \in Requests : req'[s].pc = "idle"
  <2>1. q.rows = links /\ TableIs(links, asked, next) /\ TableIs(rates, ratesAsked, next)
    BY <1>1, <1>3, <1>5 DEF TableInv
  <2>2. \A s \in Requests : req'[s].pc = "idle"
    BY <1>1, <1>3, <1>4, <1>5, StepMeets DEF Others, Idle
  <2>3. TableIs(rates', ratesAsked', next')
    BY <1>3, <1>4, <2>1, TableRaised
  <2>4. PICK now, rate : now = asked' /\ rate = RateIn(form)
    OBVIOUS
  <2>5. DOMAIN now = want /\ \A i \in want : rate[i] = now[i]
    BY <1>3, <2>4
  <2>6. form \in CampaignForms
    BY <1>1, <1>2 DEF FormIn
  <2>7. IsFiniteSet(want) /\ IsFiniteSet(new) /\ new \subseteq want
    <3>1. IsFiniteSet(want) /\ new \subseteq want
      BY <1>2, <2>6, CampaignItems
    <3>2. QED
      BY <3>1, FS_Subset
  <2>8. /\ \A l \in links : l = Row(l.item, l.rate, l.id)
        /\ \A l, m \in links : l.item = m.item \/ l.id = m.id => l = m
    BY <2>1 DEF TableIs
  <2>9. \A l \in links : l \in Kept(q.rows, form) <=> l.item \in want
    <3>1. TAKE l \in links
    <3>2. \A o \in q.rows : o.id = l.id <=> o = l
      BY <2>1, <2>8
    <3>3. QED
      BY <1>2, <2>1, <3>2 DEF Kept
  <2>10. \A l \in links : l.item \in want => Rerated(l, q.rows, form) = Row(l.item, now[l.item], l.id)
    <3>1. TAKE l \in links
    <3>2. HAVE l.item \in want
    <3>3. \A o \in q.rows : o.id = l.id <=> o = l
      BY <2>1, <2>8
    <3>4. rate[l.item] = now[l.item]
      BY <2>5, <3>2
    <3>5. CASE l.rate # rate[l.item]
      <4>1. Rerated(l, q.rows, form) = [l EXCEPT !.rate = rate[l.item]]
        BY <2>1, <2>4, <3>3, <3>5 DEF Rerated
      <4>2. QED
        BY <2>8, <3>4, <4>1 DEF Row
    <3>6. CASE l.rate = rate[l.item]
      <4>1. Rerated(l, q.rows, form) = l
        BY <2>1, <2>4, <3>3, <3>6 DEF Rerated
      <4>2. QED
        BY <2>8, <3>4, <3>6, <4>1
    <3>7. QED
      BY <3>5, <3>6
  <2>11. PICK edited : edited = {Rerated(l, q.rows, form) : l \in Kept(q.rows, form)}
    OBVIOUS
  <2>12. Kept(q.rows, form) \subseteq links
    BY DEF Kept
  <2>13. /\ \A m \in edited : \E l \in links : m = Row(l.item, now[l.item], l.id) /\ l.item \in want
         /\ \A l \in links : l.item \in want => Row(l.item, now[l.item], l.id) \in edited
    BY <2>9, <2>10, <2>11, <2>12
  <2>14. \A l \in links : l.item \notin new
    BY <1>2, <2>1 DEF Items
  <2>15. DOMAIN now = {m.item : m \in edited} \cup new
    <3>1. ASSUME NEW i \in want PROVE i \in new \/ \E m \in edited : m.item = i
      <4>1. CASE i \in new
        BY <4>1
      <4>2. CASE i \notin new
        <5>1. PICK l \in links : l.item = i
          BY <1>2, <2>1, <3>1, <4>2 DEF Items
        <5>2. Row(i, now[i], l.id) \in edited /\ Row(i, now[i], l.id).item = i
          BY <2>13, <3>1, <5>1 DEF Row
        <5>3. QED
          BY <5>2
      <4>3. QED
        BY <4>1, <4>2
    <3>2. \A m \in edited : m.item \in want
      BY <2>13 DEF Row
    <3>3. QED
      BY <2>5, <2>7, <3>1, <3>2
  <2>16. TableIs(edited \cup NewRows(new, rate), now, next')
    <3>1. /\ IsFiniteSet(DOMAIN now) /\ \A i \in new : rate[i] = now[i]
          /\ \A m \in edited : \E l \in links : m = Row(l.item, now[l.item], l.id) /\ l.item \in DOMAIN now
      BY <2>5, <2>7, <2>13
    <3>2. QED
      BY <1>3, <1>4, <2>1, <2>7, <2>14, <2>15, <3>1, TableGrows
  <2>17. QED
    BY <1>3, <2>2, <2>3, <2>4, <2>11, <2>16
<1>6. QED
  BY <1>5 DEF TableInv

(* An edit of the rule.                                                    *)
LEMMA RuleCommitsTable ==
    ASSUME BaseInv, Solo, TableInv, NEW r \in Requests, CommitRule(r)
    PROVE  TableInv'
<1>1. PICK q : q = req[r] /\ q.pc = "rule" /\ FormIn(q)
  BY DEF CommitRule, At, BaseInv
<1>2. PICK form, new : form = q.form /\ new = DOMAIN form.tiers \ Items(q.rows)
  OBVIOUS
<1> DEFINE saved(l) == \E o \in q.rows : /\ o.id = l.id /\ o.item \in DOMAIN form.tiers
                                         /\ o.rate # Edited(o.rate, form.tiers[o.item])
           after(l) == IF saved(l) THEN [l EXCEPT !.rate = Edited(@, form.tiers[l.item])] ELSE l
           nowFor(t) == IF t \notin DOMAIN ratesAsked THEN RatesOf(form)[t]
                        ELSE IF t \notin DOMAIN form.tiers \/ form.tiers[t] = Omitted
                               THEN ratesAsked[t] ELSE form.tiers[t]
<1>3. /\ rates' = {after(l) : l \in rates} \cup NewRows(new, RatesOf(form))
      /\ next' = next + Cardinality(new)
      /\ ratesAsked' = [t \in DOMAIN ratesAsked \cup DOMAIN form.tiers |-> nowFor(t)]
      /\ req' = [req EXCEPT ![r] = Idle] /\ overlap' = overlap /\ UNCHANGED <<links, asked>>
  BY <1>1, <1>2 DEF CommitRule, Return, campaignVars
<1>4. next \in Nat /\ next' \in Nat /\ next <= next' /\ DOMAIN req = Requests
  BY StepsKeepForms DEF BaseInv, Grows
<1>5. ASSUME ~overlap'
      PROVE  /\ TableIs(links', asked', next') /\ TableIs(rates', ratesAsked', next')
             /\ \A s \in Requests : req'[s].pc = "idle"
  <2>1. q.rows = rates /\ TableIs(links, asked, next) /\ TableIs(rates, ratesAsked, next)
    BY <1>1, <1>3, <1>5 DEF TableInv
  <2>2. \A s \in Requests : req'[s].pc = "idle"
    BY <1>1, <1>3, <1>4, <1>5, StepMeets DEF Others, Idle
  <2>3. TableIs(links', asked', next')
    BY <1>3, <1>4, <2>1, TableRaised
  <2>4. PICK now, rate : now = ratesAsked' /\ rate = RatesOf(form)
    OBVIOUS
  <2>5. /\ DOMAIN now = DOMAIN ratesAsked \cup DOMAIN form.tiers
        /\ \A t \in DOMAIN now : now[t] = nowFor(t)
    BY <1>3, <2>4
  <2>6. IsFiniteSet(DOMAIN form.tiers) /\ IsFiniteSet(DOMAIN ratesAsked)
    BY <1>1, <1>2, <2>1, CatalogueAssumption DEF FormIn, TableIs
  <2>7. IsFiniteSet(DOMAIN now) /\ IsFiniteSet(new)
    <3>1. new \subseteq DOMAIN form.tiers
      BY <1>2
    <3>2. QED
      BY <2>5, <2>6, <3>1, FS_Union, FS_Subset
  <2>8. /\ \A l \in rates : /\ l = Row(l.item, l.rate, l.id)
                            /\ l.item \in DOMAIN ratesAsked /\ l.rate = ratesAsked[l.item]
        /\ \A i \in DOMAIN ratesAsked : \E l \in rates : l.item = i
        /\ \A l, m \in rates : l.item = m.item \/ l.id = m.id => l = m
    BY <2>1 DEF TableIs
  <2>9. \A l \in rates : after(l) = Row(l.item, now[l.item], l.id)
    <3>1. TAKE l \in rates
    <3>2. now[l.item] = IF l.item \notin DOMAIN form.tiers \/ form.tiers[l.item] = Omitted
                          THEN l.rate ELSE form.tiers[l.item]
      BY <2>5, <2>8
    <3>3. saved(l) <=> l.item \in DOMAIN form.tiers /\ l.rate # Edited(l.rate, form.tiers[l.item])
      <4>1. \A o \in q.rows : o.id = l.id <=> o = l
        BY <2>1, <2>8
      <4>2. QED
        BY <2>1, <4>1
    <3> HIDE DEF saved
    <3>4. CASE saved(l)
      <4>1. after(l) = [l EXCEPT !.rate = Edited(l.rate, form.tiers[l.item])]
        BY <2>8, <3>4 DEF Row
      <4>2. Edited(l.rate, form.tiers[l.item]) = now[l.item]
        BY <3>2, <3>3, <3>4 DEF Edited
      <4>3. QED
        BY <2>8, <4>1, <4>2 DEF Row
    <3>5. CASE ~saved(l)
      <4>1. after(l) = l
        BY <3>5
      <4>2. l.rate = now[l.item]
        BY <3>2, <3>3, <3>5 DEF Edited
      <4>3. QED
        BY <2>8, <4>1, <4>2
    <3>6. QED
      BY <3>4, <3>5
  <2>10. PICK edited : edited = {after(l) : l \in rates}
    OBVIOUS
  <2> HIDE DEF after
  <2>11. /\ \A m \in edited : \E l \in rates : m = Row(l.item, now[l.item], l.id) /\ l.item \in DOMAIN now
         /\ \A l \in rates : Row(l.item, now[l.item], l.id) \in edited
    BY <2>5, <2>8, <2>9, <2>10
  <2>12. \A l \in rates : l.item \notin new
    BY <1>2, <2>1 DEF Items
  <2>13. new = DOMAIN form.tiers \ DOMAIN ratesAsked
    BY <1>2, <2>1, <2>8 DEF Items
  <2>14. DOMAIN now = {m.item : m \in edited} \cup new
    <3>1. ASSUME NEW i \in DOMAIN ratesAsked PROVE \E m \in edited : m.item = i
      <4>1. PICK l \in rates : l.item = i
        BY <2>8
      <4>2. Row(i, now[i], l.id) \in edited /\ Row(i, now[i], l.id).item = i
        BY <2>11, <4>1 DEF Row
      <4>3. QED
        BY <4>2
    <3>2. \A m \in edited : m.item \in DOMAIN ratesAsked
      BY <2>8, <2>11 DEF Row
    <3>3. QED
      BY <2>5, <2>13, <3>1, <3>2
  <2>15. \A i \in new : rate[i] = now[i]
    BY <2>4, <2>5, <2>13
  <2>16. TableIs(edited \cup NewRows(new, rate), now, next')
    BY <1>3, <1>4, <2>1, <2>7, <2>11, <2>12, <2>14, <2>15, TableGrows
  <2>17. QED
    BY <1>3, <2>2, <2>3, <2>4, <2>10, <2>16
<1>6. QED
  BY <1>5 DEF TableInv

(* All the other steps.                                                    *)
LEMMA TablesStay ==
    ASSUME BaseInv, Solo, TableInv, Grows, UNCHANGED <<links, asked, rates, ratesAsked>>,
           ~overlap' => ~overlap,
           \A s \in Requests : \/ req'[s] = req[s]
                               \/ /\ req'[s].pc = "campaign" => req'[s].rows = links
                                  /\ req'[s].pc = "rule" => req'[s].rows = rates
    PROVE  TableInv'
<1>1. SUFFICES ASSUME ~overlap'
               PROVE  /\ TableIs(links', asked', next') /\ TableIs(rates', ratesAsked', next')
                      /\ \A s \in Requests : /\ req'[s].pc = "campaign" => req'[s].rows = links'
                                             /\ req'[s].pc = "rule" => req'[s].rows = rates'
  BY DEF TableInv
<1>2. /\ TableIs(links, asked, next) /\ TableIs(rates, ratesAsked, next)
      /\ \A s \in Requests : /\ req[s].pc = "campaign" => req[s].rows = links
                             /\ req[s].pc = "rule" => req[s].rows = rates
  BY <1>1 DEF TableInv
<1>3. next \in Nat /\ next' \in Nat /\ next <= next'
  BY DEF BaseInv, Grows
<1>4. TableIs(links, asked, next') /\ TableIs(rates, ratesAsked, next')
  BY <1>2, <1>3, TableRaised
<1>5. QED
  BY <1>2, <1>4

LEMMA TablesKept == BaseInv /\ Solo /\ TableInv /\ [Next]_vars => TableInv'
<1>1. SUFFICES ASSUME BaseInv, Solo, TableInv, [Next]_vars PROVE TableInv'
  OBVIOUS
<1>2. Grows
  BY <1>1, FormsKept
<1>3. CASE UNCHANGED vars
  BY <1>1, <1>2, <1>3, TablesStay DEF vars, campaignVars, ruleVars
<1>4. CASE \/ RemoveCampaign \/ RemoveRule \/ CreateBusinessOffer \/ RemoveOffer
           \/ RemoveMember \/ RemoveSegment
  <2>1. UNCHANGED <<links, asked, rates, ratesAsked>> /\ Call
    BY <1>4 DEF RemoveCampaign, RemoveRule, CreateBusinessOffer, RemoveOffer,
                RemoveMember, RemoveSegment, campaignVars, ruleVars
  <2>2. UNCHANGED req /\ (~overlap' => ~overlap)
    BY <2>1, CallMeets
  <2>3. QED
    BY <1>1, <1>2, <2>1, <2>2, TablesStay
<1>5. ASSUME NEW r \in Requests,
             \/ UpdateCampaign(r) \/ UpdateRule(r) \/ CreateOffer(r) \/ UpdateOffer(r)
             \/ CreateSegment(r) \/ UploadSegment(r) \/ UpdateSegment(r)
      PROVE  TableInv'
  <2>1. UNCHANGED <<links, asked, rates, ratesAsked>>
    BY <1>5 DEF UpdateCampaign, UpdateRule, CreateOffer, UpdateOffer, CreateSegment,
       UploadSegment,
                NewSegment, UpdateSegment, campaignVars, ruleVars
  <2>2. PICK g : /\ Begin(r, g)
                 /\ g.pc = "campaign" => g.rows = links
                 /\ g.pc = "rule" => g.rows = rates
    BY <1>5, BeginsWhat
  <2>3. /\ req'[r] = g /\ \A s \in Requests \ {r} : req'[s] = req[s]
        /\ ~overlap' => ~overlap
    BY <1>1, <2>2, BeginMeets
  <2>4. \A s \in Requests : \/ req'[s] = req[s]
                             \/ /\ req'[s].pc = "campaign" => req'[s].rows = links
                                /\ req'[s].pc = "rule" => req'[s].rows = rates
    BY <2>2, <2>3
  <2>5. QED
    BY <1>1, <1>2, <2>1, <2>3, <2>4, TablesStay
<1>6. ASSUME NEW r \in Requests, OpenOffer(r) PROVE TableInv'
  <2>1. UNCHANGED <<links, asked, rates, ratesAsked>>
    BY <1>6 DEF OpenOffer, campaignVars, ruleVars
  <2>2. CASE Call
    <3>1. UNCHANGED req /\ (~overlap' => ~overlap)
      BY <2>2, CallMeets
    <3>2. QED
      BY <1>1, <1>2, <2>1, <3>1, TablesStay
  <2>3. ASSUME NEW c, Begin(r, [pc |-> "pick", customer |-> c, source |-> offer.source]) PROVE TableInv'
    <3>1. PICK g : g = [pc |-> "pick", customer |-> c, source |-> offer.source]
      OBVIOUS
    <3>2. /\ req'[r] = g /\ \A s \in Requests \ {r} : req'[s] = req[s]
          /\ ~overlap' => ~overlap
      BY <1>1, <2>3, <3>1, BeginMeets
    <3>3. \A s \in Requests : req'[s] = req[s] \/ req'[s].pc = "pick"
      BY <3>1, <3>2
    <3>4. QED
      BY <1>1, <1>2, <2>1, <3>2, <3>3, TablesStay
  <2>4. QED
    BY <1>6, <2>2, <2>3 DEF OpenOffer
<1>7. ASSUME NEW r \in Requests,
             \/ FillOffer(r) \/ SyncOffer(r) \/ CommitOffer(r)
             \/ PickCode(r) \/ AssignCode(r) \/ GenerateCode(r)
             \/ LineFails(r) \/ AddMember(r) \/ InsertMember(r)
      PROVE  TableInv'
  <2>1. UNCHANGED <<links, asked, rates, ratesAsked>>
    BY <1>7 DEF FillOffer, SyncOffer, CommitOffer, PickCode, AssignCode, GenerateCode,
                LineFails, AddMember, InsertMember, campaignVars, ruleVars
  <2>2. overlap' = overlap /\ \A s \in Requests \ {r} : req'[s] = req[s]
    BY <1>1, <1>7, StepsInFlight
  <2>3. req'[r].pc # "campaign" /\ req'[r].pc # "rule"
    BY <1>1, <1>7, AfterStep
  <2>4. \A s \in Requests : \/ req'[s] = req[s]
                             \/ /\ req'[s].pc = "campaign" => req'[s].rows = links
                                /\ req'[s].pc = "rule" => req'[s].rows = rates
    BY <2>2, <2>3
  <2>5. QED
    BY <1>1, <1>2, <2>1, <2>2, <2>4, TablesStay
<1>8. QED
  BY <1>1, <1>3, <1>4, <1>5, <1>6, <1>7, CreatesKeepTables, CampaignCommitsTable,
     RuleCommitsTable DEF Next

(* After edits that did not overlap, a campaign's links are what its last  *)
(* form named and a rule's rates what its forms gave last, each once       *)
(* (AsAsked).                                                              *)
THEOREM EditsTakeEffect == Spec => []AsAsked
<1>1. Init => BaseInv /\ Solo /\ TableInv
  <2>1. Init => Solo
    BY DEF Init, Solo, Idle
  <2>2. Init => TableInv
    <3>1. \A n : TableIs({}, <<>>, n)
      BY FS_EmptySet DEF TableIs
    <3>2. QED
      BY <3>1 DEF Init, TableInv, Idle
  <2>3. QED
    BY <2>1, <2>2, InitForms
<1>2. BaseInv /\ Solo /\ TableInv /\ [Next]_vars => (BaseInv /\ Solo /\ TableInv)'
  BY FormsKept, SoloKept, TablesKept
<1>3. TableInv => AsAsked
  <2>1. SUFFICES ASSUME TableInv, ~overlap
                 PROVE  /\ {<<l.item, l.rate>> : l \in links} = {<<i, asked[i]>> : i \in DOMAIN asked}
                        /\ Cardinality(links) = Cardinality(DOMAIN asked)
                        /\ {<<l.item, l.rate>> : l \in rates} = {<<t, ratesAsked[t]>> : t \in DOMAIN ratesAsked}
                        /\ Cardinality(rates) = Cardinality(DOMAIN ratesAsked)
    BY DEF AsAsked, Calm
  <2>2. TableIs(links, asked, next) /\ TableIs(rates, ratesAsked, next)
    BY <2>1 DEF TableInv
  <2>3. QED
    BY <2>2, TableSize
<1>4. QED
  BY <1>1, <1>2, <1>3, PTL DEF Spec


-----------------------------------------------------------------------------
(* Links of an offer and what they issued.  A matching pairs each link of  *)
(* a segment with an issue to its customer so that a snapshot has either   *)
(* both or none of a pair.                                                 *)

Matches(f, L, I, S) ==
    /\ f \in [L -> I]
    /\ \A l, m \in L : f[l] = f[m] => l = m
    /\ \A i \in I : \E l \in L : f[l] = i
    /\ \A p \in S : \A l \in L : l \in p[1] <=> f[l] \in p[2]

LEMMA NothingMatches ==
    ASSUME NEW S
    PROVE  \E f : Matches(f, {}, {}, S)
<1>1. PICK f : f = [l \in {} |-> l]
  OBVIOUS
<1>2. f \in [{} -> {}]
  BY <1>1
<1>3. Matches(f, {}, {}, S)
  BY <1>2 DEF Matches
<1>4. QED
  BY <1>3

(* Fewer snapshots, and one more that is taken now.                        *)
LEMMA SnapshotMatches ==
    ASSUME NEW f, NEW L, NEW I, NEW S, Matches(f, L, I, S), NEW links2, L \subseteq links2,
           NEW issued2, I \subseteq issued2, NEW T, T \subseteq S \cup {<<links2, issued2>>}
    PROVE  Matches(f, L, I, T)
<1>1. /\ f \in [L -> I]
      /\ \A l, m \in L : f[l] = f[m] => l = m
      /\ \A i \in I : \E l \in L : f[l] = i
      /\ \A p \in S : \A l \in L : l \in p[1] <=> f[l] \in p[2]
  BY DEF Matches
<1>2. ASSUME NEW p \in T PROVE \A l \in L : l \in p[1] <=> f[l] \in p[2]
  <2>1. CASE p \in S
    BY <1>1, <2>1
  <2>2. CASE p = <<links2, issued2>>
    <3>1. p[1] = links2 /\ p[2] = issued2
      BY <2>2
    <3>2. QED
      BY <1>1, <3>1
  <2>3. QED
    BY <2>1, <2>2
<1>3. QED
  BY <1>1, <1>2 DEF Matches

(* What a snapshot has is dropped and withdrawn.                           *)
LEMMA WithdrawnMatches ==
    ASSUME NEW f, NEW L, NEW I, NEW S, Matches(f, L, I, S), NEW p \in S
    PROVE  \E g : Matches(g, L \ p[1], I \ p[2], S)
<1>1. /\ f \in [L -> I]
      /\ \A l, m \in L : f[l] = f[m] => l = m
      /\ \A i \in I : \E l \in L : f[l] = i
      /\ \A q \in S : \A l \in L : l \in q[1] <=> f[l] \in q[2]
  BY DEF Matches
<1>2. PICK K, J : K = L \ p[1] /\ J = I \ p[2]
  OBVIOUS
<1>3. PICK g : g = [l \in K |-> f[l]]
  OBVIOUS
<1>4. \A l \in K : l \in L /\ g[l] = f[l] /\ f[l] \in J
  BY <1>1, <1>2, <1>3
<1>5. g \in [K -> J]
  BY <1>3, <1>4
<1>6. \A i \in J : \E l \in K : g[l] = i
  <2>1. TAKE i \in J
  <2>2. PICK l \in L : f[l] = i
    BY <1>1, <1>2
  <2>3. l \in K
    BY <1>1, <1>2, <2>2
  <2>4. QED
    BY <1>4, <2>2, <2>3
<1>7. Matches(g, K, J, S)
  BY <1>1, <1>4, <1>5, <1>6 DEF Matches
<1>8. QED
  BY <1>2, <1>7

(* A link is added with what it issues.                                    *)
LEMMA AddedMatches ==
    ASSUME NEW f, NEW L, NEW I, NEW S, Matches(f, L, I, S), NEW a, a \notin L, NEW b, b \notin I,
           \A p \in S : a \notin p[1] /\ b \notin p[2]
    PROVE  \E g : Matches(g, L \cup {a}, I \cup {b}, S)
<1>1. /\ f \in [L -> I]
      /\ \A l, m \in L : f[l] = f[m] => l = m
      /\ \A i \in I : \E l \in L : f[l] = i
      /\ \A q \in S : \A l \in L : l \in q[1] <=> f[l] \in q[2]
  BY DEF Matches
<1>2. PICK K, J : K = L \cup {a} /\ J = I \cup {b}
  OBVIOUS
<1>3. PICK g : g = [l \in K |-> IF l = a THEN b ELSE f[l]]
  OBVIOUS
<1>4. g[a] = b /\ \A l \in L : l # a /\ g[l] = f[l] /\ g[l] \in I /\ g[l] # b
  BY <1>1, <1>2, <1>3
<1>5. g \in [K -> J]
  BY <1>1, <1>2, <1>3
<1>6. \A l, m \in K : g[l] = g[m] => l = m
  BY <1>1, <1>2, <1>4
<1>7. \A i \in J : \E l \in K : g[l] = i
  <2>1. a \in K /\ \A l \in L : l \in K
    BY <1>2
  <2>2. QED
    BY <1>1, <1>2, <1>4, <2>1
<1>8. \A p \in S : \A l \in K : l \in p[1] <=> g[l] \in p[2]
  BY <1>1, <1>2, <1>4
<1>9. QED
  BY <1>2, <1>5, <1>6, <1>7, <1>8 DEF Matches

-----------------------------------------------------------------------------
(* The snapshots of the edits in flight.  Until the offer is created there *)
(* is no link; a customer of exactly one segment who has not moved since   *)
(* has his issues matched with the links of his segment.                   *)

Edits(q) == q.pc \in {"sync", "commit"}
Job(q) == IF q.pc = "sync" THEN q ELSE q.job
Snaps == {<<Job(req[r]).links, Job(req[r]).issued>> : r \in {s \in Requests : Edits(req[s])}}

RowsOf(table, x) == {l \in table : l.item = x}
LinksOf(s) == {l \in offerLinks : l.item = s}
IssuesTo(c) == {i \in issued : i.item = c}
SoleMember(c, s) ==
    {m \in members : m.item[2] = c} = MemberRows(s, c) /\ Cardinality(MemberRows(s, c)) = 1

Matched == \A c \in Customers \ moved, s \in Segments :
              SoleMember(c, s) => \E f : Matches(f, LinksOf(s), IssuesTo(c), Snaps)

OfferRows ==
    /\ IsFiniteSet(offerLinks)
    /\ \A l \in offerLinks \cup issued : l.id \in Nat /\ l.id < next
    /\ \A p \in Snaps : \A l \in p[1] \cup p[2] : l.id \in Nat /\ l.id < next

OfferExists ==
    /\ offer # NoOffer => "status" \in DOMAIN offer /\ offer.status # "absent"
    /\ offer = NoOffer => /\ offerLinks = {} /\ issued = {}
                          /\ \A r \in Requests : req[r].pc \notin {"fill", "sync", "commit"}

OfferInv == OfferRows /\ OfferExists /\ Matched

LEMMA SoleMemberIs ==
    ASSUME BaseInv, NEW c, NEW s, SoleMember(c, s)
    PROVE  \E m \in members : m.item = <<s, c>> /\ \A n \in members : n.item[2] = c <=> n = m
<1>1. MemberRows(s, c) \subseteq members /\ IsFiniteSet(members)
  BY DEF BaseInv, MemberRows
<1>2. PICK M : M = MemberRows(s, c)
  OBVIOUS
<1>3. IsFiniteSet(M)
  BY <1>1, <1>2, FS_Subset
<1>4. PICK m : M = {m}
  BY <1>2, <1>3, FS_Singleton DEF SoleMember
<1>5. m \in members /\ m.item = <<s, c>>
  BY <1>2, <1>4 DEF MemberRows
<1>6. {n \in members : n.item[2] = c} = {m}
  BY <1>2, <1>4 DEF SoleMember
<1>7. QED
  BY <1>5, <1>6

(* Requests that take no snapshot, or one of what is so now.               *)
LEMMA SnapsStay ==
    ASSUME \A s \in Requests : \/ req'[s] = req[s]
                               \/ ~Edits(req'[s])
                               \/ Edits(req[s]) /\ Job(req'[s]) = Job(req[s])
                               \/ Job(req'[s]).links = offerLinks /\ Job(req'[s]).issued = issued
    PROVE  Snaps' \subseteq Snaps \cup {<<offerLinks, issued>>}
<1>1. SUFFICES ASSUME NEW p \in Snaps' PROVE p \in Snaps \/ p = <<offerLinks, issued>>
  OBVIOUS
<1>2. PICK s \in Requests : Edits(req'[s]) /\ p = <<Job(req'[s]).links, Job(req'[s]).issued>>
  BY <1>1 DEF Snaps, Edits, Job
<1>3. CASE Job(req'[s]).links = offerLinks /\ Job(req'[s]).issued = issued
  BY <1>2, <1>3
<1>4. CASE Edits(req[s]) /\ Job(req'[s]) = Job(req[s])
  BY <1>2, <1>4 DEF Snaps
<1>5. CASE req'[s] = req[s]
  BY <1>2, <1>5 DEF Snaps
<1>6. QED
  BY <1>2, <1>3, <1>4, <1>5

(* Steps that do not touch the offer's rows; whoever is the sole customer  *)
(* of a segment after such a step was so before, or there is no offer.     *)
LEMMA OfferStays ==
    ASSUME BaseInv, OfferInv, Grows, UNCHANGED <<offerLinks, issued>>, OfferExists',
           Snaps' \subseteq Snaps \cup {<<offerLinks, issued>>},
           \A c \in Customers \ moved' : \A s \in Segments :
              SoleMember(c, s)' => offer = NoOffer \/ (c \notin moved /\ SoleMember(c, s))
    PROVE  OfferInv'
<1>1. OfferRows'
  <2>1. /\ next \in Nat /\ next' \in Nat /\ next <= next'
        /\ IsFiniteSet(offerLinks)
        /\ \A l \in offerLinks \cup issued : l.id \in Nat /\ l.id < next
        /\ \A p \in Snaps : \A l \in p[1] \cup p[2] : l.id \in Nat /\ l.id < next
    BY DEF BaseInv, Grows, OfferInv, OfferRows
  <2>2. \A l \in offerLinks \cup issued : l.id \in Nat /\ l.id < next'
    BY <2>1
  <2>3. ASSUME NEW p \in Snaps' PROVE \A l \in p[1] \cup p[2] : l.id \in Nat /\ l.id < next'
    <3>1. CASE p \in Snaps
      BY <2>1, <3>1
    <3>2. CASE p = <<offerLinks, issued>>
      <4>1. p[1] = offerLinks /\ p[2] = issued
        BY <3>2
      <4>2. QED
        BY <2>2, <4>1
    <3>3. QED
      BY <2>3, <3>1, <3>2
  <2>4. QED
    BY <2>1, <2>2, <2>3 DEF OfferRows
<1>2. ASSUME NEW c \in Customers \ moved', NEW s \in Segments, SoleMember(c, s)'
      PROVE  \E f : Matches(f, LinksOf(s)', IssuesTo(c)', Snaps')
  <2>1. LinksOf(s)' = LinksOf(s) /\ IssuesTo(c)' = IssuesTo(c)
    BY DEF LinksOf, IssuesTo
  <2>2. CASE offer = NoOffer
    <3>1. LinksOf(s) = {} /\ IssuesTo(c) = {}
      BY <2>2 DEF OfferInv, OfferExists, LinksOf, IssuesTo
    <3>2. PICK S : S = Snaps'
      OBVIOUS
    <3>3. \E f : Matches(f, {}, {}, S)
      BY NothingMatches
    <3>4. QED
      BY <2>1, <3>1, <3>2, <3>3
  <2>3. CASE c \notin moved /\ SoleMember(c, s)
    <3>1. PICK f : Matches(f, LinksOf(s), IssuesTo(c), Snaps)
      BY <1>2, <2>3 DEF OfferInv, Matched
    <3>2. PICK L, I, S, T : L = LinksOf(s) /\ I = IssuesTo(c) /\ S = Snaps /\ T = Snaps'
      OBVIOUS
    <3>3. PICK A, B : A = offerLinks /\ B = issued
      OBVIOUS
    <3>4. L \subseteq A /\ I \subseteq B /\ T \subseteq S \cup {<<A, B>>}
      BY <3>2, <3>3 DEF LinksOf, IssuesTo
    <3>5. Matches(f, L, I, S)
      BY <3>1, <3>2
    <3>6. Matches(f, L, I, T)
      BY <3>4, <3>5, SnapshotMatches
    <3>7. QED
      BY <2>1, <3>2, <3>6
  <2>4. QED
    BY <1>2, <2>2, <2>3
<1>3. Matched'
  BY <1>2 DEF Matched
<1>4. QED
  BY <1>1, <1>3 DEF OfferInv

(* A form's links are added to those that are kept.                        *)
LEMMA AddMatches ==
    ASSUME BaseInv, OfferInv, NEW form \in OfferForms, NEW segs \in SUBSET Segments,
           NEW kl, kl \subseteq offerLinks, NEW ki, ki \subseteq issued, Add(form, segs, kl, ki),
           UNCHANGED <<members, moved>>, OfferExists', Snaps' \subseteq Snaps,
           \A c \in Customers \ moved : \A s \in Segments :
              SoleMember(c, s) =>
                \E f : Matches(f, RowsOf(kl, s), RowsOf(ki, c), Snaps)
    PROVE  OfferInv'
<1>1. next \in Nat /\ IsFiniteSet(members)
  BY DEF BaseInv
<1>2. Grows
  BY <1>1, AddGrows
<1>3. /\ \E n : offerLinks' = kl \cup n /\ LinksAdded(n, segs)
      /\ \E n : issued' = ki \cup n /\ IssuesAdded(n, segs)
  BY <1>1, AddGrows
<1>4. PICK new : offerLinks' = kl \cup new /\ LinksAdded(new, segs)
  BY <1>3
<1>12. PICK out : issued' = ki \cup out /\ IssuesAdded(out, segs)
  BY <1>3
<1>13. /\ IsFiniteSet(new)
       /\ \A l \in new : l.item \in segs /\ l.id \in Nat /\ next <= l.id /\ l.id < next'
       /\ \A s \in segs : \E l \in new : l.item = s
       /\ \A l, m \in new : l.item = m.item => l = m
  BY <1>4 DEF LinksAdded
<1>14. /\ \A l \in out : l.id \in Nat /\ next <= l.id /\ l.id < next'
       /\ \A l \in out : \E m \in MembersOf(segs) : l.item = m.item[2]
       /\ \A m \in MembersOf(segs) : \E l \in out : l.item = m.item[2]
       /\ \A l, k \in out :
            (\A m, n \in MembersOf(segs) : m.item[2] = l.item /\ n.item[2] = k.item => m = n)
              => l = k
  BY <1>12 DEF IssuesAdded
<1>5. /\ next' \in Nat /\ next <= next' /\ IsFiniteSet(offerLinks)
      /\ \A l \in offerLinks \cup issued : l.id \in Nat /\ l.id < next
      /\ \A p \in Snaps : \A l \in p[1] \cup p[2] : l.id \in Nat /\ l.id < next
  BY <1>2 DEF Grows, OfferInv, OfferRows
<1>6. OfferRows'
  <2>1. IsFiniteSet(kl)
    BY <1>5, FS_Subset
  <2>2. IsFiniteSet(offerLinks')
    BY <1>4, <1>13, <2>1, FS_Union
  <2>3. \A l \in offerLinks' \cup issued' : l.id \in Nat /\ l.id < next'
    BY <1>1, <1>4, <1>13, <1>12, <1>14, <1>5
  <2>4. \A p \in Snaps' : \A l \in p[1] \cup p[2] : l.id \in Nat /\ l.id < next'
    BY <1>1, <1>5
  <2>5. QED
    BY <2>2, <2>3, <2>4 DEF OfferRows
<1>7. ASSUME NEW c \in Customers \ moved, NEW s \in Segments, SoleMember(c, s)
      PROVE  \E f : Matches(f, LinksOf(s)', IssuesTo(c)', Snaps)
  <2>1. PICK L, I, S : L = {l \in kl : l.item = s} /\ I = {i \in ki : i.item = c} /\ S = Snaps
    OBVIOUS
  <2>2. PICK f : Matches(f, L, I, S)
    BY <1>7, <2>1 DEF RowsOf
  <2>3. PICK m \in members : m.item = <<s, c>> /\ \A n \in members : n.item[2] = c <=> n = m
    BY <1>7, SoleMemberIs
  <2>4. /\ LinksOf(s)' = L \cup {l \in new : l.item = s}
        /\ IssuesTo(c)' = I \cup {i \in out : i.item = c}
    BY <1>4, <1>13, <1>12, <1>14, <2>1 DEF LinksOf, IssuesTo
  <2>5. MembersOf(segs) \subseteq members /\ (m \in MembersOf(segs) <=> s \in segs)
    BY <2>3 DEF MembersOf
  <2>6. CASE s \in segs
    <3>1. PICK a \in new : a.item = s
      BY <1>4, <1>13, <2>6
    <3>2. PICK b \in out : b.item = c
      BY <1>12, <1>14, <2>3, <2>5, <2>6
    <3>3. {l \in new : l.item = s} = {a}
      BY <1>4, <1>13, <3>1
    <3>4. {i \in out : i.item = c} = {b}
      <4>1. ASSUME NEW i \in out, i.item = c PROVE i = b
        <5>1. \A j, k \in MembersOf(segs) : j.item[2] = i.item /\ k.item[2] = b.item => j = k
          BY <2>3, <2>5, <3>2, <4>1
        <5>2. QED
          BY <1>12, <1>14, <3>2, <5>1
      <4>2. QED
        BY <3>2, <4>1
    <3>5. a \notin L /\ b \notin I /\ \A p \in S : a \notin p[1] /\ b \notin p[2]
      <4>1. \A x : x \in offerLinks \/ x \in issued => ~(next <= x.id)
        BY <1>1, <1>5
      <4>2. \A p \in S : \A x : x \in p[1] \/ x \in p[2] => ~(next <= x.id)
        BY <1>1, <1>5, <2>1
      <4>3. next <= a.id /\ next <= b.id
        BY <1>4, <1>13, <1>12, <1>14
      <4>4. QED
        BY <2>1, <4>1, <4>2, <4>3
    <3>6. \E g : Matches(g, L \cup {a}, I \cup {b}, S)
      BY <2>2, <3>5, AddedMatches
    <3>7. QED
      BY <2>1, <2>4, <3>3, <3>4, <3>6
  <2>7. CASE s \notin segs
    <3>1. {l \in new : l.item = s} = {}
      BY <1>4, <1>13, <2>7
    <3>2. {i \in out : i.item = c} = {}
      BY <1>12, <1>14, <2>3, <2>5, <2>7
    <3>3. QED
      BY <2>1, <2>2, <2>4, <3>1, <3>2
  <2>8. QED
    BY <2>6, <2>7
<1>8. ASSUME NEW c \in Customers \ moved, NEW s \in Segments, SoleMember(c, s)
      PROVE  \E f : Matches(f, LinksOf(s)', IssuesTo(c)', Snaps')
  <2>1. PICK f : Matches(f, LinksOf(s)', IssuesTo(c)', Snaps)
    BY <1>7, <1>8
  <2>2. Matches(f, LinksOf(s)', IssuesTo(c)', Snaps')
    BY <2>1 DEF Matches
  <2>3. QED
    BY <2>2
<1>9. \A c, s : SoleMember(c, s)' = SoleMember(c, s)
  BY DEF SoleMember, MemberRows
<1>10. Matched'
  BY <1>8, <1>9 DEF Matched
<1>11. QED
  BY <1>6, <1>10 DEF OfferInv


(* Whether the offer exists, and which steps take a snapshot of it.        *)
LEMMA ExistsStays ==
    ASSUME OfferExists, UNCHANGED <<offer, offerLinks, issued>>,
           offer = NoOffer => \A r \in Requests : \/ req'[r] = req[r]
                                                  \/ req'[r].pc \notin {"fill", "sync", "commit"}
    PROVE  OfferExists'
<1>1. CASE offer = NoOffer
  BY <1>1 DEF OfferExists, NoOffer
<1>2. CASE offer # NoOffer
  BY <1>2 DEF OfferExists, NoOffer
<1>3. QED
  BY <1>1, <1>2

LEMMA SnapsShrink ==
    ASSUME \A s \in Requests : req'[s] = req[s] \/ ~Edits(req'[s])
    PROVE  Snaps' \subseteq Snaps
  BY DEF Snaps, Edits, Job

(* A step that leaves the offer, its rows and the segments' members alone. *)
LEMMA QuietStays ==
    ASSUME BaseInv, OfferInv, Grows, UNCHANGED <<offerLinks, issued, members, moved>>, OfferExists',
           Snaps' \subseteq Snaps \cup {<<offerLinks, issued>>}
    PROVE  OfferInv'
<1>1. \A c \in Customers \ moved' : \A s \in Segments :
         SoleMember(c, s)' => offer = NoOffer \/ (c \notin moved /\ SoleMember(c, s))
  <2>1. \A c, s : SoleMember(c, s)' = SoleMember(c, s)
    BY DEF SoleMember, MemberRows
  <2>2. QED
    BY <2>1
<1>2. UNCHANGED <<offerLinks, issued>>
  OBVIOUS
<1>3. QED
  BY <1>1, <1>2, OfferStays

(* A customer joins or leaves a segment: he has moved.                     *)
LEMMA MovesStay ==
    ASSUME BaseInv, OfferInv, Grows, UNCHANGED <<offer, offerLinks, issued>>,
           NEW x, members' = members \cup {x} \/ members' = members \ {x}, Move(x.item[2]),
           \A s \in Requests : req'[s] = req[s] \/ req'[s].pc \notin {"fill", "sync", "commit"}
    PROVE  OfferInv'
<1>1. moved' = IF offer = NoOffer THEN moved ELSE moved \cup {x.item[2]}
  BY DEF Move
<1>2. ASSUME NEW c \in Customers \ moved', NEW s \in Segments, SoleMember(c, s)', offer # NoOffer
      PROVE  c \notin moved /\ SoleMember(c, s)
  <2>1. c # x.item[2] /\ c \notin moved
    BY <1>1, <1>2
  <2>2. \A m : m.item[2] = c => (m \in members' <=> m \in members)
    BY <2>1
  <2>3. {m \in members' : m.item[2] = c} = {m \in members : m.item[2] = c}
    BY <2>2
  <2>4. \A m : m.item = <<s, c>> => m.item[2] = c
    OBVIOUS
  <2>5. MemberRows(s, c)' = MemberRows(s, c)
    BY <2>2, <2>4 DEF MemberRows
  <2>6. QED
    BY <1>2, <2>1, <2>3, <2>5 DEF SoleMember
<1>3. Snaps' \subseteq Snaps
  BY SnapsShrink DEF Edits
<1>4. OfferExists'
  BY ExistsStays DEF OfferInv
<1>5. UNCHANGED <<offerLinks, issued>> /\ Snaps' \subseteq Snaps \cup {<<offerLinks, issued>>}
  BY <1>3
<1>6. \A c \in Customers \ moved' : \A s \in Segments :
         SoleMember(c, s)' => offer = NoOffer \/ (c \notin moved /\ SoleMember(c, s))
  <2>1. ASSUME NEW c \in Customers \ moved', NEW s \in Segments, SoleMember(c, s)'
        PROVE  offer = NoOffer \/ (c \notin moved /\ SoleMember(c, s))
    <3>1. CASE offer # NoOffer
      <4>1. c \notin moved /\ SoleMember(c, s)
        BY <1>2, <2>1, <3>1
      <4>2. QED
        BY <4>1
    <3>2. QED
      BY <3>1
  <2>2. QED
    BY <2>1
<1>7. QED
  BY <1>4, <1>5, <1>6, OfferStays

(* What an edit makes of the row is there, as its copy was.                *)
LEMMA AppliedExists ==
    ASSUME NEW row, NEW form, row.status # "absent"
    PROVE  /\ "status" \in DOMAIN Applied(row, form) /\ Applied(row, form).status # "absent"
           /\ Applied(row, form) # NoOffer
<1>1. Applied(row, form).status = IF form.active THEN "active" ELSE row.status
  BY DEF Applied
<1>2. Applied(row, form).status # "absent"
  BY <1>1
<1>3. "status" \in DOMAIN Applied(row, form)
  BY DEF Applied
<1>4. QED
  BY <1>2, <1>3 DEF NoOffer

LEMMA MergedExists ==
    ASSUME "status" \in DOMAIN offer, offer.status # "absent", NEW copy, NEW form,
           offer' = Merged(copy, Applied(copy, form))
    PROVE  "status" \in DOMAIN offer' /\ offer'.status # "absent" /\ offer' # NoOffer
<1>1. PICK row : row = Applied(copy, form)
  OBVIOUS
<1>2. /\ "status" \in DOMAIN row
      /\ row.status = IF form.active THEN "active" ELSE copy.status
  BY <1>1 DEF Applied
<1>3. offer' = [f \in DOMAIN row |-> IF row[f] # copy[f] THEN row[f] ELSE offer[f]]
  BY <1>1 DEF Merged
<1>4. "status" \in DOMAIN offer' /\ offer'.status = IF row.status # copy.status THEN row.status ELSE offer.status
  BY <1>2, <1>3
<1>5. offer'.status # "absent"
  BY <1>2, <1>4
<1>6. QED
  BY <1>4, <1>5 DEF NoOffer

-----------------------------------------------------------------------------
(* The steps of an offer.                                                  *)

(* The form's links are added to all there are.                            *)
LEMMA FillKeepsOffer ==
    ASSUME BaseInv, OfferInv, Grows, NEW r \in Requests, FillOffer(r)
    PROVE  OfferInv'
<1>1. PICK form : form = req[r].form
  OBVIOUS
<1>2. form \in OfferForms /\ req[r].pc = "fill" /\ DOMAIN req = Requests
  BY <1>1 DEF FillOffer, At, BaseInv, FormIn
<1>3. UNCHANGED <<offer, members, moved>> /\ req' = [req EXCEPT ![r] = Idle]
  BY DEF FillOffer, Return, segmentVars
<1>4. req'[r] = Idle /\ \A s \in Requests \ {r} : req'[s] = req[s]
  BY <1>2, <1>3
<1>5. \A s \in Requests : req'[s] = req[s] \/ req'[s].pc = "idle"
  BY <1>4 DEF Idle
<1>6. offer # NoOffer /\ OfferExists'
  <2>1. offer # NoOffer
    BY <1>2 DEF OfferInv, OfferExists
  <2>2. QED
    BY <1>3, <2>1 DEF OfferInv, OfferExists
<1>7. Snaps' \subseteq Snaps
  BY <1>5, SnapsShrink DEF Edits
<1>8. PICK segs : segs = Addressed(form)
  OBVIOUS
<1>9. CASE Add(form, segs, offerLinks, issued)
  <2>1. segs \in SUBSET Segments
    BY <1>2, <1>8, CatalogueAssumption DEF Addressed
  <2>2. PICK L, I : L = offerLinks /\ I = issued
    OBVIOUS
  <2>3. \A c \in Customers \ moved : \A s \in Segments :
          SoleMember(c, s) => \E f : Matches(f, RowsOf(L, s), RowsOf(I, c), Snaps)
    BY <2>2 DEF OfferInv, Matched, LinksOf, IssuesTo, RowsOf
  <2>4. L \subseteq offerLinks /\ I \subseteq issued /\ Add(form, segs, L, I)
    BY <1>9, <2>2
  <2>5. UNCHANGED <<members, moved>>
    BY <1>3
  <2>6. QED
    BY <1>2, <1>6, <1>7, <2>1, <2>3, <2>4, <2>5, AddMatches
<1>10. CASE UNCHANGED <<offerLinks, issued>>
  <2>1. Snaps' \subseteq Snaps \cup {<<offerLinks, issued>>}
    BY <1>7
  <2>2. UNCHANGED <<offerLinks, issued, members, moved>>
    BY <1>3, <1>10
  <2>3. QED
    BY <1>6, <2>1, <2>2, QuietStays
<1>11. QED
  BY <1>1, <1>8, <1>9, <1>10 DEF FillOffer

(* What the edit's snapshot has of a dropped segment goes on both sides;   *)
(* whoever is in that segment only is withdrawn what it had issued.        *)
LEMMA DropMatches ==
    ASSUME BaseInv, OfferInv, NEW job, NEW p \in Snaps, p[1] = job.links, p[2] = job.issued, NEW drop,
           NEW c \in Customers \ moved, NEW s \in Segments, SoleMember(c, s),
           NEW kl, kl = offerLinks \ {l \in job.links : l.item \in drop},
           NEW ki, ki = issued \ Withdrawn(job, drop)
    PROVE  \E f : Matches(f, RowsOf(kl, s), RowsOf(ki, c), Snaps)
<1>1. PICK f : Matches(f, LinksOf(s), IssuesTo(c), Snaps)
  BY DEF OfferInv, Matched
<1>2. PICK m \in members : m.item = <<s, c>> /\ \A n \in members : n.item[2] = c <=> n = m
  BY SoleMemberIs
<1>3. c \in CustomersOf(drop) <=> s \in drop
  BY <1>2 DEF CustomersOf, MembersOf
<1>4. PICK L, I, S, K, J : /\ L = LinksOf(s) /\ I = IssuesTo(c) /\ S = Snaps
                           /\ K = RowsOf(kl, s) /\ J = RowsOf(ki, c)
  OBVIOUS
<1>5. CASE s \in drop
  <2>1. K = L \ p[1]
    BY <1>4, <1>5 DEF LinksOf, RowsOf
  <2>2. J = I \ p[2]
    BY <1>3, <1>4, <1>5 DEF IssuesTo, Withdrawn, RowsOf
  <2>3. Matches(f, L, I, S) /\ p \in S
    BY <1>1, <1>4
  <2>4. \E g : Matches(g, L \ p[1], I \ p[2], S)
    BY <2>3, WithdrawnMatches
  <2>5. QED
    BY <1>4, <2>1, <2>2, <2>4
<1>6. CASE s \notin drop
  <2>1. K = L
    BY <1>4, <1>6 DEF LinksOf, RowsOf
  <2>2. J = I
    BY <1>3, <1>4, <1>6 DEF IssuesTo, Withdrawn, RowsOf
  <2>3. QED
    BY <1>1, <1>4, <2>1, <2>2
<1>7. QED
  BY <1>5, <1>6

LEMMA CommitKeepsOffer ==
    ASSUME BaseInv, OfferInv, Grows, NEW r \in Requests, CommitOffer(r)
    PROVE  OfferInv'
<1>1. PICK job, form, found : job = req[r].job /\ form = job.form /\ found = req[r].linked
  OBVIOUS
<1>2. form \in OfferForms /\ req[r].pc = "commit" /\ DOMAIN req = Requests
  BY <1>1 DEF CommitOffer, At, BaseInv, FormIn
<1>3. UNCHANGED <<members, moved>> /\ req' = [req EXCEPT ![r] = Idle]
  BY DEF CommitOffer, Return, segmentVars
<1>4. req'[r] = Idle /\ \A s \in Requests \ {r} : req'[s] = req[s]
  BY <1>2, <1>3
<1>5. \A s \in Requests : req'[s] = req[s] \/ req'[s].pc = "idle"
  BY <1>4 DEF Idle
<1>6. offer # NoOffer /\ "status" \in DOMAIN offer /\ offer.status # "absent"
  BY <1>2 DEF OfferInv, OfferExists
<1>7. Snaps' \subseteq Snaps
  BY <1>5, SnapsShrink DEF Edits
<1>8. PICK drop, add : drop = Dropped(form, found) /\ add = form.segments \ found
  OBVIOUS
<1>9. PICK p : p = <<job.links, job.issued>>
  OBVIOUS
<1>10. p \in Snaps /\ p[1] = job.links /\ p[2] = job.issued
  BY <1>1, <1>2, <1>9 DEF Snaps, Edits, Job
<1>11. CASE /\ offer' = Merged(job.copy, Applied(job.copy, form))
            /\ Add(form, add, offerLinks \ {l \in job.links : l.item \in drop}, issued \ Withdrawn(job, drop))
  <2>1. add \in SUBSET Segments
    BY <1>2, <1>8, CatalogueAssumption
  <2>2. PICK L, I : L = offerLinks \ {l \in job.links : l.item \in drop} /\ I = issued \ Withdrawn(job, drop)
    OBVIOUS
  <2>3. \A c \in Customers \ moved : \A s \in Segments :
          SoleMember(c, s) => \E f : Matches(f, RowsOf(L, s), RowsOf(I, c), Snaps)
    <3>1. ASSUME NEW c \in Customers \ moved, NEW s \in Segments, SoleMember(c, s)
          PROVE  \E f : Matches(f, RowsOf(L, s), RowsOf(I, c), Snaps)
      BY <1>10, <2>2, <3>1, DropMatches
    <3>2. QED
      BY <3>1
  <2>4. L \subseteq offerLinks /\ I \subseteq issued /\ Add(form, add, L, I)
    BY <1>11, <2>2
  <2>5. UNCHANGED <<members, moved>>
    BY <1>3
  <2>6. "status" \in DOMAIN offer' /\ offer'.status # "absent" /\ offer' # NoOffer
    BY <1>6, <1>11, MergedExists
  <2>7. OfferExists'
    BY <2>6 DEF OfferExists
  <2>8. QED
    BY <1>2, <1>7, <2>1, <2>3, <2>4, <2>5, <2>7, AddMatches
<1>12. CASE UNCHANGED <<offer, offerLinks, issued>>
  <2>1. Snaps' \subseteq Snaps \cup {<<offerLinks, issued>>}
    BY <1>7
  <2>2. UNCHANGED <<offerLinks, issued, members, moved>>
    BY <1>3, <1>12
  <2>3. OfferExists'
    BY <1>6, <1>12 DEF OfferExists
  <2>4. QED
    BY <2>1, <2>2, <2>3, QuietStays
<1>13. QED
  BY <1>1, <1>8, <1>11, <1>12 DEF CommitOffer

(* A request begins; only an edit of the offer takes a snapshot.           *)
LEMMA BeginKeepsOffer ==
    ASSUME BaseInv, OfferInv, Grows, NEW r \in Requests,
           \/ UpdateCampaign(r) \/ UpdateRule(r) \/ CreateOffer(r) \/ UpdateOffer(r)
           \/ CreateSegment(r) \/ UploadSegment(r) \/ UpdateSegment(r)
    PROVE  OfferInv'
<1>1. UNCHANGED <<offerLinks, issued, members, moved>>
  BY DEF UpdateCampaign, UpdateRule, CreateOffer, UpdateOffer, CreateSegment, UploadSegment,
         NewSegment, UpdateSegment, offerVars, segmentVars
<1>2. UNCHANGED offer \/ CreateOffer(r)
  BY DEF UpdateCampaign, UpdateRule, UpdateOffer, CreateSegment, UploadSegment, NewSegment,
         UpdateSegment, offerVars
<1>3. PICK g : /\ Begin(r, g) /\ g.pc \in {"campaign", "rule", "fill", "sync", "members"}
               /\ g.pc = "campaign" => g.rows = links
               /\ g.pc = "rule" => g.rows = rates
               /\ g.pc = "sync" => offer # NoOffer /\ g.links = offerLinks /\ g.issued = issued
               /\ g.pc = "fill" => CreateOffer(r)
  BY BeginsWhat
<1>4. req'[r] = g /\ \A s \in Requests \ {r} : req'[s] = req[s]
  BY <1>3, BeginMeets
<1>5. \A s \in Requests : \/ req'[s] = req[s]
                          \/ ~Edits(req'[s])
                          \/ Edits(req[s]) /\ Job(req'[s]) = Job(req[s])
                          \/ Job(req'[s]).links = offerLinks /\ Job(req'[s]).issued = issued
  BY <1>3, <1>4 DEF Edits, Job
<1>6. Snaps' \subseteq Snaps \cup {<<offerLinks, issued>>}
  BY <1>5, SnapsStay
<1>7. OfferExists'
  <2>1. CASE CreateOffer(r)
    <3>1. PICK form : offer' = Applied([NoOffer EXCEPT !.status = "active"], form)
      BY <2>1 DEF CreateOffer
    <3>2. PICK row : row = [NoOffer EXCEPT !.status = "active"]
      OBVIOUS
    <3>3. row.status = "active"
      BY <3>2 DEF NoOffer
    <3>4. row.status # "absent" /\ offer' = Applied(row, form)
      BY <3>1, <3>2, <3>3
    <3>5. "status" \in DOMAIN offer' /\ offer'.status # "absent" /\ offer' # NoOffer
      BY <3>4, AppliedExists
    <3>6. QED
      BY <3>5 DEF OfferExists
  <2>2. CASE UNCHANGED offer /\ ~CreateOffer(r)
    <3>1. UNCHANGED <<offer, offerLinks, issued>>
      BY <1>1, <2>2
    <3>2. offer = NoOffer => \A s \in Requests : \/ req'[s] = req[s]
                                                 \/ req'[s].pc \notin {"fill", "sync", "commit"}
      BY <1>3, <1>4, <2>2
    <3>3. QED
      BY <3>1, <3>2, ExistsStays DEF OfferInv
  <2>3. QED
    BY <1>2, <2>1, <2>2
<1>8. QED
  BY <1>1, <1>6, <1>7, QuietStays

(* A customer opens the offer.                                             *)
LEMMA OpenKeepsOffer ==
    ASSUME BaseInv, OfferInv, Grows, NEW r \in Requests, OpenOffer(r)
    PROVE  OfferInv'
<1>1. UNCHANGED <<offer, offerLinks, issued>> /\ UNCHANGED <<offerLinks, issued, members, moved>>
  BY DEF OpenOffer, segmentVars
<1>2. \A s \in Requests : req'[s] = req[s] \/ req'[s].pc = "pick"
  <2>1. CASE Call
    BY <2>1 DEF Call
  <2>2. ASSUME NEW c, Begin(r, [pc |-> "pick", customer |-> c, source |-> offer.source])
        PROVE  \A s \in Requests : req'[s] = req[s] \/ req'[s].pc = "pick"
    <3>1. PICK g : g = [pc |-> "pick", customer |-> c, source |-> offer.source]
      OBVIOUS
    <3>2. Begin(r, g) /\ g.pc = "pick"
      BY <2>2, <3>1
    <3>3. req'[r] = g /\ \A s \in Requests \ {r} : req'[s] = req[s]
      BY <3>2, BeginMeets
    <3>4. QED
      BY <3>2, <3>3
  <2>3. QED
    BY <2>1, <2>2 DEF OpenOffer
<1>3. Snaps' \subseteq Snaps \cup {<<offerLinks, issued>>}
  BY <1>2, SnapsShrink DEF Edits
<1>4. OfferExists'
  <2>1. \A s \in Requests : \/ req'[s] = req[s]
                            \/ req'[s].pc \notin {"fill", "sync", "commit"}
    BY <1>2
  <2>2. QED
    BY <1>1, <2>1, ExistsStays DEF OfferInv
<1>5. QED
  BY <1>1, <1>3, <1>4, QuietStays

(* The other steps of requests in flight.                                  *)
LEMMA FlightKeepsOffer ==
    ASSUME BaseInv, OfferInv, Grows, NEW r \in Requests,
           \/ CommitCampaign(r) \/ CommitRule(r) \/ SyncOffer(r)
           \/ PickCode(r) \/ AssignCode(r) \/ GenerateCode(r) \/ LineFails(r) \/ AddMember(r)
    PROVE  OfferInv'
<1>1. UNCHANGED <<offer, offerLinks, issued>> /\ UNCHANGED <<offerLinks, issued, members, moved>>
  BY DEF CommitCampaign, CommitRule, SyncOffer, PickCode, AssignCode, GenerateCode, LineFails,
         AddMember, offerVars, segmentVars
<1>2. DOMAIN req = Requests /\ \A s \in Requests \ {r} : req'[s] = req[s]
  BY StepsInFlight DEF BaseInv
<1>3. /\ req'[r].pc \in {"idle", "commit", "assign", "members", "insert"}
      /\ req'[r].pc = "commit" => SyncOffer(r)
  BY AfterStep
<1>4. SyncOffer(r) => Edits(req[r]) /\ Job(req'[r]) = Job(req[r]) /\ offer # NoOffer
  <2>1. SUFFICES ASSUME SyncOffer(r) PROVE Edits(req[r]) /\ Job(req'[r]) = Job(req[r]) /\ offer # NoOffer
    OBVIOUS
  <2>2. PICK q, found : q = req[r] /\ found = Items(offerLinks)
    OBVIOUS
  <2>3. q.pc = "sync" /\ req' = [req EXCEPT ![r] = [pc |-> "commit", job |-> q, linked |-> found]]
    BY <2>1, <2>2 DEF SyncOffer, At
  <2>4. req'[r].pc = "commit" /\ req'[r].job = q
    BY <1>2, <2>3
  <2>5. Job(req'[r]) = q /\ Job(q) = q /\ Edits(q)
    BY <2>3, <2>4 DEF Job, Edits
  <2>6. offer # NoOffer
    BY <2>2, <2>3 DEF OfferInv, OfferExists
  <2>7. QED
    BY <2>2, <2>5, <2>6
<1>5. \A s \in Requests : \/ req'[s] = req[s]
                          \/ ~Edits(req'[s])
                          \/ Edits(req[s]) /\ Job(req'[s]) = Job(req[s])
                          \/ Job(req'[s]).links = offerLinks /\ Job(req'[s]).issued = issued
  BY <1>2, <1>3, <1>4 DEF Edits
<1>6. Snaps' \subseteq Snaps \cup {<<offerLinks, issued>>}
  BY <1>5, SnapsStay
<1>7. offer = NoOffer => \A s \in Requests : \/ req'[s] = req[s]
                                             \/ req'[s].pc \notin {"fill", "sync", "commit"}
  BY <1>2, <1>3, <1>4
<1>8. OfferExists'
  BY <1>1, <1>7, ExistsStays DEF OfferInv
<1>9. QED
  BY <1>1, <1>6, <1>8, QuietStays

LEMMA InsertKeepsOffer ==
    ASSUME BaseInv, OfferInv, Grows, NEW r \in Requests, InsertMember(r)
    PROVE  OfferInv'
<1>1. PICK s, c : s = req[r].job.segment /\ c = req[r].customer
  OBVIOUS
<1>2. PICK x : x = Row(<<s, c>>, None, next)
  OBVIOUS
<1>3. x.item[2] = c
  BY <1>2 DEF Row
<1>4. members' = members \cup {x} /\ Move(x.item[2])
  BY <1>1, <1>2, <1>3 DEF InsertMember
<1>5. UNCHANGED <<offer, offerLinks, issued>>
  BY DEF InsertMember, offerVars
<1>6. DOMAIN req = Requests /\ req[r].job.pc = "members" /\ req' = [req EXCEPT ![r] = req[r].job]
  BY DEF InsertMember, BaseInv, FormIn, At
<1>7. \A q \in Requests : req'[q] = req[q] \/ req'[q].pc = "members"
  BY <1>6
<1>8. \A q \in Requests : req'[q] = req[q] \/ req'[q].pc \notin {"fill", "sync", "commit"}
  BY <1>7
<1>9. QED
  BY <1>4, <1>5, <1>8, MovesStay

(* Calls of one step.                                                      *)
LEMMA CallsKeepOffer ==
    ASSUME BaseInv, OfferInv, Grows,
           \/ CreateCampaign \/ RemoveCampaign \/ CreateRule \/ RemoveRule
           \/ CreateBusinessOffer \/ RemoveOffer \/ RemoveMember \/ RemoveSegment \/ UNCHANGED vars
    PROVE  OfferInv'
<1>1. UNCHANGED req /\ UNCHANGED <<offerLinks, issued>>
  BY DEF CreateCampaign, RemoveCampaign, CreateRule, RemoveRule, CreateBusinessOffer,
     RemoveOffer,
         RemoveMember, RemoveSegment, Call, vars, offerVars
<1>2. \A s \in Requests : req'[s] = req[s]
  BY <1>1
<1>3. Snaps' \subseteq Snaps \cup {<<offerLinks, issued>>}
  BY <1>2, SnapsShrink
<1>4. CASE RemoveMember
  <2>1. PICK m \in members : members' = members \ {m} /\ Move(m.item[2])
    BY <1>4 DEF RemoveMember
  <2>2. UNCHANGED <<offer, offerLinks, issued>>
    BY <1>4 DEF RemoveMember, offerVars
  <2>3. QED
    BY <1>2, <2>1, <2>2, MovesStay
<1>5. CASE ~RemoveMember
  <2>1. UNCHANGED <<offerLinks, issued, members, moved>>
    BY <1>5 DEF CreateCampaign, RemoveCampaign, CreateRule, RemoveRule, CreateBusinessOffer,
                RemoveOffer, RemoveSegment, vars, offerVars, segmentVars
  <2>2. CASE UNCHANGED offer
    <3>1. UNCHANGED <<offer, offerLinks, issued>>
      BY <1>1, <2>2
    <3>2. OfferExists'
      BY <1>2, <3>1, ExistsStays DEF OfferInv
    <3>3. QED
      BY <1>3, <2>1, <3>2, QuietStays
  <2>3. CASE RemoveOffer \/ CreateBusinessOffer
    <3>1. offer'.status # "absent" /\ "status" \in DOMAIN offer'
      BY <2>3 DEF RemoveOffer, CreateBusinessOffer, OfferInv, OfferExists
    <3>2. offer' # NoOffer
      BY <3>1 DEF NoOffer
    <3>3. OfferExists'
      BY <3>1, <3>2 DEF OfferExists
    <3>4. QED
      BY <1>3, <2>1, <3>3, QuietStays
  <2>4. QED
    BY <1>5, <2>2, <2>3 DEF CreateCampaign, RemoveCampaign, CreateRule, RemoveRule,
       RemoveSegment, vars, offerVars
<1>6. QED
  BY <1>4, <1>5

LEMMA OfferKept == BaseInv /\ OfferInv /\ [Next]_vars => OfferInv'
<1>1. SUFFICES ASSUME BaseInv, OfferInv, [Next]_vars PROVE OfferInv'
  OBVIOUS
<1>2. Grows
  BY <1>1, FormsKept
<1>3. ASSUME NEW r \in Requests,
             \/ UpdateCampaign(r) \/ UpdateRule(r) \/ CreateOffer(r) \/ UpdateOffer(r)
             \/ CreateSegment(r) \/ UploadSegment(r) \/ UpdateSegment(r)
      PROVE  OfferInv'
  BY <1>1, <1>2, <1>3, BeginKeepsOffer
<1>4. ASSUME NEW r \in Requests,
             \/ CommitCampaign(r) \/ CommitRule(r) \/ SyncOffer(r)
             \/ PickCode(r) \/ AssignCode(r) \/ GenerateCode(r) \/ LineFails(r) \/ AddMember(r)
      PROVE  OfferInv'
  BY <1>1, <1>2, <1>4, FlightKeepsOffer
<1>5. ASSUME \/ CreateCampaign \/ RemoveCampaign \/ CreateRule \/ RemoveRule
             \/ CreateBusinessOffer \/ RemoveOffer \/ RemoveMember \/ RemoveSegment \/ UNCHANGED vars
      PROVE  OfferInv'
  BY <1>1, <1>2, <1>5, CallsKeepOffer
<1>6. ASSUME NEW r \in Requests, FillOffer(r) \/ CommitOffer(r) \/ OpenOffer(r) \/ InsertMember(r)
      PROVE  OfferInv'
  BY <1>1, <1>2, <1>6, FillKeepsOffer, CommitKeepsOffer, OpenKeepsOffer, InsertKeepsOffer
<1>7. QED
  BY <1>1, <1>3, <1>4, <1>5, <1>6 DEF Next

LEMMA InitOffer == Init => OfferInv
<1>1. SUFFICES ASSUME Init PROVE OfferInv
  OBVIOUS
<1>2. /\ offer = NoOffer /\ offerLinks = {} /\ issued = {}
      /\ \A r \in Requests : req[r].pc = "idle"
  BY <1>1 DEF Init, Idle
<1>3. Snaps = {}
  BY <1>2 DEF Snaps, Edits
<1>4. OfferRows /\ OfferExists
  BY <1>2, <1>3, FS_EmptySet DEF OfferRows, OfferExists
<1>5. ASSUME NEW c, NEW s PROVE \E f : Matches(f, LinksOf(s), IssuesTo(c), Snaps)
  <2>1. LinksOf(s) = {} /\ IssuesTo(c) = {}
    BY <1>2 DEF LinksOf, IssuesTo
  <2>2. QED
    BY <2>1, NothingMatches
<1>6. QED
  BY <1>4, <1>5 DEF OfferInv, Matched

(* A customer of exactly one segment has been issued the offer as often as *)
(* the segment is linked to it, also when edits of the offer overlap.      *)
THEOREM OfferIssuedWhereLinked == Spec => []IssuedWhereLinked
<1>1. Init => BaseInv /\ OfferInv
  BY InitForms, InitOffer
<1>2. BaseInv /\ OfferInv /\ [Next]_vars => (BaseInv /\ OfferInv)'
  BY FormsKept, OfferKept
<1>3. BaseInv /\ OfferInv => IssuedWhereLinked
  <2>1. SUFFICES ASSUME OfferInv, NEW c \in Customers \ moved, NEW s \in Segments, SoleMember(c, s)
                 PROVE  Cardinality(IssuesTo(c)) = Cardinality(LinksOf(s))
    BY DEF IssuedWhereLinked, IssuesTo, LinksOf, SoleMember
  <2>2. PICK f : Matches(f, LinksOf(s), IssuesTo(c), Snaps)
    BY <2>1 DEF OfferInv, Matched
  <2>3. PICK L, I : L = LinksOf(s) /\ I = IssuesTo(c)
    OBVIOUS
  <2>4. f \in [L -> I] /\ (\A l, m \in L : f[l] = f[m] => l = m) /\ \A i \in I : \E l \in L : f[l] = i
    BY <2>2, <2>3 DEF Matches
  <2>5. IsFiniteSet(L)
    BY <2>1, <2>3, FS_Subset DEF OfferInv, OfferRows, LinksOf
  <2>6. Cardinality(I) = Cardinality(L)
    BY <2>4, <2>5, SameSize
  <2>7. QED
    BY <2>3, <2>6
<1>4. QED
  BY <1>1, <1>2, <1>3, PTL DEF Spec

-----------------------------------------------------------------------------
(* The types of a coupon.                                                  *)

Statuses == {"absent", "active", "inactive", "deleted"}
Copies == [status : Statuses, used : Nat, allUsers : BOOLEAN, terms : Terms]

Writing == {"credit", "activity", "use", "count"}
Checks == [pc : {"check"}, cust : Users, path : Paths, copy : Copies]
WriteSteps == [pc : Writing, cust : Users, copy : Copies]
IssueSteps == [pc : {"issue"}, cust : Users]
UseHandlers == {Idle} \cup Checks \cup WriteSteps \cup IssueSteps

CouponTypes ==
    /\ coupon \in Copies
    /\ activities \in [Users -> Nat] /\ credits \in [Users -> Nat]
    /\ req \in [Requests -> UseHandlers]
    /\ failures \in Nat /\ raced \in BOOLEAN

LEMMA TermsAreNat ==
    ASSUME NEW terms \in Terms
    PROVE  terms.usageLimit \in Nat /\ terms.maxUsagePerUser \in Nat
  BY CouponsAssumption

LEMMA TotalIsNat ==
    ASSUME NEW f \in [Users -> Nat]
    PROVE  Total(f) \in Nat
<1>1. \A c \in Users : f[c] \in Nat
  OBVIOUS
<1>2. QED
  BY <1>1, SumIsNat, CouponsAssumption DEF Total

(* A step of one request that leaves it well formed.                       *)
LEMMA OneMoves ==
    ASSUME NEW r \in Requests, NEW h \in UseHandlers,
           req \in [Requests -> UseHandlers], req' = [req EXCEPT ![r] = h]
    PROVE  /\ req' \in [Requests -> UseHandlers] /\ req'[r] = h
           /\ \A q \in Requests \ {r} : req'[q] = req[q]
  OBVIOUS

LEMMA NewIsCopy ==
    ASSUME NEW all \in BOOLEAN, NEW terms \in Terms
    PROVE  New(all, terms) \in Copies
  BY DEF New, Copies, Statuses

(* What the step of a request that is writing does to it.                  *)
LEMMA AdvanceMoves ==
    ASSUME CouponTypes, NEW r \in Requests, req[r].pc \in {"credit", "activity", "use"},
           Advance(r)
    PROVE  \E h \in WriteSteps :
             /\ req' = [req EXCEPT ![r] = h]
             /\ req[r] \in WriteSteps
             /\ h.pc = After(req[r].pc)
             /\ h.cust = req[r].cust /\ h.copy = req[r].copy
<1>1. req[r] \in WriteSteps
  BY DEF CouponTypes, UseHandlers, Idle, Checks, IssueSteps
<1>2. PICK h : h = [req[r] EXCEPT !.pc = After(req[r].pc)]
  OBVIOUS
<1>3. After(req[r].pc) \in Writing
  BY DEF After, Writing
<1>4. /\ h \in WriteSteps /\ h.pc = After(req[r].pc)
      /\ h.cust = req[r].cust /\ h.copy = req[r].copy
  BY <1>1, <1>2, <1>3 DEF WriteSteps
<1>5. req' = [req EXCEPT ![r] = h]
  BY <1>2 DEF Advance
<1>6. QED
  BY <1>1, <1>4, <1>5

LEMMA IdleIsHandler == Idle \in UseHandlers /\ Idle.pc = "idle"
  BY DEF UseHandlers, Idle

-----------------------------------------------------------------------------
(* The actions, by what they do to the counters and to the requests.       *)

(* A request begins, is refused or admitted, or ends, or dies; the counters*)
(* stay.                                                                   *)
Moves(r, h) == req' = [req EXCEPT ![r] = h] /\ UNCHANGED <<credits, activities>>

LEMMA RedeemIs ==
    ASSUME CouponTypes, NEW r \in Requests, NEW c \in Users, Redeem(r, c)
    PROVE  /\ req[r] = Idle /\ coupon.status # "absent"
           /\ raced' = (raced \/ Busy) /\ UNCHANGED <<coupon, failures>>
           /\ \E h \in Checks : Moves(r, h) /\ h.cust = c /\ h.copy = coupon
<1>1. req[r] = Idle
  BY DEF Redeem, At, CouponTypes, UseHandlers, Checks, WriteSteps, Writing, IssueSteps
<1>2. PICK path \in Paths :
         req' = [req EXCEPT ![r] = [pc |-> "check", cust |-> c, path |-> path,
                                    copy |-> coupon]]
  BY DEF Redeem
<1>3. PICK h : h = [pc |-> "check", cust |-> c, path |-> path, copy |-> coupon]
  OBVIOUS
<1>4. h \in Checks /\ h.cust = c /\ h.copy = coupon
  BY <1>3 DEF Checks, CouponTypes
<1>5. Moves(r, h)
  BY <1>2, <1>3 DEF Moves, Redeem, tables
<1>6. QED
  BY <1>1, <1>4, <1>5 DEF Redeem, Touch, tables

LEMMA AdmittedIs ==
    ASSUME CouponTypes, NEW r \in Requests, Admitted(r)
    PROVE  /\ req[r] \in Checks /\ UNCHANGED <<coupon, failures, raced>>
           /\ Valid(req[r].copy, req[r].cust) /\ FewUses(req[r].copy, req[r].cust)
           /\ \E h \in WriteSteps : /\ Moves(r, h) /\ h.pc = "credit"
                                    /\ h.cust = req[r].cust /\ h.copy = req[r].copy
<1>1. req[r] \in Checks
  BY DEF Admitted, At, CouponTypes, UseHandlers, Idle, WriteSteps, Writing, IssueSteps
<1>2. PICK h : h = [pc |-> After("check"), cust |-> req[r].cust, copy |-> req[r].copy]
  OBVIOUS
<1>3. /\ h \in WriteSteps /\ h.pc = "credit"
      /\ h.cust = req[r].cust /\ h.copy = req[r].copy
  BY <1>1, <1>2 DEF After, WriteSteps, Writing, Checks
<1>4. Moves(r, h)
  BY <1>2 DEF Moves, Admitted, tables
<1>5. QED
  BY <1>1, <1>3, <1>4 DEF Admitted, Applicable, tables

LEMMA EarnIs ==
    ASSUME CouponTypes, NEW r \in Requests, NEW c \in Users, Earn(r, c)
    PROVE  /\ req[r] = Idle /\ coupon.status # "absent"
           /\ raced' = (raced \/ Busy) /\ UNCHANGED <<coupon, failures>>
           /\ \E h \in IssueSteps : Moves(r, h)
<1>1. req[r] = Idle
  BY DEF Earn, At, CouponTypes, UseHandlers, Checks, WriteSteps, Writing, IssueSteps
<1>2. PICK h : h = [pc |-> "issue", cust |-> c]
  OBVIOUS
<1>3. h \in IssueSteps
  BY <1>2 DEF IssueSteps
<1>4. Moves(r, h)
  BY <1>2 DEF Moves, Earn, tables
<1>5. QED
  BY <1>1, <1>3, <1>4 DEF Earn, Touch, tables

(* What makes a request end without a write that counts here.              *)
Ends(r) == Refused(r) \/ Issue(r) \/ Die(r)

LEMMA EndsIs ==
    ASSUME CouponTypes, NEW r \in Requests, Ends(r)
    PROVE  /\ Moves(r, Idle) /\ UNCHANGED <<coupon, raced>>
           /\ \/ failures' = failures /\ req[r].pc \in {"check", "issue"}
              \/ failures' = failures + 1
<1>1. CASE Refused(r)
  BY <1>1 DEF Refused, Return, Moves, tables, At
<1>2. CASE Issue(r)
  BY <1>2 DEF Issue, Return, Moves, At
<1>3. CASE Die(r)
  BY <1>3 DEF Die, Return, Moves, tables
<1>4. QED
  BY <1>1, <1>2, <1>3 DEF Ends

(* Everything that other requests and administrators do.                   *)
Elsewhere == UseWithBurn \/ UpdateRow \/ LinkSegment \/ UnlinkSegment \/ Remove
             \/ ChangeMembers

LEMMA ElsewhereIs ==
    ASSUME CouponTypes, Elsewhere
    PROVE  /\ UNCHANGED <<req, credits, activities, failures>>
           /\ raced' = (raced \/ Busy)
           /\ coupon' \in Copies
           /\ coupon'.used = coupon.used
           /\ coupon'.status = "absent" => coupon.status = "absent"
<1>0. ASSUME AssignRow
      PROVE  /\ coupon' \in Copies /\ coupon'.used = coupon.used
             /\ coupon'.status # "absent" /\ raced' = (raced \/ Busy)
  <2>1. PICK status \in {"inactive", "active"}, all \in BOOLEAN, terms \in Terms :
           coupon' = [coupon EXCEPT !.status = status, !.allUsers = all,
                                    !.terms = terms]
    BY <1>0 DEF AssignRow
  <2>2. QED
    BY <1>0, <2>1 DEF AssignRow, Edit, Touch, CouponTypes, Copies, Statuses
<1>1. CASE UseWithBurn
  BY <1>1 DEF UseWithBurn, Touch, CouponTypes
<1>2. CASE UpdateRow
  BY <1>0, <1>2 DEF UpdateRow
<1>3. CASE LinkSegment
  BY <1>0, <1>3 DEF LinkSegment
<1>4. CASE UnlinkSegment
  BY <1>0, <1>4 DEF UnlinkSegment
<1>5. CASE Remove
  <2>1. coupon' = [coupon EXCEPT !.status = "deleted"]
    BY <1>5 DEF Remove
  <2>2. /\ coupon' \in Copies
        /\ coupon'.used = coupon.used
        /\ coupon'.status # "absent"
    BY <2>1 DEF CouponTypes, Copies, Statuses
  <2>3. QED
    BY <1>5, <2>2 DEF Remove, Edit, Touch
<1>6. CASE ChangeMembers
  BY <1>6 DEF ChangeMembers, Touch, CouponTypes
<1>7. QED
  BY <1>1, <1>2, <1>3, <1>4, <1>5, <1>6 DEF Elsewhere

LEMMA CreateIs ==
    ASSUME CouponTypes, Create
    PROVE  /\ UNCHANGED <<req, credits, activities, failures>>
           /\ raced' = (raced \/ Busy)
           /\ coupon.status = "absent"
           /\ coupon' \in Copies /\ coupon'.used = 0 /\ coupon'.status # "absent"
<1>1. PICK all \in BOOLEAN, terms \in Terms : coupon' = New(all, terms)
  BY DEF Create
<1>2. coupon' \in Copies /\ coupon'.used = 0 /\ coupon'.status # "absent"
  BY <1>1, NewIsCopy DEF New
<1>3. QED
  BY <1>2 DEF Create, Touch

(* The four writes of a redemption.                                        *)
LEMMA CreditIs ==
    ASSUME CouponTypes, NEW r \in Requests, Credit(r)
    PROVE  /\ req[r] \in WriteSteps /\ req[r].pc = "credit"
           /\ credits' = [credits EXCEPT ![req[r].cust] = @ + 1]
           /\ UNCHANGED <<coupon, activities, failures, raced>>
           /\ \E h \in WriteSteps : /\ req' = [req EXCEPT ![r] = h] /\ h.pc = "activity"
                                    /\ h.cust = req[r].cust /\ h.copy = req[r].copy
<1>1. req[r].pc = "credit" /\ Advance(r) /\ After("credit") = "activity"
  BY DEF Credit, At, After
<1>2. QED
  BY <1>1, AdvanceMoves DEF Credit, tables

LEMMA RecordIs ==
    ASSUME CouponTypes, NEW r \in Requests, Record(r)
    PROVE  /\ req[r] \in WriteSteps /\ req[r].pc = "activity"
           /\ activities' = [activities EXCEPT ![req[r].cust] = @ + 1]
           /\ UNCHANGED <<coupon, credits, failures, raced>>
           /\ \E h \in WriteSteps : /\ req' = [req EXCEPT ![r] = h] /\ h.pc = "use"
                                    /\ h.cust = req[r].cust /\ h.copy = req[r].copy
<1>1. req[r].pc = "activity" /\ Advance(r) /\ After("activity") = "use"
  BY DEF Record, At, After
<1>2. QED
  BY <1>1, AdvanceMoves DEF Record

LEMMA UseIs ==
    ASSUME CouponTypes, NEW r \in Requests, Use(r)
    PROVE  /\ req[r] \in WriteSteps /\ req[r].pc = "use"
           /\ UNCHANGED <<coupon, failures, raced>>
           /\ \E h \in WriteSteps : /\ Moves(r, h) /\ h.pc = "count"
                                    /\ h.cust = req[r].cust /\ h.copy = req[r].copy
<1>1. req[r].pc = "use" /\ Advance(r) /\ After("use") = "count"
  BY DEF Use, At, After
<1>2. QED
  BY <1>1, AdvanceMoves DEF Use, Moves

LEMMA CountIs ==
    ASSUME CouponTypes, NEW r \in Requests, Count(r)
    PROVE  /\ req[r] \in WriteSteps /\ req[r].pc = "count"
           /\ Moves(r, Idle) /\ UNCHANGED <<failures, raced>>
           /\ coupon' \in Copies
           /\ coupon'.used = req[r].copy.used + 1
           /\ coupon'.terms = req[r].copy.terms
           /\ coupon'.status = req[r].copy.status
<1>1. req[r] \in WriteSteps
  BY DEF Count, At, CouponTypes, UseHandlers, Idle, Checks, IssueSteps
<1>2. PICK copy \in Copies : copy = req[r].copy
  BY <1>1 DEF WriteSteps
<1>3. coupon' = [copy EXCEPT !.used = copy.used + 1]
  BY <1>2 DEF Count, Counted
<1>4. /\ coupon' \in Copies /\ coupon'.used = copy.used + 1
      /\ coupon'.terms = copy.terms /\ coupon'.status = copy.status
  BY <1>3 DEF Copies
<1>5. QED
  BY <1>1, <1>2, <1>4 DEF Count, At, Return, Moves
-----------------------------------------------------------------------------
(* The types are kept.                                                     *)

LEMMA MovesTypes ==
    ASSUME CouponTypes, NEW r \in Requests, NEW h \in UseHandlers, Moves(r, h)
    PROVE  /\ req' \in [Requests -> UseHandlers]
           /\ credits' \in [Users -> Nat] /\ activities' \in [Users -> Nat]
  BY DEF Moves, CouponTypes

LEMMA BusyTypes == CouponTypes => Busy \in BOOLEAN
  BY DEF Busy

LEMMA OneMoreIsNat ==
    ASSUME NEW f \in [Users -> Nat], NEW c \in Users,
           NEW g, g = [f EXCEPT ![c] = @ + 1]
    PROVE  /\ g \in [Users -> Nat] /\ g[c] = f[c] + 1
           /\ \A d \in Users \ {c} : g[d] = f[d]
  OBVIOUS

LEMMA TypesKept == CouponTypes /\ [CouponsNext]_couponsVars => CouponTypes'
<1> SUFFICES ASSUME CouponTypes, [CouponsNext]_couponsVars PROVE CouponTypes'
  OBVIOUS
<1>0. Busy \in BOOLEAN
  BY BusyTypes
<1>1. ASSUME NEW r \in Requests, NEW c \in Users, Redeem(r, c) PROVE CouponTypes'
  <2>1. PICK h \in Checks : Moves(r, h)
    BY <1>1, RedeemIs
  <2>2. h \in UseHandlers
    BY DEF UseHandlers
  <2>3. QED
    BY <1>0, <1>1, <2>1, <2>2, RedeemIs, MovesTypes DEF CouponTypes
<1>2. ASSUME NEW r \in Requests, NEW c \in Users, Earn(r, c) PROVE CouponTypes'
  <2>1. PICK h \in IssueSteps : Moves(r, h)
    BY <1>2, EarnIs
  <2>2. h \in UseHandlers
    BY DEF UseHandlers
  <2>3. QED
    BY <1>0, <1>2, <2>1, <2>2, EarnIs, MovesTypes DEF CouponTypes
<1>3. ASSUME NEW r \in Requests, Ends(r) PROVE CouponTypes'
  BY <1>3, EndsIs, MovesTypes, IdleIsHandler DEF CouponTypes
<1>4. ASSUME NEW r \in Requests, Admitted(r) PROVE CouponTypes'
  <2>1. PICK h \in WriteSteps : Moves(r, h)
    BY <1>4, AdmittedIs
  <2>2. h \in UseHandlers
    BY DEF UseHandlers
  <2>3. QED
    BY <1>4, <2>1, <2>2, AdmittedIs, MovesTypes DEF CouponTypes
<1>5. ASSUME NEW r \in Requests, Credit(r) PROVE CouponTypes'
  <2>1. PICK h \in WriteSteps : req' = [req EXCEPT ![r] = h]
    BY <1>5, CreditIs
  <2>2. h \in UseHandlers /\ req[r].cust \in Users
    BY <1>5, CreditIs DEF UseHandlers, WriteSteps
  <2>3. credits' \in [Users -> Nat]
    BY <1>5, <2>2, CreditIs, OneMoreIsNat DEF CouponTypes
  <2>4. QED
    BY <1>5, <2>1, <2>2, <2>3, CreditIs, OneMoves DEF CouponTypes
<1>6. ASSUME NEW r \in Requests, Record(r) PROVE CouponTypes'
  <2>1. PICK h \in WriteSteps : req' = [req EXCEPT ![r] = h]
    BY <1>6, RecordIs
  <2>2. h \in UseHandlers /\ req[r].cust \in Users
    BY <1>6, RecordIs DEF UseHandlers, WriteSteps
  <2>3. activities' \in [Users -> Nat]
    BY <1>6, <2>2, RecordIs, OneMoreIsNat DEF CouponTypes
  <2>4. QED
    BY <1>6, <2>1, <2>2, <2>3, RecordIs, OneMoves DEF CouponTypes
<1>7. ASSUME NEW r \in Requests, Use(r) PROVE CouponTypes'
  <2>1. PICK h \in WriteSteps : Moves(r, h)
    BY <1>7, UseIs
  <2>2. h \in UseHandlers
    BY DEF UseHandlers
  <2>3. QED
    BY <1>7, <2>1, <2>2, UseIs, MovesTypes DEF CouponTypes
<1>8. ASSUME NEW r \in Requests, Count(r) PROVE CouponTypes'
  BY <1>8, CountIs, MovesTypes, IdleIsHandler DEF CouponTypes
<1>9. CASE Elsewhere
  BY <1>0, <1>9, ElsewhereIs DEF CouponTypes
<1>10. CASE Create
  BY <1>0, <1>10, CreateIs DEF CouponTypes
<1>11. CASE Midnight \/ UNCHANGED couponsVars
  BY <1>11 DEF CouponTypes, Midnight, couponsVars, tables
<1>12. QED
  BY <1>1, <1>2, <1>3, <1>4, <1>5, <1>6, <1>7, <1>8, <1>9, <1>10, <1>11
     DEF CouponsNext, Ends, Elsewhere

LEMMA TypesInitially == CouponsInit => CouponTypes
<1> SUFFICES ASSUME CouponsInit PROVE CouponTypes
  OBVIOUS
<1>1. coupon \in Copies
  <2>1. PICK terms \in Terms : coupon = [New(FALSE, terms) EXCEPT !.status = "absent"]
    BY DEF CouponsInit
  <2>2. QED
    BY <2>1 DEF New, Copies, Statuses
<1>2. req \in [Requests -> UseHandlers]
  BY IdleIsHandler DEF CouponsInit
<1>3. QED
  BY <1>1, <1>2 DEF CouponsInit, CouponTypes

-----------------------------------------------------------------------------
(* An activity follows its credit.                                         *)

Recording(c) == {r \in Requests : At(r, "activity") /\ req[r].cust = c}

Trace == \A c \in Users : activities[c] + Cardinality(Recording(c)) <= credits[c]

LEMMA RecordingIsFinite ==
    ASSUME NEW c
    PROVE  /\ IsFiniteSet(Recording(c)) /\ Cardinality(Recording(c)) \in Nat
           /\ IsFiniteSet(Recording(c)') /\ Cardinality(Recording(c)') \in Nat
<1>1. Recording(c) \subseteq Requests /\ Recording(c)' \subseteq Requests
  BY DEF Recording
<1>2. QED
  BY <1>1, FS_Subset, FS_CardinalityType, CouponsAssumption

(* A request that is not about to write an activity takes nothing away.    *)
LEMMA TraceAfterMove ==
    ASSUME CouponTypes, Trace, NEW r \in Requests, NEW h \in UseHandlers, Moves(r, h),
           h.pc # "activity"
    PROVE  Trace'
<1> SUFFICES ASSUME NEW c \in Users
             PROVE  activities'[c] + Cardinality(Recording(c)') <= credits'[c]
  BY DEF Trace
<1>1. Recording(c)' \subseteq Recording(c)
  BY DEF Recording, At, Moves, CouponTypes
<1>2. Cardinality(Recording(c)') <= Cardinality(Recording(c))
  BY <1>1, RecordingIsFinite, FS_Subset
<1>3. activities' = activities /\ credits' = credits
  BY DEF Moves
<1>4. activities[c] \in Nat /\ credits[c] \in Nat
  BY DEF CouponTypes
<1>5. QED
  BY <1>2, <1>3, <1>4, RecordingIsFinite DEF Trace

LEMMA TraceUnmoved ==
    ASSUME Trace, UNCHANGED <<req, credits, activities>>
    PROVE  Trace'
  BY DEF Trace, Recording, At

(* The credit is written first, and counts for the activity to come.       *)
LEMMA TraceAfterCredit ==
    ASSUME CouponTypes, Trace, NEW r \in Requests, Credit(r)
    PROVE  Trace'
<1>1. PICK h \in WriteSteps : /\ req' = [req EXCEPT ![r] = h] /\ h.pc = "activity"
                              /\ h.cust = req[r].cust
  BY CreditIs
<1>2. /\ req[r].cust \in Users /\ req[r].pc = "credit"
      /\ activities' = activities
      /\ credits' = [credits EXCEPT ![req[r].cust] = @ + 1]
  BY CreditIs DEF WriteSteps
<1>3. ASSUME NEW c \in Users
      PROVE  activities'[c] + Cardinality(Recording(c)') <= credits'[c]
  <2>1. /\ activities[c] \in Nat /\ credits[c] \in Nat
        /\ activities[c] + Cardinality(Recording(c)) <= credits[c]
    BY DEF CouponTypes, Trace
  <2>2. CASE c = req[r].cust
    <3>1. Recording(c)' = Recording(c) \cup {r} /\ r \notin Recording(c)
      BY <1>1, <1>2, <2>2 DEF Recording, At, CouponTypes
    <3>2. Cardinality(Recording(c)') = Cardinality(Recording(c)) + 1
      BY <3>1, RecordingIsFinite, FS_AddElement
    <3>3. credits'[c] = credits[c] + 1
      BY <1>2, <2>2 DEF CouponTypes
    <3>4. QED
      BY <1>2, <2>1, <3>2, <3>3, RecordingIsFinite
  <2>3. CASE c # req[r].cust
    <3>1. Recording(c)' = Recording(c)
      BY <1>1, <1>2, <2>3 DEF Recording, At, CouponTypes
    <3>2. credits'[c] = credits[c]
      BY <1>2, <2>3 DEF CouponTypes
    <3>3. QED
      BY <1>2, <2>1, <3>1, <3>2
  <2>4. QED
    BY <2>2, <2>3
<1>4. QED
  BY <1>3 DEF Trace

LEMMA TraceAfterRecord ==
    ASSUME CouponTypes, Trace, NEW r \in Requests, Record(r)
    PROVE  Trace'
<1>1. PICK h \in WriteSteps : req' = [req EXCEPT ![r] = h] /\ h.pc = "use"
  BY RecordIs
<1>2. /\ req[r].cust \in Users /\ req[r].pc = "activity"
      /\ credits' = credits
      /\ activities' = [activities EXCEPT ![req[r].cust] = @ + 1]
  BY RecordIs DEF WriteSteps
<1>3. ASSUME NEW c \in Users
      PROVE  activities'[c] + Cardinality(Recording(c)') <= credits'[c]
  <2>1. /\ activities[c] \in Nat /\ credits[c] \in Nat
        /\ activities[c] + Cardinality(Recording(c)) <= credits[c]
    BY DEF CouponTypes, Trace
  <2>2. CASE c = req[r].cust
    <3>1. Recording(c)' = Recording(c) \ {r} /\ r \in Recording(c)
      BY <1>1, <1>2, <2>2 DEF Recording, At, CouponTypes
    <3>2. Cardinality(Recording(c)') = Cardinality(Recording(c)) - 1
      BY <3>1, RecordingIsFinite, FS_RemoveElement
    <3>3. activities'[c] = activities[c] + 1
      BY <1>2, <2>2 DEF CouponTypes
    <3>4. QED
      BY <1>2, <2>1, <3>2, <3>3, RecordingIsFinite
  <2>3. CASE c # req[r].cust
    <3>1. Recording(c)' = Recording(c)
      BY <1>1, <1>2, <2>3 DEF Recording, At, CouponTypes
    <3>2. activities'[c] = activities[c]
      BY <1>2, <2>3 DEF CouponTypes
    <3>3. QED
      BY <1>2, <2>1, <3>1, <3>2
  <2>4. QED
    BY <2>2, <2>3
<1>4. QED
  BY <1>3 DEF Trace

LEMMA TraceKept == CouponTypes /\ Trace /\ [CouponsNext]_couponsVars => Trace'
<1> SUFFICES ASSUME CouponTypes, Trace, [CouponsNext]_couponsVars PROVE Trace'
  OBVIOUS
<1>1. ASSUME NEW r \in Requests, NEW c \in Users, Redeem(r, c) PROVE Trace'
  <2>1. PICK h \in Checks : Moves(r, h)
    BY <1>1, RedeemIs
  <2>2. h \in UseHandlers /\ h.pc # "activity"
    BY DEF UseHandlers, Checks
  <2>3. QED
    BY <2>1, <2>2, TraceAfterMove
<1>2. ASSUME NEW r \in Requests, NEW c \in Users, Earn(r, c) PROVE Trace'
  <2>1. PICK h \in IssueSteps : Moves(r, h)
    BY <1>2, EarnIs
  <2>2. h \in UseHandlers /\ h.pc # "activity"
    BY DEF UseHandlers, IssueSteps
  <2>3. QED
    BY <2>1, <2>2, TraceAfterMove
<1>3. ASSUME NEW r \in Requests, Ends(r) PROVE Trace'
  BY <1>3, EndsIs, TraceAfterMove, IdleIsHandler
<1>4. ASSUME NEW r \in Requests, Admitted(r) PROVE Trace'
  <2>1. PICK h \in WriteSteps : Moves(r, h) /\ h.pc = "credit"
    BY <1>4, AdmittedIs
  <2>2. h \in UseHandlers
    BY DEF UseHandlers
  <2>3. QED
    BY <2>1, <2>2, TraceAfterMove
<1>5. ASSUME NEW r \in Requests, Credit(r) PROVE Trace'
  BY <1>5, TraceAfterCredit
<1>6. ASSUME NEW r \in Requests, Record(r) PROVE Trace'
  BY <1>6, TraceAfterRecord
<1>7. ASSUME NEW r \in Requests, Use(r) PROVE Trace'
  <2>1. PICK h \in WriteSteps : Moves(r, h) /\ h.pc = "count"
    BY <1>7, UseIs
  <2>2. h \in UseHandlers
    BY DEF UseHandlers
  <2>3. QED
    BY <2>1, <2>2, TraceAfterMove
<1>8. ASSUME NEW r \in Requests, Count(r) PROVE Trace'
  BY <1>8, CountIs, TraceAfterMove, IdleIsHandler
<1>9. CASE Elsewhere
  BY <1>9, ElsewhereIs, TraceUnmoved
<1>10. CASE Create
  BY <1>10, CreateIs, TraceUnmoved
<1>11. CASE Midnight \/ UNCHANGED couponsVars
  BY <1>11, TraceUnmoved DEF Midnight, couponsVars, tables
<1>12. QED
  BY <1>1, <1>2, <1>3, <1>4, <1>5, <1>6, <1>7, <1>8, <1>9, <1>10, <1>11
     DEF CouponsNext, Ends, Elsewhere

LEMMA TraceInitially == CouponsInit => Trace
<1> SUFFICES ASSUME CouponsInit, NEW c \in Users
             PROVE  activities[c] + Cardinality(Recording(c)) <= credits[c]
  BY DEF Trace
<1>1. Recording(c) = {}
  BY DEF CouponsInit, Recording, At, Idle
<1>2. Cardinality(Recording(c)) = 0
  BY <1>1, FS_EmptySet
<1>3. QED
  BY <1>2 DEF CouponsInit

(* Every state has well-formed copies and requests.                        *)
THEOREM CouponTypesAlways == CouponsSpec => []CouponTypes
<1>1. QED
  BY TypesInitially, TypesKept, PTL DEF CouponsSpec

(* Whatever requests overlap, die half-way or are edited under way, no     *)
(* customer's history has more redemptions than her wallet was credited:   *)
(* createCustomerActivity comes after creditWallet in redeem and in        *)
(* handleCampaignCoupons.                                                  *)
THEOREM CreditsPrecedeTraces == CouponsSpec => []TraceFollowsCredit
<1>1. CouponTypes /\ Trace => TraceFollowsCredit
  <2> SUFFICES ASSUME CouponTypes, Trace, NEW c \in Users
               PROVE  activities[c] <= credits[c]
    BY DEF TraceFollowsCredit
  <2>1. activities[c] \in Nat /\ credits[c] \in Nat
    BY DEF CouponTypes
  <2>2. QED
    BY <2>1, RecordingIsFinite DEF Trace
<1>2. CouponsInit => CouponTypes /\ Trace
  BY TypesInitially, TraceInitially
<1>3. CouponTypes /\ Trace /\ [CouponsNext]_couponsVars => (CouponTypes /\ Trace)'
  BY TypesKept, TraceKept
<1>4. QED
  BY <1>1, <1>2, <1>3, PTL DEF CouponsSpec
-----------------------------------------------------------------------------
(* The limits, one request at a time.                                      *)

OneBusy == \A q, r \in Requests : req[q] # Idle /\ req[r] # Idle => q = r

(* Credited and not yet counted.                                           *)
Past(h) == h.pc \in {"activity", "use", "count"}
(* Credited and not yet in the history of the customer.                    *)
Unrecorded(h, c) == h.pc = "activity" /\ h.cust = c

(* A request's copy is the coupon, and one about to credit has room.       *)
HandlerOK(h) ==
    /\ h \in Checks \cup WriteSteps => h.copy = coupon
    /\ h.pc = "credit" =>
         /\ ~LimitReached(coupon.used, coupon.terms.usageLimit)
         /\ ~LimitReached(activities[h.cust], coupon.terms.maxUsagePerUser)

(* What the counters differ by while a request writes.                     *)
CountersOK ==
    /\ \/ Total(credits) = coupon.used /\ \A r \in Requests : ~Past(req[r])
       \/ Total(credits) = coupon.used + 1 /\ \E r \in Requests : Past(req[r])
    /\ \A c \in Users :
         \/ credits[c] = activities[c] /\ \A r \in Requests : ~Unrecorded(req[r], c)
         \/ credits[c] = activities[c] + 1 /\ \E r \in Requests : Unrecorded(req[r], c)

Unborn == coupon.status = "absent" =>
            /\ coupon.used = 0 /\ \A r \in Requests : req[r] = Idle
            /\ \A c \in Users : credits[c] = 0

Serial == OneBusy /\ Unborn /\ CountersOK
          /\ \A r \in Requests : HandlerOK(req[r])

Limits == OneByOne => Serial

(* A request that begins found no other one.                               *)
LEMMA BeginsAlone ==
    ASSUME CouponTypes, Limits, NEW r \in Requests, NEW h \in UseHandlers, Moves(r, h),
           h.pc \in {"check", "issue"}, h \in Checks => h.copy = coupon,
           coupon.status # "absent",
           raced' = (raced \/ Busy), UNCHANGED <<coupon, failures>>
    PROVE  Limits'
<1> SUFFICES ASSUME OneByOne' PROVE Serial'
  BY DEF Limits
<1>1. Serial /\ \A q \in Requests : req[q] = Idle
  BY DEF Limits, OneByOne, Busy
<1>2. /\ req'[r] = h /\ \A q \in Requests \ {r} : req'[q] = Idle
      /\ credits' = credits /\ activities' = activities /\ coupon' = coupon
  BY <1>1 DEF Moves, CouponTypes
<1>3. h \notin WriteSteps /\ h.pc \notin Writing /\ Idle.pc \notin Writing
      /\ Idle \notin Checks \cup WriteSteps
  BY DEF WriteSteps, Writing, Idle, Checks
<1>4. \A q \in Requests : /\ ~Past(req[q]) /\ ~Past(req'[q])
                          /\ \A c : ~Unrecorded(req[q], c) /\ ~Unrecorded(req'[q], c)
  BY <1>1, <1>2, <1>3 DEF Past, Unrecorded, Writing
<1>5. CountersOK'
  BY <1>1, <1>2, <1>4 DEF Serial, CountersOK, Total
<1>6. OneBusy' /\ Unborn'
  BY <1>2 DEF OneBusy, Unborn
<1>8. \A q \in Requests : HandlerOK(req[q])'
  BY <1>2, <1>3 DEF HandlerOK, Writing
<1>9. QED
  BY <1>5, <1>6, <1>8 DEF Serial

(* Nothing in flight, and the counters stay.                               *)
LEMMA ElsewhereKeepsLimits ==
    ASSUME CouponTypes, Limits, Elsewhere
    PROVE  Limits'
<1> SUFFICES ASSUME OneByOne' PROVE Serial'
  BY DEF Limits
<1>0. /\ UNCHANGED <<req, credits, activities>>
      /\ coupon'.used = coupon.used
      /\ coupon'.status = "absent" => coupon.status = "absent"
  BY ElsewhereIs
<1>1. Serial /\ \A q \in Requests : req[q] = Idle
  BY ElsewhereIs DEF Limits, OneByOne, Busy
<1>2. CountersOK'
  BY <1>0, <1>1 DEF Serial, CountersOK, Total
<1>3. OneBusy' /\ Unborn'
  BY <1>0, <1>1 DEF Serial, OneBusy, Unborn
<1>5. Idle.pc # "credit" /\ Idle \notin Checks \cup WriteSteps
  BY DEF Idle, Checks, WriteSteps, Writing
<1>6. \A q \in Requests : HandlerOK(req[q])'
  BY <1>0, <1>1, <1>5 DEF HandlerOK
<1>7. QED
  BY <1>2, <1>3, <1>6 DEF Serial

LEMMA CreateKeepsLimits ==
    ASSUME CouponTypes, Limits, Create
    PROVE  Limits'
<1> SUFFICES ASSUME OneByOne' PROVE Serial'
  BY DEF Limits
<1>0. /\ UNCHANGED <<req, credits, activities>>
      /\ coupon.status = "absent" /\ coupon'.status # "absent" /\ coupon'.used = 0
      /\ coupon' \in Copies
  BY CreateIs
<1>1. Serial /\ \A q \in Requests : req[q] = Idle
  BY CreateIs DEF Limits, OneByOne, Busy
<1>2. \A c \in Users : credits[c] = 0
  BY <1>0, <1>1 DEF Serial, Unborn
<1>3. Total(credits) = 0
  BY <1>0, <1>1 DEF Serial, Unborn, CountersOK, Past, Idle
<1>4. CountersOK'
  BY <1>0, <1>1, <1>2, <1>3 DEF Serial, CountersOK, Total, Past, Unrecorded, Idle
<1>5. OneBusy' /\ Unborn'
  BY <1>0, <1>1 DEF Serial, OneBusy, Unborn
<1>8. Idle.pc # "credit" /\ Idle \notin Checks \cup WriteSteps
  BY DEF Idle, Checks, WriteSteps, Writing
<1>9. \A q \in Requests : HandlerOK(req[q])'
  BY <1>0, <1>1, <1>8 DEF HandlerOK
<1>10. QED
  BY <1>4, <1>5, <1>9 DEF Serial
(* A request in flight is the only one, and its coupon exists.             *)
LEMMA Alone ==
    ASSUME CouponTypes, Limits, OneByOne, NEW r \in Requests, req[r].pc # "idle"
    PROVE  /\ \A q \in Requests \ {r} : req[q] = Idle
           /\ HandlerOK(req[r]) /\ coupon.status # "absent"
           /\ CountersOK
<1>1. Serial /\ req[r] # Idle
  BY DEF Limits, Idle
<1>2. QED
  BY <1>1 DEF Serial, OneBusy, Unborn

(* What is left to show of a step of the only request: the counters, the   *)
(* limits, and what holds of it then.                                      *)
LEMMA AloneSuffices ==
    ASSUME CouponTypes, Limits, OneByOne, NEW r \in Requests, req[r].pc # "idle",
           NEW h \in UseHandlers, req' = [req EXCEPT ![r] = h],
           coupon'.status # "absent", CountersOK', HandlerOK(h)'
    PROVE  Serial'
<1>1. \A q \in Requests \ {r} : req[q] = Idle
  BY Alone
<1>2. req'[r] = h /\ \A q \in Requests \ {r} : req'[q] = Idle
  BY <1>1 DEF CouponTypes
<1>3. OneBusy' /\ Unborn'
  BY <1>2 DEF OneBusy, Unborn
<1>4. Idle.pc # "credit" /\ Idle \notin Checks \cup WriteSteps
  BY DEF Idle, Checks, WriteSteps, Writing
<1>5. \A q \in Requests : HandlerOK(req[q])'
  <2>1. ASSUME NEW q \in Requests \ {r} PROVE HandlerOK(req[q])'
    BY <1>2, <1>4 DEF HandlerOK
  <2>2. HandlerOK(req[r])'
    BY <1>2 DEF HandlerOK
  <2>3. QED
    BY <2>1, <2>2
<1>6. QED
  BY <1>3, <1>5 DEF Serial

LEMMA IdleCounts ==
    ASSUME NEW c
    PROVE  ~Past(Idle) /\ ~Unrecorded(Idle, c)
  BY DEF Past, Unrecorded, Idle

(* The step of the only request, when it leaves the coupon and whether it  *)
(* is past its credit and its record as they were.                         *)
LEMMA QuietStep ==
    ASSUME CouponTypes, Limits, OneByOne, NEW r \in Requests, req[r].pc # "idle",
           NEW h \in UseHandlers, Moves(r, h), coupon' = coupon,
           Past(h) <=> Past(req[r]),
           \A c : Unrecorded(h, c) <=> Unrecorded(req[r], c),
           HandlerOK(h)'
    PROVE  Serial'
<1>1. /\ \A q \in Requests \ {r} : req[q] = Idle
      /\ coupon.status # "absent" /\ CountersOK
  BY Alone
<1>2. /\ req' = [req EXCEPT ![r] = h]
      /\ req'[r] = h /\ \A q \in Requests \ {r} : req'[q] = Idle
      /\ credits' = credits /\ activities' = activities
  BY <1>1 DEF Moves, CouponTypes
<1>3. \A q \in Requests : /\ Past(req'[q]) <=> Past(req[q])
                          /\ \A c : Unrecorded(req'[q], c) <=> Unrecorded(req[q], c)
  BY <1>1, <1>2
<1>4. CountersOK'
  BY <1>1, <1>2, <1>3 DEF CountersOK, Total
<1>6. QED
  BY <1>1, <1>2, <1>4, AloneSuffices

LEMMA EndsKeepLimits ==
    ASSUME CouponTypes, Limits, NEW r \in Requests, Ends(r)
    PROVE  Limits'
<1> SUFFICES ASSUME OneByOne' PROVE Serial'
  BY DEF Limits
<1>1. /\ Moves(r, Idle) /\ UNCHANGED <<coupon, raced>>
      /\ failures' = failures /\ req[r].pc \in {"check", "issue"}
  BY EndsIs DEF OneByOne, CouponTypes
<1>2. OneByOne
  BY <1>1 DEF OneByOne
<1>3. /\ Past(Idle) <=> Past(req[r])
      /\ \A c : Unrecorded(Idle, c) <=> Unrecorded(req[r], c)
  BY <1>1, IdleCounts DEF Past, Unrecorded
<1>4. HandlerOK(Idle)'
  BY DEF HandlerOK, Idle, Checks, WriteSteps, Writing
<1>5. QED
  BY <1>1, <1>2, <1>3, <1>4, QuietStep, IdleIsHandler

LEMMA UseKeepsLimits ==
    ASSUME CouponTypes, Limits, NEW r \in Requests, Use(r)
    PROVE  Limits'
<1> SUFFICES ASSUME OneByOne' PROVE Serial'
  BY DEF Limits
<1>1. /\ req[r] \in WriteSteps /\ req[r].pc = "use"
      /\ UNCHANGED <<coupon, failures, raced>>
  BY UseIs
<1>2. OneByOne
  BY <1>1 DEF OneByOne
<1>3. PICK h \in WriteSteps : /\ Moves(r, h) /\ h.pc = "count"
                              /\ h.cust = req[r].cust /\ h.copy = req[r].copy
  BY UseIs
<1>4. h.copy = coupon
  BY <1>1, <1>2, <1>3, Alone DEF HandlerOK
<1>5. HandlerOK(h)'
  BY <1>1, <1>3, <1>4 DEF HandlerOK
<1>6. /\ Past(h) <=> Past(req[r])
      /\ \A c : Unrecorded(h, c) <=> Unrecorded(req[r], c)
  BY <1>1, <1>3 DEF Past, Unrecorded
<1>7. h \in UseHandlers
  BY DEF UseHandlers
<1>8. QED
  BY <1>1, <1>2, <1>3, <1>5, <1>6, <1>7, QuietStep

(* The copy is the coupon: what was compared with the limits is current.   *)
LEMMA AdmittedKeepsLimits ==
    ASSUME CouponTypes, Limits, NEW r \in Requests, Admitted(r)
    PROVE  Limits'
<1> SUFFICES ASSUME OneByOne' PROVE Serial'
  BY DEF Limits
<1>1. /\ req[r] \in Checks /\ UNCHANGED <<coupon, failures, raced>>
      /\ Valid(req[r].copy, req[r].cust) /\ FewUses(req[r].copy, req[r].cust)
  BY AdmittedIs
<1>2. OneByOne /\ req[r].pc = "check"
  BY <1>1 DEF OneByOne, Checks
<1>3. PICK h \in WriteSteps : /\ Moves(r, h) /\ h.pc = "credit"
                              /\ h.cust = req[r].cust /\ h.copy = req[r].copy
  BY AdmittedIs
<1>4. req[r].copy = coupon
  BY <1>1, <1>2, Alone DEF HandlerOK
<1>5. /\ ~LimitReached(coupon.used, coupon.terms.usageLimit)
      /\ ~LimitReached(activities[h.cust], coupon.terms.maxUsagePerUser)
  BY <1>1, <1>3, <1>4 DEF Valid, FewUses
<1>6. HandlerOK(h)'
  BY <1>1, <1>3, <1>4, <1>5 DEF HandlerOK, Moves
<1>7. /\ Past(h) <=> Past(req[r])
      /\ \A c : Unrecorded(h, c) <=> Unrecorded(req[r], c)
  BY <1>2, <1>3 DEF Past, Unrecorded
<1>8. h \in UseHandlers
  BY DEF UseHandlers
<1>9. QED
  BY <1>1, <1>2, <1>3, <1>6, <1>7, <1>8, QuietStep

(* A credit, one request at a time: the copy it was admitted by is still   *)
(* the coupon, and the counters have every earlier credit.                 *)
LEMMA CreditAlone ==
    ASSUME CouponTypes, Limits, OneByOne', NEW r \in Requests, Credit(r)
    PROVE  \E h \in WriteSteps :
             /\ OneByOne /\ UNCHANGED <<coupon, activities>>
             /\ req[r].pc = "credit" /\ req' = [req EXCEPT ![r] = h]
             /\ h.pc = "activity" /\ h.copy = coupon /\ h.cust \in Users
             /\ ~LimitReached(coupon.used, coupon.terms.usageLimit)
             /\ ~LimitReached(activities[h.cust], coupon.terms.maxUsagePerUser)
             /\ \A q \in Requests \ {r} : req[q] = Idle
             /\ coupon.status # "absent"
             /\ Total(credits) = coupon.used /\ Total(credits)' = Total(credits) + 1
             /\ \A c \in Users : credits[c] = activities[c]
             /\ credits'[h.cust] = credits[h.cust] + 1
             /\ \A c \in Users \ {h.cust} : credits'[c] = credits[c]
<1>1. /\ req[r] \in WriteSteps /\ req[r].pc = "credit"
      /\ credits' = [credits EXCEPT ![req[r].cust] = @ + 1]
      /\ UNCHANGED <<coupon, activities, failures, raced>>
  BY CreditIs
<1>2. OneByOne
  BY <1>1 DEF OneByOne
<1>3. PICK h \in WriteSteps : /\ req' = [req EXCEPT ![r] = h] /\ h.pc = "activity"
                              /\ h.cust = req[r].cust /\ h.copy = req[r].copy
  BY CreditIs
<1>4. /\ h.copy = coupon /\ h.cust \in Users
      /\ ~LimitReached(coupon.used, coupon.terms.usageLimit)
      /\ ~LimitReached(activities[h.cust], coupon.terms.maxUsagePerUser)
      /\ \A q \in Requests \ {r} : req[q] = Idle
      /\ coupon.status # "absent" /\ CountersOK
  BY <1>1, <1>2, <1>3, Alone DEF HandlerOK, WriteSteps
<1>5. \A q \in Requests : ~Past(req[q]) /\ \A c : ~Unrecorded(req[q], c)
  BY <1>1, <1>4, IdleCounts DEF Past, Unrecorded
<1>6. /\ Total(credits) = coupon.used
      /\ \A c \in Users : credits[c] = activities[c]
  BY <1>4, <1>5 DEF CountersOK
<1>7. /\ credits' \in [Users -> Nat]
      /\ credits'[h.cust] = credits[h.cust] + 1
      /\ \A c \in Users \ {h.cust} : credits'[c] = credits[c]
  BY <1>1, <1>3, <1>4 DEF CouponTypes
<1>8. Total(credits)' = Total(credits) + 1
  <2>1. \A c \in Users : credits[c] \in Int /\ credits'[c] \in Int
    BY <1>7 DEF CouponTypes
  <2>2. SumFunctionOnSet(credits', Users) =
          SumFunctionOnSet(credits, Users) - credits[h.cust] + credits'[h.cust]
    BY <1>4, <1>7, <2>1, SumChanged, CouponsAssumption
  <2>3. Total(credits) \in Nat /\ credits[h.cust] \in Nat
    BY <1>4, TotalIsNat DEF CouponTypes
  <2>4. QED
    BY <1>7, <2>2, <2>3 DEF Total
<1>9. QED
  BY <1>1, <1>2, <1>3, <1>4, <1>6, <1>7, <1>8

LEMMA CreditKeepsLimits ==
    ASSUME CouponTypes, Limits, NEW r \in Requests, Credit(r)
    PROVE  Limits'
<1> SUFFICES ASSUME OneByOne' PROVE Serial'
  BY DEF Limits
<1>1. PICK h \in WriteSteps :
             /\ OneByOne /\ UNCHANGED <<coupon, activities>>
             /\ req[r].pc = "credit" /\ req' = [req EXCEPT ![r] = h]
             /\ h.pc = "activity" /\ h.copy = coupon /\ h.cust \in Users
             /\ \A q \in Requests \ {r} : req[q] = Idle
             /\ coupon.status # "absent"
             /\ Total(credits) = coupon.used /\ Total(credits)' = Total(credits) + 1
             /\ \A c \in Users : credits[c] = activities[c]
             /\ credits'[h.cust] = credits[h.cust] + 1
             /\ \A c \in Users \ {h.cust} : credits'[c] = credits[c]
  BY CreditAlone
<1>2. /\ req'[r] = h /\ \A q \in Requests \ {r} : req'[q] = Idle
  BY <1>1 DEF CouponTypes
<1>3. CountersOK'
  <2>1. Past(h) /\ \A c : Unrecorded(h, c) <=> c = h.cust
    BY <1>1 DEF Past, Unrecorded
  <2>2. (\E q \in Requests : Past(req[q]))'
    BY <1>2, <2>1 DEF Past
  <2>3. ASSUME NEW c \in Users
        PROVE  \/ credits'[c] = activities'[c]
                  /\ \A q \in Requests : ~Unrecorded(req'[q], c)
               \/ credits'[c] = activities'[c] + 1
                  /\ \E q \in Requests : Unrecorded(req'[q], c)
    BY <1>1, <1>2, <2>1, IdleCounts
  <2>4. QED
    BY <1>1, <2>2, <2>3 DEF CountersOK, Total
<1>4. HandlerOK(h)'
  BY <1>1 DEF HandlerOK
<1>5. h \in UseHandlers
  BY DEF UseHandlers
<1>6. QED
  BY <1>1, <1>3, <1>4, <1>5, AloneSuffices

(* The credit that the comparison left room for.                           *)
LEMMA CreditHasRoom ==
    ASSUME CouponTypes, Limits, OneByOne', NEW r \in Requests, Credit(r),
           NEW c \in Users, credits'[c] > credits[c]
    PROVE  RoomFor(c)
<1>1. PICK h \in WriteSteps :
             /\ h.cust \in Users
             /\ ~LimitReached(coupon.used, coupon.terms.usageLimit)
             /\ ~LimitReached(activities[h.cust], coupon.terms.maxUsagePerUser)
             /\ Total(credits) = coupon.used /\ Total(credits)' = Total(credits) + 1
             /\ credits[h.cust] = activities[h.cust]
             /\ credits'[h.cust] = credits[h.cust] + 1
             /\ \A d \in Users \ {h.cust} : credits'[d] = credits[d]
  BY CreditAlone
<1>2. c = h.cust
  BY <1>1 DEF CouponTypes
<1>3. /\ coupon.terms.usageLimit \in Nat /\ coupon.terms.maxUsagePerUser \in Nat
      /\ coupon.used \in Nat /\ activities[c] \in Nat
  BY TermsAreNat DEF CouponTypes, Copies
<1>4. coupon.terms.usageLimit # 0 => Total(credits') <= coupon.terms.usageLimit
  BY <1>1, <1>3 DEF LimitReached, Total
<1>5. coupon.terms.maxUsagePerUser # 0 => credits'[c] <= coupon.terms.maxUsagePerUser
  BY <1>1, <1>2, <1>3 DEF LimitReached
<1>6. QED
  BY <1>4, <1>5 DEF RoomFor

LEMMA RecordKeepsLimits ==
    ASSUME CouponTypes, Limits, NEW r \in Requests, Record(r)
    PROVE  Limits'
<1> SUFFICES ASSUME OneByOne' PROVE Serial'
  BY DEF Limits
<1>1. /\ req[r] \in WriteSteps /\ req[r].pc = "activity"
      /\ activities' = [activities EXCEPT ![req[r].cust] = @ + 1]
      /\ UNCHANGED <<coupon, credits, failures, raced>>
  BY RecordIs
<1>2. OneByOne
  BY <1>1 DEF OneByOne
<1>3. PICK h \in WriteSteps : /\ req' = [req EXCEPT ![r] = h] /\ h.pc = "use"
                              /\ h.cust = req[r].cust /\ h.copy = req[r].copy
  BY RecordIs
<1>4. /\ h.copy = coupon /\ h.cust \in Users
      /\ \A q \in Requests \ {r} : req[q] = Idle
      /\ coupon.status # "absent" /\ CountersOK
  BY <1>1, <1>2, <1>3, Alone DEF HandlerOK, WriteSteps
<1>5. /\ req'[r] = h /\ \A q \in Requests \ {r} : req'[q] = Idle
  BY <1>3, <1>4 DEF CouponTypes
<1>6. /\ Past(req[r]) /\ Past(h) /\ Unrecorded(req[r], h.cust)
      /\ \A c \in Users : c # h.cust =>
            \A q \in Requests : ~Unrecorded(req[q], c)
      /\ \A q \in Requests : \A c : ~Unrecorded(req'[q], c)
  BY <1>1, <1>3, <1>4, <1>5, IdleCounts DEF Past, Unrecorded
<1>7. /\ Total(credits) = coupon.used + 1
      /\ credits[h.cust] = activities[h.cust] + 1
      /\ \A c \in Users : c # h.cust => credits[c] = activities[c]
  BY <1>4, <1>6 DEF CountersOK
<1>8. /\ activities'[h.cust] = activities[h.cust] + 1
      /\ \A c \in Users \ {h.cust} : activities'[c] = activities[c]
  BY <1>1, <1>3, <1>4 DEF CouponTypes
<1>9. CountersOK'
  <2>1. (\E q \in Requests : Past(req[q]))'
    BY <1>5, <1>6 DEF Past
  <2>2. \A c \in Users : credits'[c] = activities'[c]
    BY <1>1, <1>7, <1>8
  <2>3. QED
    BY <1>1, <1>6, <1>7, <2>1, <2>2 DEF CountersOK, Total
<1>11. HandlerOK(h)'
  BY <1>1, <1>3, <1>4 DEF HandlerOK
<1>12. h \in UseHandlers
  BY DEF UseHandlers
<1>13. QED
  BY <1>1, <1>2, <1>3, <1>4, <1>9, <1>11, <1>12, AloneSuffices

LEMMA CountKeepsLimits ==
    ASSUME CouponTypes, Limits, NEW r \in Requests, Count(r)
    PROVE  Limits'
<1> SUFFICES ASSUME OneByOne' PROVE Serial'
  BY DEF Limits
<1>1. /\ req[r] \in WriteSteps /\ req[r].pc = "count"
      /\ Moves(r, Idle) /\ UNCHANGED <<failures, raced>>
      /\ coupon'.used = req[r].copy.used + 1
      /\ coupon'.terms = req[r].copy.terms
      /\ coupon'.status = req[r].copy.status
  BY CountIs
<1>2. OneByOne
  BY <1>1 DEF OneByOne
<1>3. /\ req[r].copy = coupon
      /\ \A q \in Requests \ {r} : req[q] = Idle
      /\ coupon.status # "absent" /\ CountersOK
  BY <1>1, <1>2, Alone DEF HandlerOK
<1>4. \A q \in Requests : req'[q] = Idle
  BY <1>1, <1>3 DEF Moves, CouponTypes
<1>5. Past(req[r]) /\ \A q \in Requests : \A c : ~Unrecorded(req[q], c)
  BY <1>1, <1>3, IdleCounts DEF Past, Unrecorded
<1>6. /\ Total(credits) = coupon.used + 1
      /\ \A c \in Users : credits[c] = activities[c]
  BY <1>3, <1>5 DEF CountersOK
<1>7. CountersOK'
  BY <1>1, <1>3, <1>4, <1>6, IdleCounts DEF CountersOK, Total, Moves
<1>9. HandlerOK(Idle)'
  BY DEF HandlerOK, Idle, Checks, WriteSteps, Writing
<1>10. req' = [req EXCEPT ![r] = Idle] /\ coupon'.status # "absent"
  BY <1>1, <1>3 DEF Moves
<1>11. QED
  BY <1>1, <1>2, <1>7, <1>9, <1>10, AloneSuffices, IdleIsHandler

LEMMA LimitsKeptByNext == CouponTypes /\ Limits /\ [CouponsNext]_couponsVars => Limits'
<1> SUFFICES ASSUME CouponTypes, Limits, [CouponsNext]_couponsVars PROVE Limits'
  OBVIOUS
<1>1. ASSUME NEW r \in Requests, NEW c \in Users, Redeem(r, c) PROVE Limits'
  <2>1. PICK h \in Checks : Moves(r, h) /\ h.copy = coupon
    BY <1>1, RedeemIs
  <2>2. h \in UseHandlers /\ h.pc = "check"
    BY DEF UseHandlers, Checks
  <2>3. QED
    BY <1>1, <2>1, <2>2, RedeemIs, BeginsAlone
<1>2. ASSUME NEW r \in Requests, NEW c \in Users, Earn(r, c) PROVE Limits'
  <2>1. PICK h \in IssueSteps : Moves(r, h)
    BY <1>2, EarnIs
  <2>2. h \in UseHandlers /\ h.pc = "issue" /\ h \notin Checks
    BY DEF UseHandlers, IssueSteps, Checks
  <2>3. QED
    BY <1>2, <2>1, <2>2, EarnIs, BeginsAlone
<1>3. ASSUME NEW r \in Requests, Ends(r) PROVE Limits'
  BY <1>3, EndsKeepLimits
<1>4. ASSUME NEW r \in Requests, Admitted(r) PROVE Limits'
  BY <1>4, AdmittedKeepsLimits
<1>5. ASSUME NEW r \in Requests, Credit(r) PROVE Limits'
  BY <1>5, CreditKeepsLimits
<1>6. ASSUME NEW r \in Requests, Record(r) PROVE Limits'
  BY <1>6, RecordKeepsLimits
<1>7. ASSUME NEW r \in Requests, Use(r) PROVE Limits'
  BY <1>7, UseKeepsLimits
<1>8. ASSUME NEW r \in Requests, Count(r) PROVE Limits'
  BY <1>8, CountKeepsLimits
<1>9. CASE Elsewhere
  BY <1>9, ElsewhereKeepsLimits
<1>10. CASE Create
  BY <1>10, CreateKeepsLimits
<1>11. CASE Midnight \/ UNCHANGED couponsVars
  <2>1. UNCHANGED <<coupon, req, credits, activities, failures, raced>>
    BY <1>11 DEF Midnight, couponsVars, tables
  <2>2. QED
    BY <2>1 DEF Limits, OneByOne, Serial, OneBusy, Unborn, CountersOK,
                HandlerOK, Total
<1>12. QED
  BY <1>1, <1>2, <1>3, <1>4, <1>5, <1>6, <1>7, <1>8, <1>9, <1>10, <1>11
     DEF CouponsNext, Ends, Elsewhere

LEMMA LimitsInitially == CouponsInit => Limits
<1> SUFFICES ASSUME CouponsInit PROVE Serial
  BY DEF Limits
<1>0. CouponTypes
  BY TypesInitially
<1>1. PICK terms \in Terms : coupon = [New(FALSE, terms) EXCEPT !.status = "absent"]
  BY DEF CouponsInit
<1>2. coupon.used = 0 /\ coupon.status = "absent" /\ coupon.terms = terms
  BY <1>1 DEF New
<1>3. \A r \in Requests : req[r] = Idle
  BY DEF CouponsInit
<1>4. \A c \in Users : credits[c] = 0 /\ activities[c] = 0
  BY DEF CouponsInit
<1>5. Total(credits) = 0
  BY <1>4, SumOfZeros, CouponsAssumption DEF Total
<1>6. CountersOK
  BY <1>2, <1>3, <1>4, <1>5, IdleCounts DEF CountersOK
<1>7. OneBusy /\ Unborn
  BY <1>2, <1>3, <1>4 DEF OneBusy, Unborn
<1>9. \A r \in Requests : HandlerOK(req[r])
  <2>1. ASSUME NEW h, h.pc = "idle" PROVE HandlerOK(h)
    <3>1. h \notin Checks /\ h \notin WriteSteps
      BY <2>1 DEF Checks, WriteSteps, Writing
    <3>2. QED
      BY <2>1, <3>1 DEF HandlerOK
  <2>2. \A r \in Requests : req[r].pc = "idle"
    <3>1. Idle.pc = "idle"
      BY DEF Idle
    <3>2. QED
      BY <1>3, <3>1
  <2>3. QED
    BY <2>1, <2>2
<1>10. QED
  BY <1>6, <1>7, <1>9 DEF Serial

(* Nothing but a credit adds to credits.                                   *)
LEMMA OnlyCreditsCredit ==
    ASSUME CouponTypes, [CouponsNext]_couponsVars, NEW c \in Users, credits'[c] > credits[c]
    PROVE  \E r \in Requests : Credit(r)
<1>1. credits' # credits
  BY DEF CouponTypes
<1>2. QED
  BY <1>1 DEF CouponsNext, couponsVars, tables, Redeem, Earn, Refused, Admitted, Record,
              Use, Count, Issue, Die, UseWithBurn, Create, UpdateRow, LinkSegment,
              UnlinkSegment, Remove, ChangeMembers, Midnight

(* As long as requests come one at a time and none dies half-way, no       *)
(* redemption goes beyond the usage_limit and the max_usage_per_user in    *)
(* force, for any terms and whatever administrators make of them in        *)
(* between: couponValidations and checkAlreadyRewaredCoupons compare with  *)
(* what every earlier redemption has counted and recorded.                 *)
THEOREM UsesStayWithinLimits == CouponsSpec => LimitsKept
<1>1. ASSUME CouponTypes, Limits, [CouponsNext]_couponsVars, OneByOne',
             NEW c \in Users, credits'[c] > credits[c]
      PROVE  RoomFor(c)
  BY <1>1, OnlyCreditsCredit, CreditHasRoom
<1>2. CouponTypes /\ Limits /\ [CouponsNext]_couponsVars
        => [OneByOne' => \A c \in Users : credits'[c] > credits[c] => RoomFor(c)]_couponsVars
  BY <1>1
<1>3. CouponsInit => CouponTypes /\ Limits
  BY TypesInitially, LimitsInitially
<1>4. CouponTypes /\ Limits /\ [CouponsNext]_couponsVars => (CouponTypes /\ Limits)'
  BY TypesKept, LimitsKeptByNext
<1>5. QED
  BY <1>2, <1>3, <1>4, PTL DEF CouponsSpec, LimitsKept

=============================================================================
