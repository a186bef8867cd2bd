# Loyalty system: a TLA+ development

TLA+ models of the loyalty back end in this repository (NestJS, TypeORM, MySQL), checked with TLC and,
for the central invariants, proved with TLAPS. The models are translated from the code; where a comment or a
document says something else, a run shows the difference.

```
tlc -workers 2 -config Redemption_racing.cfg MCRedemption      # any run of the tables below
tlapm RedemptionProofs.tla                                     # any proof module
```

## 1. How the program runs

Every operation is an HTTP handler or a cron of a Node process. A handler is a chain of `await`ed calls of
TypeORM repositories; between two of them any other handler may run. The wallet code opens no transaction and
takes no lock. `repository.save(entity)` re-reads the row and writes the columns in which the entity differs from
it: the row becomes the entity, and whatever another handler saved since the entity was loaded is undone. Hence
the one modelling decision all modules share:

> a handler is a record in a variable (`req`, `run`): its place in the code (`pc`) and the entities it holds in
> memory; one action is one awaited statement with the synchronous code around it; a handler that dies
> (`Fail`) forgets its memory, what it has saved stays saved.

A save is atomic (TypeORM reads and writes in it; the row has one writer at a time in MySQL). Reads go to the
primary: the lag of the read replica (`src/src/app.module.ts:75`) is not modelled.

## 2. Inventory

| Component | State | Operations | Hard behaviour | What makes it correct |
|---|---|---|---|---|
| Burn rule | a row of `rules` | `calculateMaxBurn` and two inline copies | floors, caps, a zero factor | the result is admissible, and the greatest admissible |
| Checkout API (`/loyalty`) | `wallet`, `wallet_transactions`, `burn_otps` | burn-rule, request, confirm, refund | confirmations and refunds racing, retries, a crash between the two saves | no overdraft, no vanishing points, one refund, ledger = balance |
| Burning API and codes (`/burning`) | the same tables | request, confirm, otp/generate, otp/verify | a code expiring, re-linked, consumed twice | every burn has its code, the rule's caps hold |
| Wallet service | `wallet`, `wallet_transactions`, `wallet_settings` | addTransaction, updateWalletBalances, settings, orders | whole-row saves of stale copies | balances add up to the ledger |
| Nightly crons | the same, and the batch in memory | unlock, expire, delete logs | two crons at midnight, missed nights, a row that breaks the batch | status moves forward, each transaction unlocked and expired once and eventually |
| Earning (events, campaigns, fuel stations) | `wallet`, `wallet_transactions`, `customer_activity` | earnWithEvent, earnPoints, burnWithEvent, burnTransaction, gvr earn and burn, campaign burns | frequency limits looked up, then acted on; rows without a date | a once-only reward is given once, no overdraft |
| Qitaf | `qitaf_transactions`, and the points at STC | OTP, redeem, reverse, reward, update | timeouts with unknown outcome, retries, automatic reversal | the log and STC are one account; a reward is given once |
| Coupons | `coupons`, `user_coupons`, usages, activities, segment links | create, update, remove, import, earn, redeem, burn with a code | limits checked, then acted on, over five tables | usage limits hold; no trace without its points |
| Coupon conditions | conditions, tiers | checks, criteria told on refusal, discounts by tier | two formats written by different hands | what a refusal asks for is accepted |
| Invoices (resty) | `resty_invoice_clean`, `resty_invoices_info`, wallet | import, banner, claim, assignment | restarted paging, two payers, undo by hand | an invoice is paid once, none skipped |
| Accounts | `customer`, wallets, codes, referrals | OTP sign-in, partner registration, import, profile, referral, deletion | double verification, half-made customers | one account per number, bonuses once |
| Vehicles | `vehicle`, the workshops' list, listings for sale | add, list and synchronise, value, sell, delete | background saves of old copies, accounts that end | a plate once, deleted stays hidden, nothing lost |
| Campaigns, rules, offers, segments | configuration and its link tables | create, update, remove, members, codes of an offer | forms compared with snapshots, overlapping edits | what was asked is stored, a code for one customer |
| Tiers | `tiers`, a wallet's total | current tier, next tier | two reads of what others change | the next tier follows from the points |
| Tenants, business units, integrations, terminals, partners | configuration | CRUD | none | constants of the models |
| Notifications, logs, audit, analytics, master data, stubs | append-only or read-only | | failures are caught | nothing decides on them, not modelled |

Interactions: `/loyalty` and `/burning` share the wallet, the transaction table and the codes (a transaction
requested by one may be confirmed through the other); the crons, events, invoices, coupons and fuel stations write
the same wallet rows; earning and refunding insert the transactions the crons unlock and expire; the checkout API
delegates a business unit of type `otp` to Qitaf; campaigns admit customers by segments and tiers and redeem coupons
of theirs; signing up rewards by events, and a deleted account takes its vehicles along. `PROJECT.json` lists every
component with its status, and the hazards at their lines.

## 3. Modules

| Module | Models | Extends |
|---|---|---|
| `BurnRule` | the arithmetic of a burn, pure | |
| `Handlers` | `req`, the requests in flight, and how one moves on or returns | |
| `Redemption` | `/loyalty` (points programs) and `/burning` over one wallet | `BurnRule` |
| `RedemptionProofs` | the arithmetic is right for every rule; inductive invariant and its theorems; handlers one at a time: codes, the ledger | `Redemption`, `SharedLemmas`, TLAPS |
| `PointsLifecycle` | earning, burning, the unlock and expiry crons | |
| `PointsLifecycleProofs` | types, the ledger; one instance of the crons: statuses move forward, a transaction expires once | `PointsLifecycle`, `SharedLemmas` |
| `PartnerAccount` | abstract: what a partner that keeps the points and the log of it promise each other | |
| `Qitaf` | the calls to STC and their log, a network between; implements `PartnerAccount` | |
| `QitafProofs` | types, the refinement, rewards given once, redemptions logged | `Qitaf`, TLAPS |
| `SharedLemmas` | lemmas: least and greatest integers, finite sets, what `SumFunctionOnSet` adds up | Functions, TLAPS |
| `Coupons` | one coupon, from creation to deletion | `Handlers` |
| `Eligibility` | tiers, conditions of coupons, what a discount pays | `Handlers` |
| `Invoices` | import, banner, claim and assignment of a customer's invoices | |
| `InvoicesProofs` | paid once, none skipped, the balance explained, what is claimed is paid | `Invoices`, `SharedLemmas` |
| `Accounts` | the accounts of one phone number | `Handlers` |
| `Earning` | rules that give and take points, of one customer | `Handlers` |
| `EarningProofs` | types, no overdraft, rewards given as often as their rule says; tiers, discounts and conditions | `Earning`, `Eligibility`, `SharedLemmas` |
| `Vehicles` | the vehicles of one phone number | `Handlers` |
| `Catalogue` | campaign, rule, offer and segments under administrators' edits | `Handlers` |
| `NumberProofs` | vehicles: a plate once, deleted stays hidden, nothing lost; accounts: one per number, bonuses once | `Vehicles`, `Accounts`, TLAPS |
| `CatalogueProofs` | edits take effect, codes, issues and links, removals; activities follow credits, the limits of uses | `Catalogue`, `Coupons`, `SharedLemmas` |

Each `MC` module extends its module with the values that a `.cfg` cannot write (functions, records) and the symmetry
sets; `MCCatalogue` extends `Catalogue` and `Coupons`, and its behaviours are those of one or of the other (`part`).
Components share no state: what another does to a row appears as an action of its own where it matters (`Other` in
`Invoices`, `ChangeTotal` in `Eligibility`, `ChangeMembers` in `Coupons`). `req` of `Handlers` is a variable of each
specification, not a table that two of them write: `NumberProofs`, `EarningProofs` and `CatalogueProofs` extend two
components each and prove about one specification at a time (`AccountsSpec` or `Spec` of `Vehicles`, `EligibilitySpec`
or `Spec` of `Earning`, `CouponsSpec` or `Spec` of `Catalogue`), never about their conjunction.

History variables (marked "history" in the modules) record what a property speaks of. No action reads them in a guard,
except for bounds, and except `told` of `Qitaf`: a cashier reverses a redemption whose GlobalId the till was told. `overlap`
(`raced` in `Coupons` and `Eligibility`) says that something happened while a request was in flight; properties that begin
with it are claims about requests one at a time, which the code does keep, where the check-then-act races it does
not exclude are known (section 4, "What the code does not keep").

### BurnRule

A balance is `decimal(10,2)`: points are counted in hundredths of a point, here and in `Redemption`, `PointsLifecycle` and
`Earning`. An invoice amount is in SAR and a discount in hundredths of a halala, so that a hundredth of a point is worth
`Factor` of them, and the code's `(amount * percent) / 100` SAR is `100 * amount * Percent`. Only the third cap is floored
to whole points, as `Math.floor` does: the result may have the fraction of the balance. `MaxBurn` is `calculateMaxBurn`;
`Admissible` is the declarative reading of its three caps. Floating-point rounding of factors that are not whole halalas is
outside the model.

### Redemption

| Variable | Code |
|---|---|
| `tenant` | which APIs the tenant uses, `otp_burn_required`; chosen in `Init`, never changes |
| `wallet` | `available_balance`, `total_burned_points` of the wallet row |
| `txs` | `wallet_transactions` (type, status, point_balance, amount, invoice_id, source_id) |
| `otps` | `burn_otps` (transaction_uuid, used, expires_at); the id stands for the six digits |
| `now` | the clock, which codes expire by |
| `req` | the handlers in flight |
| `failures` | handlers that have died |

| Handler | Actions, in order |
|---|---|
| `CheckoutService.requestTransaction` | `CheckoutRequest`, then `NewOtp` if codes are required |
| `BurningService.burnTransaction` | `BurningRequest`, `AddTransaction`, `FindOtp`, `RelinkOtp` or `NewOtp` |
| `CheckoutService.confirmTransaction` | `ConfirmBegin` / `ConfirmRefused`, `CheckOtp`, `ConsumeOtp`, `CheckoutLoadWallet`, `SaveTx`, `SaveWallet` |
| `BurningService.confirmBurnTransaction` | `ConfirmBegin` / `ConfirmRefused`, `BurningLoadWallet`, `CheckOtp`, `ConsumeOtp`, `BurningApply`, `SaveTx`, `SaveWallet` |
| `CheckoutService.refund` | `RefundBegin`, `AddRefund`, `RefundLoadWallet`, `SaveRefund` |
| `BurningService.generateOtp` | `GenerateOtp`, `TouchOtp`; or `GenerateFindExpired`, `GenerateCheckPending`, `NewOtp` |
| `BurningService.verifyOtp` | `VerifyOtp`, `ConsumeOtp` |

The order of the two APIs differs where the code's does: `/burning` loads the wallet before it looks at the code,
`/loyalty` after. The cashier's inputs (amount, points, invoice, transaction) are chosen from small sets; a wrong
code is the disjunct of `CheckOtp` that returns.

`available_balance` is `decimal(10,2)`, but `total_burned_points` (`wallet.entity.ts:89`) and a transaction's `point_balance`
(`wallet-transaction.entity.ts:120`) are `int`: `WalletRow` and `TxRow` round what is stored there (`Stored`), while the
entity in memory keeps what it was given. The points a cashier sends are whole, so that a fraction is burned where the
balance caps the burn, as a whole; the row then has the rounded points, and `RefundBegin` reads those.

Not modelled: look-ups of customer and tenant, the ten attempts at a code nobody else holds, notifications, earning
while redeeming, and a request without `points_to_burn`.

### PointsLifecycle

| Variable | Code |
|---|---|
| `setting` | `wallet_settings` (method, pending_days, expiration_value) and the sources of points |
| `wallet` | `total_balance`, `available_balance`, `locked_balance`, `total_burned_points` |
| `txs` | `wallet_transactions` (type, status, point_balance, unlock_date, expiry_date, created_at set or not, source_id) |
| `day`, `due` | the date; the crons that have not started tonight |
| `run` | the handlers: requests, and the two crons of every instance |
| `failures`, `overlapped` | handlers that died; whether two were ever in flight together |

| Handler | Actions, in order |
|---|---|
| `earnWithEvent` | `EarnWithEvent` (with `addTransaction`'s load), `InsertTx`, `SaveWallet` |
| a burn through `addTransaction` | `Burn` or `BurnRefused`, `InsertTx`, `SaveWallet` |
| `creditWallet` (rules and campaigns) | `CreditWallet`, `CreditLoad`, `CreditSave`, `CreditInsert` |
| unlock cron | `UnlockStart`, then per transaction `UnlockNext`, `SaveWallet`, `Mark` |
| expiry cron | `ExpireStart`, then per transaction `ExpireNext`, `ExpireLoad`, `InsertTx`, `SaveWallet`, `Mark` |

Each row of a batch carries its own copy of the wallet as the batch's query found it (`snap`): TypeORM builds one
entity per joined row. Balances are in hundredths; a row stores whole points (`InTable`), as does the total burned
(`Saved`), and `addTransaction` adds or deducts the points of the call, not those stored. The job's transaction entity
is not kept: the crons only change a row's status, so saving the entity is setting the status. Ids are in the order of
`created_at`. `Midnight` waits for the crons of the day to end: a night's batch is done within the day.

### Qitaf and PartnerAccount

| Variable | Code |
|---|---|
| `qtx` | `qitaf_transactions`, in order of `created_at` |
| `call` | requests in flight: place, GlobalId, reference, attempt, answer |
| `ops`, `net` | the operations GlobalIds stand for, and the requests STC has yet to receive |
| `executed`, `reversed` | STC: operations it carried out, redemptions it gave back |
| `told` | what callers were told |

| Handler | Actions |
|---|---|
| `requestOtp` | `RequestOtp` |
| `redeemPoints`, directly or from `confirmTransaction` | `Redeem`, then `RedeemSucceeds`, `RedeemLogged` / `RedeemNotLogged`; `RedeemReverses`, `Reversed`; or `RedeemFails` |
| `reverseRedeem`, `reverseRedeemByMsisdn`, `CheckoutService.refund` | `ReverseRedeem`, `ReverseRedeemByMsisdn`, `Refund`, then `Reversed` |
| `earnReward`, `tryAutoEarnRemaining`, `updateReward` | `EarnReward`, `TryAutoEarn` / `NoAutoEarn`, `UpdateReward`, then `RewardRetries`, `RewardReturns` |
| STC (external) | `Process`: executes a GlobalId at most once, in any order, also after the caller stopped waiting |

`PartnerAccount` has four steps: carry out, return, record, record a return. `Qitaf` implements it with `done` the
executed GlobalIds, `returned` the reversed redemptions, `recorded` and `recordedReturns` read off the log.

### Coupons

`coupon`, `linked`, `inSegment`, `rows` (`user_coupons` per customer), `activities` are tables. A redemption is
`Redeem` (the coupon), `Refused` or `Admitted` (segments, assignment, `couponValidations`), then `Credit`, `Record`,
`Use`, `Count`: one save each; the same path by a campaign takes its audience from `CampaignAudience`. `Earn` and
`Issue` are `earnCoupon`; `UseWithBurn` the coupon branch of `addTransaction`; `Create`, `UpdateRow`, `LinkSegment`,
`UnlinkSegment`, `Remove`, `ChangeMembers` the administrators'. An update assigns the form to the row
(`Object.assign(coupon, dto)`, `coupons.service.ts:697`): status, audience and all terms (`AssignRow`). What a
coupon's conditions compare is in `Eligibility`.

### Invoices

`view` is the shops' database; `clean` and `info` the two tables a run of `processLatestInvoices` fills (`Sync`:
fetch, clean, info; `SyncFails`). A claim (`Claim`) or an assignment (`Assign`) reads the customer's invoices and her
wallet once and goes through them (`Step`): already paid, paid by Qitaf, unrewarded, or `Pay`, `Insert`,
`SaveWallet`, `SaveRow`. `SaveFails`, `WalletFails` and `UndoFails` are the `catch` branches, `Banner` what the app
shows before a claim, `Answer` what the claim replies. The assigning job's `@Cron` is commented out in the code;
`AssignJob` puts it back, as `processUnclaimedInvoicesAndAssignPoints` is still there to be called.

### Accounts

`cust` are the customer rows of one number: status, code, login count, referrer, deleted or not. `GetOtp`, `SendOtp`,
`EnsureWallet` are `getOtp`; `VerifyOtp`, `SaveLogin`, `FetchProfiles` are `verifyOtp`; `SelectProfile`;
`Register`, `Activate`, `RegisterWallet` are `registerFromSpareit`; `Import` is `createCustomer`, `Upload` and
`AddCustomer` `findOrCreateCustomer` of a segment's file; `UpdateProfile`; `Refer`, `RewardReferrer`, `AddReferral`,
`SaveReferred` are `UpdateReferralInfo`, which searches the history of the referrer it is given for the number, and no
other's (`Referable`); `Look`, `Grant`, `GrantFails` an `earnWithEvent` in them; `ConfirmDeletion`
and `UpdateStatus`. `restoreAccount` cannot succeed for a deleted account (it looks for status 1, `profile.service.ts:449`)
and is left out.

### Earning

One customer: `wallet` in hundredths of points, `txs` (type, source, rounded points, date or none), `activities`.
Each of the seven entry points is one action that reads and decides (`EarnWithEvent`, `GvrEarnWithEvent`, `EarnPoints`,
`BurnWithEvent`, `BurnTransaction`, `BurnPoints`, `BurnPointsWithCampaign`; `GvrBurnBegin` and `GvrBurnNext` for the
loop over rules), followed by `AddLoad`, `Insert`, `SaveWallet` (`addTransaction`) or `Credit`, `CreditInsert`
(`creditWallet`), and `CreateCustomerActivity`. `Refused` is a condition that does not hold.

### Vehicles

`rows` are the vehicles of one number over its accounts; `resty` (the workshops' list) and `listings` (GoGoMotor) are
external. `manageCustomerVehicle` is `Manage`, `FindOrPrepare`, `SaveManaged`, `TellResty`; the other changes `Change`,
`Find`, `SaveCopy` or `SaveDeleted`; a sale `PostListing`, `StoreListing`, `Webhook`; `getCustomerVehicleV1` is `List`,
`Fetch`, `ReadLocal`, `Compare`, `SaveSynced`, `Show`, and then `Value` in the background; the deletion of an account
`CloseAccount`, `CloseCustomer`, `CloseVehicle`. A plate is `raced` once a handler writes a row of it while
another stands between its read and the write based on it.

### Catalogue

A campaign's and a rule's update are two actions (`Update...` takes the transaction's snapshot, `Commit...` writes by
the row what differs); an offer is saved, linked and issued in several (`CreateOffer`, `FillOffer`; `UpdateOffer`,
`SyncOffer`, `CommitOffer`); a customer who opens it is `OpenOffer`, then `PickCode` and `AssignCode`, or `GenerateCode`.
`CreateSegment`, `UploadSegment`, `LineFails`, `UpdateSegment`, `AddMember`, `InsertMember`, `RemoveMember` and
`RemoveSegment` are the segments'. Forms are records with the parts an administrator may leave out.

### Eligibility

`TierBenefits`, `ReadCurrent`, `ReadTier`, `Show` are the reads of `tierBenefits`. The caller's language is optional: the
ladder is then of all languages (`tiers.service.ts:631`), the current tier one with English texts or none (`:496`).

`Redeem`, `Pay`, `SaveCoupon` are a redemption whose discount depends on the tier, by its code or by a campaign. `AmountOff` is
what each path pays of a purchase: they read `discount_type` in different words (`FixedWord`), and what is not their word
is a percentage.

The checks of conditions are operators: `CheckSimple` and `CheckComplex` answer "yes", "no" or "error" (the code throws),
`SimpleCriteria` and `ComplexCriteria` are the criteria a refusal tells, `ValidComplex` and `AdmitSimple` how a campaign
compares what its caller sends. They read nothing of the state, so they are compared over all conditions, customers and
tiers of the instance in the initial state. What the two formats do differently is in the model: a value is a text or
a number (`trim` throws for a number), the complex check looks for a vehicle's field in lower case while the criteria tell it
as it is spelled, lists are split at bars or at commas, a variant may be an array or not.

`CriteriaSuffice` is about conditions that whoever meets them exactly meets: `Bringable` names a product, a count of
services or some of a vehicle's fields, compared by `==`, `>=` or `<=`; what excludes the exact value (`>`, `!=`) a refusal
cannot tell how to meet. Of these it says which are accepted when brought as told (`Obtainable`): all but simple services, whose
section is misspelt, values that are no texts where they are trimmed, and fields spelled with capitals in a complex coupon.

## 4. Runs

| Run | Asks | Bounds, and why they are enough |
|---|---|---|
| `redemption_racing` | what survives every interleaving and a crash | two handlers in flight, one failure, both APIs, without codes (`redemption_serial` has them); each race needs two handlers and one row they share |
| `redemption_refund_twice` | is an invoice refunded once | one handler, one invoice |
| `redemption_serial` | what one handler at a time keeps | longer histories instead: more rows and codes, and clock ticks beyond the codes' life, so that codes expire, are issued again and are re-linked |
| `points_nightly` | crons against each other and a request, a crash, missed nights, eventual unlock and expiry | two transactions, four days, one failure, one instance; settings with points spendable at once, locked a day, and from campaigns |
| `qitaf_calls` | delayed, lost and repeated calls to STC | two requests at once, four GlobalIds, one failure: a redeem, its automatic and a manual reversal, a reward retried while another call runs |
| `invoices_claims` | payment, undo and import | three invoices, two of one number, one paid by Qitaf, arriving in any order; two payers, three runs, one failure |
| `accounts_sign_up` | one account, bonuses once | two accounts of a number, two referrers, two requests at once, one disturbance; six requests one at a time, three if some overlap |
| `earning_rules` | frequencies, overdraft, rounding | two requests at once, three transactions, three days of two years, one disturbance; rules of each frequency |
| `vehicles_list` | synchronisation, deletion, sale, valuation | two cars, three rows, two accounts, two listings, four requests, one failure |
| `catalogue_edits` | sequences of and overlaps between edits; limits and traces of a coupon's redemptions | two customers, two requests at once; of the catalogue three segments and four calls; of a coupon three redemptions, two days, one edit (of limits too) or failure, and terms that limit all uses to two, and a customer's to one or the interval to a day |
| `catalogue_code_shared` | is a code told to one customer | the same catalogue, until two customers have one code |
| `eligibility_tiers` | the tier told, the discount paid, the conditions explained | two customers, two tiers, a language or none, discounts in both words, four calls; every simple and complex coupon of `MCEligibility` against every customer and tier |

What they show beyond the sentence in each property's comment:

- `redemption_racing`: the balance cannot go negative although updates are lost, since each handler deducts from the
  copy it writes back; a lost update can only give points back.
- `redemption_racing`, `redemption_serial`: rounding in the `int` columns costs half a point once, not once per burn, since a
  fraction is only ever burned with the whole balance, which leaves whole points: hence the slack of 50 hundredths in
  `PointsNeverVanish` and `CheckoutLedgerBalanced`.
- `redemption_serial`: without races the checkout ledger balances and a burn under codes has its own.
- `points_nightly`: one cron each night moves points forward only; `LedgerConserved` adds up what is available and locked, to
  half a point for each row that was rounded.
- `qitaf_calls`: the log and STC are one account whatever the network does; what stands at STC without a trace
  needs a failed connection or save.
- `catalogue_edits`, `earning_rules`, `accounts_sign_up`, `invoices_claims`: limits hold for requests one at a time, and
  `GivenOnce`, `WelcomedOnce` and `PaidOnce` bound the damage when they overlap, by one per request in flight
  (`GivenOnce` per rule and trigger).
- `invoices_claims`: the undo of a claim, which may fail itself, never leaves an invoice marked and unpaid.
- `vehicles_list`, `catalogue_edits`: whole-row saves lose nothing as long as no two requests touch the same plate, or, for
  campaigns and rules, at all.

### What the code does not keep

The code does not keep two of its comments; a run shows each:

| Run | The code says | What happens |
|---|---|---|
| `redemption_refund_twice` | a refund "always reverses 100%" (`checkout.service.ts:722`) | the burn stays ACTIVE and a second refund returns its points again |
| `catalogue_code_shared` | "Each coupon can only be assigned to one customer" (`offers.service.ts:832`) | two customers who open an offer at once are told one code |

The following are known from the models; the properties exclude them by name (`overlap`, `raced`, `moved`, `clean`,
`failures`) or do not speak of them; each is a hazard with its line in `PROJECT.json`:

- two confirmations in flight consume one code; two redemptions exceed a coupon's limit; two first calls get a once-only
  reward each; two lists of vehicles add a car twice;
- of a balance of 2.50 burned as a whole 3 points are recorded, and returned by its refund (`checkout.service.ts:737`);
- of two transactions of a wallet unlocked in one night the first one's points stay locked, since the second save starts
  from the wallet as the batch found it (`schedule.service.ts:207`);
- with two rows of campaigns, which have no `created_at`, in a batch its sort throws every night, and nothing expires
  (`schedule.service.ts:279`);
- several instances of the crons (`bin/build_multi_core_app.sh:28`) deduct expired points more than once; points that
  become PENDING after the unlock method was switched off stay locked;
- `/burning` records the points that were asked for and takes those the rule admits (`burning.service.ts:608`), so that its
  ledger and the balance differ; burned points are attributed to transactions that have expired already, so that points
  that were spent expire again (`schedule.service.ts:329`);
- `creditWallet`'s undated rows also defeat daily and yearly limits of campaigns (`customer.service.ts:1448`);
- a redeem executed after its reversal was refused stands at STC as "automatically reversed", and a manual reversal is
  reported as successful whatever STC answered (`qitaf.service.ts:1173`);
- a coupon is redeemed after `date_to` while it is active (`coupons.service.ts:1319`);
- an invoice that reaches the view after a newer one is never imported; what an assignment leaves half-done
  ("Will self-heal on next cron run", `resty.service.ts:1575`) waits for a cron that is commented out;
- an import or an upload may add a customer for a number that has one (`customer.service.ts:172`,
  `customer-segment.service.ts:390`);
- somebody else is rewarded for referring a second account of a number (`profile.service.ts:498`);
- a rate of one customer's tier is saved with the coupon (`customer.service.ts:1940`) and paid to others; a fixed discount is
  `fixed` for one path (`coupons.service.ts:1221`) and `fixed_discount` for the other (`customer.service.ts:1905`), which take
  each other's for a percentage;
- who brings what a refusal tells is refused again if a simple coupon asks for services (`coupons.service.ts:3063`) or a complex
  one for a field spelled with a capital (`:3013`, `:1694`), and the check throws for a number (`:1607`);
- a campaign compares what its caller sends: a coupon for users of a domain admits nobody (`customer.service.ts:2126`), nor one
  whose vehicles have a variant that is no array (`:2072`);
- a customer of two segments of an offer is issued it by each, and one who changes segments may get none
  (`offers.service.ts:486`).

Every property of a passing run is also run against a mutant, a definition changed as a plausible bug would change it
(the operators marked "Mutant" in the modules), and is violated by it.

Deadlock is not checked where a model stops at its bounds: when requests, rows or the clock are used up.

### Fairness

Only `PointsLifecycle` has liveness properties. `Fairness` is weak fairness of `Midnight` and of each cron: the
scheduler fires every night while the process runs, and a cron that has started is an async function whose awaits
return or throw (`Fail`). Requests have none: nobody has to call. A dead cron is not retried until the next
midnight, so the properties speak of transactions due `MaxFailures` nights before the last day of the model. The other
components answer requests and have no schedule of their own, except the import of invoices, of which only safety is
claimed.

## 5. Proofs

All for every value of the constants (any number of requests, any tenant configuration, any rule, any number of
retries and failures):

| Theorem | Says |
|---|---|
| `MaxBurnIsAdmissible`, `MaxBurnIsGreatest` | the burn computed is within the three caps, and no whole number of points within them is greater |
| `Invariance` | `Spec => []IInv`, the inductive invariant of `Redemption` |
| `TypeCorrectness` | `Spec => []TypeOK` |
| `NoOverdraft` | `Spec => []AvailableNeverNegative` |
| `NoPointVanishes` | `Spec => []PointsNeverVanish` |
| `BurningWithinRule` | `Spec => []BurningRespectsRule` |
| `SerialAlways` | the inductive invariant of `Redemption` for handlers one at a time |
| `BurnsHaveCodes` | `Spec => []EveryBurnHasItsCode`, for handlers one at a time |
| `CheckoutLedgerBalances` | `Spec => []CheckoutLedgerBalanced`, for handlers one at a time |
| `LifecycleInvariance` | `Spec => []LInv`, the inductive invariant of `PointsLifecycle`, for one instance |
| `StatusesMoveForward` | `Spec => StatusMovesForward`, for one instance |
| `ExpiredOnce` | `Spec => []OneExpiryPerEarn`, for one instance |
| `TypeCorrect` | `Spec => []TypeOK` of `PointsLifecycle` |
| `LedgerIsConserved` | `Spec => []LedgerConserved`, for any number of instances |
| `InvariantHolds` | `Spec => []QInv`, the inductive invariant of `Qitaf` |
| `TypeCorrect` | `Spec => []TypeOK` of `Qitaf` |
| `QitafIsAnAccount` | `Spec => ImplementsAccount`: `Qitaf` refines `PartnerAccount` |
| `RewardsOnce` | `Spec => []RewardedOncePerCall` |
| `StandingLogged` | `Spec => []StandingIsLogged` |
| `TypeCorrect` | `Spec => []TypeOK` of `Earning` |
| `NeverOverdraws` | `Spec => []NeverOverdrawn` |
| `GivesOnce`, `GivesOncePerPeriod` | `Spec => []GivenOnce`, `Spec => []OncePerPeriod` |
| `CreditsPrecedeTraces` | `CouponsSpec => []TraceFollowsCredit` |
| `UsesStayWithinLimits` | `CouponsSpec => LimitsKept`, an action property: the limits in force at the credit, whatever edits there were |
| `PaysOnce` | `Spec => []PaidOnce` of `Invoices` |
| `SkipsNothing` | `Spec => []NothingSkipped` |
| `BalanceIsExplained` | `Spec => []BalanceExplained` |
| `ClaimsOnlyPaid` | `Spec => []ClaimedIsPaid` |
| `CopiesStayTrue` | `Spec => []VInv`, the inductive invariant of `Vehicles` |
| `PlateOnce`, `DeletedStaysHidden` | `Spec => []OneActivePerPlate`, `Spec => []HiddenOnceDeleted` |
| `NoUpdateLost` | `Spec => NothingLost`, an action property |
| `AccountsHold` | `AccountsSpec => [](AccountsBase /\ AccountsSerial)`, the inductive invariant of `Accounts` |
| `NumberHasOneAccount`, `ReferrerRewardedOnce` | `AccountsSpec => []OneAccount`, `AccountsSpec => []ReferredOnce` |
| `CustomerWelcomedOnce` | `AccountsSpec => []WelcomedOnce`, where the rule for signing up gives once |
| `RemovedIsNotBroughtBack` | `Spec => RemovedStaysRemoved` of `Catalogue`, an action property |
| `CodesAreSole` | `Spec => []OneCodeEach` |
| `EditsTakeEffect` | `Spec => []AsAsked` |
| `OfferIssuedWhereLinked` | `Spec => []IssuedWhereLinked`, for any overlap of edits |
| `RedemptionsPaidAsEntitled`, `ShownTierFollows` | `EligibilitySpec => []PaidAsEntitled`, `EligibilitySpec => []NextTierFollows` |
| `CriteriaAreEnough`, `EchoPasses` | `EligibilitySpec => []CriteriaSuffice`, `EligibilitySpec => []EchoIsAccepted` |

`AvailableNeverNegative` is not inductive: nothing in it speaks of the copies of the wallet that handlers hold and
will save. `IInv` adds that every such copy was a good row (`GoodWallet`: not negative, and either the balance still has the
fraction it began with and no points are missing from balance and burned together, or both are whole points and add up
to what the initial balance rounds to), that what a handler will deduct is covered by its own copy, and is whole points
unless it is all of it, and, for `/burning`, admissible for it. That is why rounding never adds up: a row in whole points stays
in whole points. Each save then writes a good row whatever the row has become meanwhile. The proofs go action by action; the
deduction steps use the lemmas about the arithmetic. Assumptions: `RuleAssumption` and `RedemptionAssumption`, which TLC
evaluates on every run.

`StatusMovesForward` needs to know that the batch a cron is working through is still in the state the query found: a
row in the unlock batch is PENDING, one in the expiry batch ACTIVE, until that cron itself marks it. That is true
because each status has one cron that leaves it, and each cron one instance; the theorems assume
`SingleInstance`. With several instances two of them hold the same row in their batches, and neither theorem holds.
`OneExpiryPerEarn` needs in addition that an EXPIRE row without an EXPIRED transaction is one the cron has just inserted
and will mark (`ExpiryRowsOK`), which a cron that dies in between breaks, so `LInv` claims it while `failures = 0`.

The refinement of `PartnerAccount` needs two facts that no single table shows. A row may call an operation a success only
because the answer in the handler's memory is true (`ReplyOK`): an "ok" means that STC has executed the GlobalId, a
"1040" that the redemption is reversed, and both stay so. And a redemption must be recorded before it is returned: until
its handler logs it nobody can have asked for its reversal, since its GlobalId has been told to no caller, is in no
row a refund is looked up in, and no reversal refers to it (`Unknown`). `QInv` is these two, with what GlobalIds stand
for. Every step of `Qitaf` is then one of four steps of the account, or changes nothing in it. `RewardsOnce` adds that
of two GlobalIds of one reward call, one is `Dead`: STC refused the first with 2311, has not executed it, and
no request for it is on its way; after a timeout there is no second GlobalId. Assumption: `QitafAssumption` (the bounds
are natural numbers and there are at least two attempts).

`StandingLogged` follows what became of a redemption (`Followed`): it is in the log, or its handler is still there, or it
is `Gone`, neither executed nor on its way. The last is stable because a redemption is sent once (`SentOnce`), so that its
refusal removes the only request there is, and only a reward is ever sent again under its id.

### Handlers one at a time

Many properties are about handlers one at a time (the code has no locks, section 1). In `Redemption` that is an
assumption, `SerialCalls == MaxInFlight = 1`; elsewhere the property says it of a behaviour, by `overlap` or
`overlapped`, and nothing is assumed. The invariants say the same in each: what the only handler holds is still what
the tables hold, and the ledgers differ by what it has yet to write.

- `Redemption`: `Serial` says which rows a handler's copies equal at each place of its code, and that a handler past its
  code has consumed it. `Paid` says by how much the balance is ahead of the rows, or behind them: a confirmation saves the
  transaction first and then the wallet, a refund inserts its row first. The balance `Settles` the rows when it is exactly
  what they leave while it has its fraction; once that is burned (and rounded in its row) both are off by the rounding of the
  initial balance, whatever is burned and refunded then (`BurnSettles`, `RefundSettles`).
- `PointsLifecycle`: `Ledger` says that the row is inserted before the wallet is saved, so that what the handler is
  about to save is balanced although the wallet is not; and that the copies of the wallet an unlock batch carries, one
  per row, are balanced, though they are old by the time they are written; each row adds at most half a point to the
  slack. Only events are counted: `creditWallet` saves first.
- `Earning`: `NeverOverdrawn` holds of every interleaving, since every place that will write carries the balance the
  points were compared with (`Types`). `GivenOnce` and `OncePerPeriod` are invariants about the rewards of a rule that are
  stored and those that a handler will store (`Granting`): a handler gets on its way only past the look at
  earlier rewards.
- `Coupons`: `Trace` holds of every interleaving: a customer's activities and her requests about to record one are
  no more than her credits. `Serial` bounds the uses: the coupon's counter and the credits differ by one while the
  one request writes. An invariant that bounds the uses by the limits would be false, since a limit may be lowered below the
  uses so far; the step that credits has compared them with the limits of the copy, which is the coupon if no edit came between.
- `Invoices`: `Backed` and `Once` hold of every interleaving and count requests by invoice and by number: who holds a
  transaction may undo it, so that each has one of its own; who is about to insert one is bounded with what is
  inserted. `Imported` is about a run of the import alone: what it has fetched has new numbers only, and with an
  invoice it has fetched everything that is not newer, but for what arrived late and what is stored already.
  `Settled`, `Books` and `Fair` are about one request at a time: the invoices of a number paid are marked or still
  ahead of it, the wallet is explained by the payments but for what it has in memory, and its copies of rows are the
  rows.

### Copies that stay true

`Vehicles` has any number of requests at once and excludes only the plates that are `raced`: written by one request while
another holds a copy, or the knowledge that there is none. `VInv` is what each request may rely on for the other
plates, place by place of its code. A copy has the row's status and listing, and its valuation or a newer one (`FreshOK`); a
row about to be inserted has no counterpart (and, from the workshops' list, the plate no deleted row: `Kept`); plates of
the list that were not in the table are not in it now (`Missing`). A copy of a sale is exempt, since the sale writes one
column. A save is then one of a few kinds (`Stored`), each of which leaves the table in order (`TableStays`) and, of
the others' plates, either nothing changed or the plate is raced from now on (`OthersStay`). `OneActivePerPlate` and
`HiddenOnceDeleted` follow from the table, `NothingLost` from `Stored` and `[Next]_vars`. A hidden vehicle needs more than
its absence to stay away from later accounts: `HiddenOK` keeps a deleted row of its plate, which is what the
list's sync looks for.

### Accounts

Any number of requests may overlap or die; `AccountsBase` says of all of them that what they hold are accounts of the
number that exist. Whether the number has *one* account is a claim about requests one at a time, and `Alone` says what
the only handler may rely on: a row about to be inserted has no rival (`Login = {}`), a row about to be saved is the
stored one, and a registration that found an external account activates that one. That `ReferredOnce` survives
deletion and a second sign-up is `references[p] <= referrals[p] + failures` for each referrer `p`, with one more between the
reward and the row in his history that a later sign-up looks for; nothing bounds the rewards of all referrers together, since
each is asked for his own history only. `WelcomedOnce` has two halves with different arguments. "At most once" holds of
every interleaving, since a request past its look at earlier rewards is counted with those that are stored
(`AccountsWelcome`): each of the requests at once may add one, and with one request at a time the look is up to date. "At
least once" is a debt (`Owes`): a customer who has logged in is welcomed, or the only handler still has the event
before it, which only a handler that dies forgets. The theorem assumes that the rule for `sign_up` has the frequency
once; where it does not, the code does give it more than once.

### Edits

`AsAsked` follows from `TableInv`: a table of links is the last form's items, each once, with the form's rates, and the
snapshot of the only edit is the table. What the proof has to find out is that comparing by item (to add), by id (to
keep) and by item again (to rate) agree, which they do since neither an item nor an id is there twice. `CodeInv` is
the same for the codes of an offer, between the look for a free code and its assignment.

`IssuedWhereLinked` claims something of overlapping edits too, which no snapshot argument gives: each edit adds and
deletes by what it read, a link may be there twice or be deleted by two. `Matched` says what remains true: for a
customer of exactly one segment there is a one-to-one map from the links of the segment to his issues, and *every
edit in flight has read a link if and only if it has read its issue*. Links and issues are inserted together, by one
commit, so that nobody reads one without the other; an edit deletes the links of the segments it drops and the issues of
their customers, as it read them, hence always both of a pair. A customer of two segments has issues that both
segments' links would claim, and one who moves has issues of a segment he is no longer in: hence `SoleMember` and
`moved`.

### Conditions and tiers

`CriteriaSuffice` is about the operators that check conditions and tell criteria, for every list of conditions: the
entries of a complex coupon are of different kinds (`Distinct`), so that each section of the criteria is told by one
entry (`EntryMet`), in the order `Max` and `Min` pick; what is told for an entry passes that entry's check just if it is
`Obtainable`, in both formats, and what the other entries add to the order does not disturb it. `EchoIsAccepted` goes
through the comparisons of a campaign the same way, type by type: equal rows for most, the customer's own data for the rest.
`PaidAsEntitled` keeps the discount of the coupon and of every copy equal to what was set until a rate or an overlap gets
into it (`DiscountKept`); the two paths then pay the same for a discount whose word is theirs. `NextTierFollows` keeps what a
look-up has read so far true while nothing else was called (`LookedUp`); the ladder is one read, so that the next tier is
right in any case, and the current tier is the highest of the ladder's tiers of the language it was looked for in.

Sums over tables (`PointsIn`, `PointsOf`, `Payments`, `Earned`) are `SumFunctionOnSet`, which is defined by a function
that is chosen by a recursive equation. `SharedLemmas` shows that this function exists, and that a sum changes by what one
index changes, from a smallest counterexample among the finite subsets, which needs no induction over an operator.

Further assumptions, all in the modules and evaluated by TLC. `EarningAssumption`, `CouponsAssumption`,
`InvoicesAssumption` and `AccountsAssumption` say that the slots for requests are finite (the process's memory is),
and that the terms, rates, rules and bounds are natural numbers. `CatalogueAssumption` says that segments, customers
and the parts of a form are finitely many and that forms name segments that may exist. `EligibilityAssumption` says
what a coupon's conditions may be: lists of entries, whose tiers are tiers and whose comparisons have a value, a text
or a number, as the administrators' form sends them; that a name in lower case is its own lower case; and that minima
are natural numbers.

Only model-checked:

- liveness (`PendingEventuallyUnlocked`, `EventPointsEventuallyExpire`): temporal logic with fairness is out of the
  prover's reach;
- what the code violates: `RefundedOnce` and `CodeToldToOne`.

Every other property of a run is a theorem. Induction over data and `RECURSIVE` operators are not used.

## 6. Not modelled, and why

| Left out | Because |
|---|---|
| guards, tokens, permissions, encryption, the validation of bodies | stateless; the models begin where a request is admitted. There is no global `ValidationPipe`, so what a service does not check itself reaches it, and the models let it |
| listings, searches, exports, reports, analytics, histories | read-only |
| languages, images, wording, notifications, sync and audit logs | nothing decides on them; where a notification's failure is not caught, it is a failure of the action that sends it |
| tenants, business units, integrations, terminals, partners, wallet settings | one save of one form each; constants of the models |
| wallet orders, preferences, workshops, feedback, makes and models | records of their own that the ledgers do not depend on |
| the operators of dynamic rules, metadata of fuel transactions | conversions of data no property tells apart: a rule's condition holds or does not |
| `handleRuleEarning`, `getServiceList`, `getCustomerVehicle`, `restoreAccount` for deleted accounts, endpoints that are commented out | nothing calls them, or they cannot succeed |
| `syncCoupons` | imports usage rows that no limit counts |
| the lag of the read replica | the models read what has been saved; where no replica is set (`DB_SLAVE_HOST`) the code does too (`src/src/app.module.ts:64`) |
| several instances of the crons | `PointsLifecycle` takes any number (`Instances`), the run has one: the properties are about one, see section 4 |
| openAI, object storage, master data, stubs | external, or no logic of the loyalty system |

## 7. Plan

1. `Ledger`, the abstract specification of a wallet (earn, burn, expire, return as single steps), refined by `Redemption`
   with one handler in flight and by `PointsLifecycle` without burns.
2. The lag of the read replica in `Redemption`: which of its properties need reads of the primary.
