------------------------------ MODULE Redemption ------------------------------
(***************************************************************************)
(* Redeeming points: the two APIs that burn the points of one customer's   *)
(* wallet, /loyalty/* (CheckoutService) and /burning/* (BurningService),   *)
(* with the one-time passwords (burn_otps) that guard a confirmation.      *)
(*                                                                         *)
(* The database is the wallet row, the wallet_transactions table and the   *)
(* burn_otps table.  A request is a handler in flight in the Node process: *)
(* every await is a step, and what the handler read before it is kept in   *)
(* the request's own memory (wal, ent, row), stale or not.  No handler     *)
(* opens a transaction or takes a lock.  repository.save(entity) writes    *)
(* the columns in which the entity differs from the row: the row becomes   *)
(* the entity, rounded where a column is an int (a transaction's points    *)
(* and the total burned; the available balance is decimal(10,2)).          *)
(*                                                                         *)
(* Points are in hundredths of a point, as in BurnRule.                    *)
(*                                                                         *)
(* Not modelled: customer and tenant look-ups (one active customer of one  *)
(* tenant and business unit, with one wallet and one burn rule),           *)
(* notifications, and points earned meanwhile.                             *)
(***************************************************************************)
EXTENDS BurnRule, FiniteSetsExt

CONSTANTS
    Requests,       \* slots for handlers in flight
    Tenants,        \* the configurations a tenant may have
    TTL,            \* tenant.otp_burn_ttl_minutes, in ticks
    InitialPoints,  \* the balance at the start, in hundredths
    Amounts,        \* invoice amounts (SAR) a cashier may send
    BurnPoints,     \* points_to_burn / burn_point a cashier may send: whole
    Invoices,       \* invoice ids
    MaxTx, MaxOtp, MaxTime,     \* bounds: rows of each table, clock ticks
    MaxInFlight,    \* bound: handlers in flight at a time
    MaxFailures     \* bound: handlers that die half-way

ASSUME RedemptionAssumption ==
    /\ Tenants \subseteq [apis : SUBSET {"checkout", "burning"}, otp : BOOLEAN]
    /\ TTL \in Nat
    /\ InitialPoints \in Nat
    /\ Amounts \subseteq Nat
    /\ BurnPoints \subseteq Nat
    /\ MaxTx \in Nat /\ MaxOtp \in Nat /\ MaxTime \in Nat
    /\ MaxInFlight \in Nat /\ MaxFailures \in Nat

VARIABLES
    tenant,     \* the APIs it uses, and otp_burn_required; never changes
    wallet,     \* the wallet row
    txs,        \* wallet_transactions: id -> row
    otps,       \* burn_otps: id -> row (the id stands for the code)
    now,        \* the clock
    req,        \* the handlers in flight
    failures    \* how many have died half-way (bounds Fail)

vars == <<tenant, wallet, txs, otps, now, req, failures>>

-----------------------------------------------------------------------------
(* Tables and entities.                                                    *)

TxIds == 1 .. MaxTx
OtpIds == 1 .. MaxOtp
NoInvoice == "null"

Wallets == [available : Int, burned : Nat]

TxRows == [type : {"none", "burn", "adjustment"},
           status : {"none", "not_confirmed", "active"},
           points : Nat, amount : Nat,
           invoice : Invoices \cup {NoInvoice},
           source : 0 .. MaxTx]         \* the burn an adjustment refunds

OtpRows == [tx : 0 .. MaxTx,            \* 0: not linked to a transaction
            used : BOOLEAN, expires : Nat]

NoTx == [type |-> "none", status |-> "none", points |-> 0, amount |-> 0,
         invoice |-> NoInvoice, source |-> 0]

NoOtp == [tx |-> 0, used |-> FALSE, expires |-> 0]

BurnTx(points, amount, invoice) ==
    [NoTx EXCEPT !.type = "burn", !.status = "not_confirmed",
                 !.points = points, !.amount = amount, !.invoice = invoice]

(* An int column holds whole points, half a point rounded up.              *)
Stored(points) == 100 * ((points + 50) \div 100)

WalletRow(available, burned) ==
    [available |-> available, burned |-> Stored(burned)]

TxRow(ent) == [ent EXCEPT !.points = Stored(@)]

(* INSERT of a new row, or UPDATE of an existing one.                      *)
Put(table, id, row) ==
    [i \in DOMAIN table \cup {id} |-> IF i = id THEN row ELSE table[i]]

Steps == {"addTx", "findOtp", "relink", "newOtp",           \* request
          "loadWallet", "checkOtp", "consume", "apply",     \* confirm
          "saveTx", "saveWallet",
          "addRefund", "refundWallet", "saveRefund",        \* refund
          "touch", "genFind", "genCheck"}                   \* otp/generate

(* A handler: where it is, and what it holds in memory.                    *)
Handlers == [pc : Steps \cup {"idle"},
             api : {"checkout", "burning"},
             tx : 0 .. MaxTx, otp : 0 .. MaxOtp,
             pts : Nat,         \* points sent by the cashier, or to deduct
             wal : Wallets,     \* the wallet entity it loaded
             ent : TxRows,      \* the transaction entity it holds
             row : OtpRows]     \* the OTP entity it holds

NoWallet == [available |-> 0, burned |-> 0]

Idle == [pc |-> "idle", api |-> "checkout", tx |-> 0, otp |-> 0, pts |-> 0,
         wal |-> NoWallet, ent |-> NoTx, row |-> NoOtp]

-----------------------------------------------------------------------------
(* Scheduling.                                                             *)

InFlight == {r \in Requests : req[r].pc # "idle"}

(* A new call may be taken up in slot r.                                   *)
Free(r) == req[r].pc = "idle" /\ Cardinality(InFlight) < MaxInFlight

(* The table has room for one row more than the handlers in flight may     *)
(* still insert (a bound of the model, not of the code).                   *)
TxRoom == Cardinality(DOMAIN txs)
            + Cardinality({r \in Requests :
                             req[r].pc \in {"addTx", "addRefund"}}) < MaxTx
OtpRoom == tenant.otp =>
           Cardinality(DOMAIN otps)
             + Cardinality({r \in Requests : req[r].pc \in
                   {"addTx", "findOtp", "newOtp", "genFind", "genCheck"}})
               < MaxOtp

(* The next auto-increment id.                                             *)
IsNextId(i, table, ids) ==
    i \in ids \ DOMAIN table /\ \A j \in ids \ DOMAIN table : i <= j

At(r, pc) == req[r].pc = pc
Return(r) == req' = [req EXCEPT ![r] = Idle]
Continue(r, handler) == req' = [req EXCEPT ![r] = handler]

(* used: 0, expires_at: MoreThan(now)                                      *)
ActiveOtp(o) == ~otps[o].used /\ otps[o].expires > now

-----------------------------------------------------------------------------
(* POST /loyalty/request-transaction, points program: insert a placeholder *)
(* whose points are decided when it is confirmed.                          *)
CheckoutRequest(r) ==
    /\ "checkout" \in tenant.apis /\ Free(r) /\ TxRoom /\ OtpRoom
    /\ \E amount \in Amounts, invoice \in Invoices \cup {NoInvoice},
          t \in TxIds :
         /\ amount >= MinAmount
         /\ IsNextId(t, txs, TxIds)
         /\ txs' = Put(txs, t, BurnTx(0, amount, invoice))
         /\ IF tenant.otp
            THEN Continue(r, [Idle EXCEPT !.pc = "newOtp", !.tx = t])
            ELSE UNCHANGED req
    /\ UNCHANGED <<tenant, wallet, otps, now, failures>>

(* burnTransaction of /burning: load the wallet and size the burn.         *)
BurningRequest(r) ==
    /\ "burning" \in tenant.apis /\ Free(r) /\ TxRoom /\ OtpRoom
    /\ \E amount \in Amounts, invoice \in Invoices \cup {NoInvoice} :
         /\ amount >= MinAmount
         /\ LET points == MaxBurn(wallet.available, amount)
            IN  Continue(r, [Idle EXCEPT !.pc = "addTx", !.api = "burning",
                               !.ent = BurnTx(points, amount, invoice)])
    /\ UNCHANGED <<tenant, wallet, txs, otps, now, failures>>

(* WalletService.addTransaction for a BURN that is NOT_CONFIRMED: reload   *)
(* the wallet, refuse an uncovered burn, insert, touch no balance.         *)
AddTransaction(r) ==
    /\ At(r, "addTx")
    /\ \/ /\ wallet.available < req[r].ent.points
          /\ Return(r)
          /\ UNCHANGED txs
       \/ \E t \in TxIds :
            /\ wallet.available >= req[r].ent.points
            /\ IsNextId(t, txs, TxIds)
            /\ txs' = Put(txs, t, TxRow(req[r].ent))
            /\ IF tenant.otp
               THEN Continue(r, [req[r] EXCEPT !.pc = "findOtp", !.tx = t])
               ELSE Return(r)
    /\ UNCHANGED <<tenant, wallet, otps, now, failures>>

(* Step 7 of burnTransaction: any active code of the customer is re-used.  *)
FindOtp(r) ==
    /\ At(r, "findOtp")
    /\ \/ \E o \in DOMAIN otps :
            /\ ActiveOtp(o)
            /\ Continue(r, [req[r] EXCEPT !.pc = "relink", !.otp = o,
                                          !.row = otps[o]])
       \/ /\ \A o \in DOMAIN otps : ~ActiveOtp(o)
          /\ Continue(r, [req[r] EXCEPT !.pc = "newOtp"])
    /\ UNCHANGED <<tenant, wallet, txs, otps, now, failures>>

(* Path A: save the entity found above, linked to this transaction.        *)
RelinkOtp(r) ==
    /\ At(r, "relink")
    /\ otps' = Put(otps, req[r].otp, [req[r].row EXCEPT !.tx = req[r].tx])
    /\ Return(r)
    /\ UNCHANGED <<tenant, wallet, txs, now, failures>>

(* A fresh code, linked to the handler's transaction (or to none).         *)
NewOtp(r) ==
    /\ At(r, "newOtp")
    /\ \E o \in OtpIds :
         /\ IsNextId(o, otps, OtpIds)
         /\ otps' = Put(otps, o, [tx |-> req[r].tx, used |-> FALSE,
                                  expires |-> now + TTL])
    /\ Return(r)
    /\ UNCHANGED <<tenant, wallet, txs, now, failures>>

-----------------------------------------------------------------------------
(* Confirming a transaction.  Both APIs look it up by uuid and test that   *)
(* its status is NOT_CONFIRMED; /burning goes on to load the wallet, and   *)
(* /loyalty loads it only after the one-time password.                     *)
ConfirmBegin(r) ==
    /\ Free(r)
    /\ \E t \in DOMAIN txs, points \in BurnPoints, api \in tenant.apis :
         /\ txs[t].status = "not_confirmed"
         /\ api = "burning" => points > 0
         /\ Continue(r, [Idle EXCEPT
              !.pc = IF api = "checkout" /\ tenant.otp THEN "checkOtp"
                                                        ELSE "loadWallet",
              !.api = api, !.tx = t, !.pts = 100 * points, !.ent = txs[t]])
    /\ UNCHANGED <<tenant, wallet, txs, otps, now, failures>>

(* "Transaction is already ..." / "Transaction already processed": the     *)
(* caller gets a 400 and nothing changes.                                  *)
ConfirmRefused(r) ==
    /\ Free(r)
    /\ \E t \in DOMAIN txs : txs[t].status # "not_confirmed"
    /\ UNCHANGED vars

(* Mutant: any active code of the customer will do.                        *)
CheckUnlinkedOtp(r) ==
    /\ At(r, "checkOtp")
    /\ \/ \E o \in DOMAIN otps :
            /\ ActiveOtp(o)
            /\ Continue(r, [req[r] EXCEPT !.pc = "consume", !.otp = o,
                                          !.row = otps[o]])
       \/ Return(r)
    /\ UNCHANGED <<tenant, wallet, txs, otps, now, failures>>

(* The code must be the customer's, linked to this transaction, unused and *)
(* unexpired; any other code is refused.                                   *)
CheckOtp(r) ==
    /\ At(r, "checkOtp")
    /\ \/ \E o \in DOMAIN otps :
            /\ ActiveOtp(o) /\ otps[o].tx = req[r].tx
            /\ Continue(r, [req[r] EXCEPT !.pc = "consume", !.otp = o,
                                          !.row = otps[o]])
       \/ Return(r)
    /\ UNCHANGED <<tenant, wallet, txs, otps, now, failures>>

(* Where a handler goes once its code is consumed: /otp/verify (which has  *)
(* no transaction) only reads from here on.                                *)
AfterOtp(h) ==
    IF h.tx = 0 THEN Idle
    ELSE [h EXCEPT !.pc = IF h.api = "checkout" THEN "loadWallet" ELSE "apply"]

(* otpRecord.used = 1; save(otpRecord).                                    *)
ConsumeOtp(r) ==
    /\ At(r, "consume")
    /\ otps' = Put(otps, req[r].otp, [req[r].row EXCEPT !.used = TRUE])
    /\ Continue(r, AfterOtp(req[r]))
    /\ UNCHANGED <<tenant, wallet, txs, now, failures>>

(* Mutants: the balance does not cap the points; the row records the       *)
(* points asked for, as /burning does.                                     *)
CheckoutUncapped(r) ==
    /\ At(r, "loadWallet") /\ req[r].api = "checkout"
    /\ Continue(r, [req[r] EXCEPT !.pc = "saveTx", !.wal = wallet,
         !.ent = [@ EXCEPT !.points = req[r].pts, !.status = "active"]])
    /\ UNCHANGED <<tenant, wallet, txs, otps, now, failures>>

CheckoutRecordsAsked(r) ==
    /\ At(r, "loadWallet") /\ req[r].api = "checkout"
    /\ Continue(r, [req[r] EXCEPT !.pc = "saveTx", !.wal = wallet,
         !.pts = Least(@, wallet.available),
         !.ent = [@ EXCEPT !.points = req[r].pts, !.status = "active"]])
    /\ UNCHANGED <<tenant, wallet, txs, otps, now, failures>>

(* /loyalty: the points asked for, capped by the balance only.             *)
CheckoutLoadWallet(r) ==
    /\ At(r, "loadWallet") /\ req[r].api = "checkout"
    /\ LET points == Least(req[r].pts, wallet.available)
       IN  IF points <= 0
           THEN Return(r)
           ELSE Continue(r, [req[r] EXCEPT !.pc = "saveTx", !.pts = points,
                  !.wal = wallet,
                  !.ent = [@ EXCEPT !.points = points, !.status = "active"]])
    /\ UNCHANGED <<tenant, wallet, txs, otps, now, failures>>

BurningLoadWallet(r) ==
    /\ At(r, "loadWallet") /\ req[r].api = "burning"
    /\ Continue(r, [req[r] EXCEPT !.wal = wallet,
                      !.pc = IF tenant.otp THEN "checkOtp" ELSE "apply"])
    /\ UNCHANGED <<tenant, wallet, txs, otps, now, failures>>

(* Mutant: the caps of the rule are left out.                              *)
BurningApplyUncapped(r) ==
    /\ At(r, "apply")
    /\ IF req[r].wal.available < req[r].pts
       THEN Return(r)
       ELSE Continue(r, [req[r] EXCEPT !.pc = "saveTx",
              !.ent = [@ EXCEPT !.points = req[r].pts, !.status = "active"]])
    /\ UNCHANGED <<tenant, wallet, txs, otps, now, failures>>

(* Step 4 of confirmBurnTransaction: the row records the points asked for, *)
(* the wallet pays what the rule admits of them.                           *)
BurningApply(r) ==
    /\ At(r, "apply")
    /\ LET asked == req[r].pts
           applied == Least(req[r].wal.available, asked)
       IN  IF req[r].wal.available < asked
           THEN Return(r)
           ELSE Continue(r, [req[r] EXCEPT !.pc = "saveTx",
                  !.pts = MaxBurn(applied, req[r].ent.amount),
                  !.ent = [@ EXCEPT !.points = applied, !.status = "active"]])
    /\ UNCHANGED <<tenant, wallet, txs, otps, now, failures>>

(* Mutant: the wallet pays the points on record, counts those of the rule. *)
SaveWalletApplied(r) ==
    /\ At(r, "saveWallet")
    /\ wallet' = WalletRow(req[r].wal.available - req[r].ent.points,
                           req[r].wal.burned + req[r].pts)
    /\ Return(r)
    /\ UNCHANGED <<tenant, txs, otps, now, failures>>

SaveTx(r) ==
    /\ At(r, "saveTx")
    /\ txs' = Put(txs, req[r].tx, TxRow(req[r].ent))
    /\ Continue(r, [req[r] EXCEPT !.pc = "saveWallet"])
    /\ UNCHANGED <<tenant, wallet, otps, now, failures>>

SaveWallet(r) ==
    /\ At(r, "saveWallet")
    /\ wallet' = WalletRow(req[r].wal.available - req[r].pts,
                           req[r].wal.burned + req[r].pts)
    /\ Return(r)
    /\ UNCHANGED <<tenant, txs, otps, now, failures>>

-----------------------------------------------------------------------------
(* POST /loyalty/refund, points program: any ACTIVE burn of the invoice.   *)
(* It returns the points of the row, as the table holds them.              *)
RefundBegin(r) ==
    /\ "checkout" \in tenant.apis /\ Free(r) /\ TxRoom
    /\ \E t \in DOMAIN txs :
         /\ txs[t].type = "burn" /\ txs[t].status = "active"
         /\ txs[t].invoice \in Invoices
         /\ Continue(r, [Idle EXCEPT !.pc = "addRefund", !.tx = t,
              !.pts = txs[t].points,
              !.ent = [txs[t] EXCEPT !.type = "adjustment", !.source = t]])
    /\ UNCHANGED <<tenant, wallet, txs, otps, now, failures>>

AddRefund(r) ==
    /\ At(r, "addRefund")
    /\ \E t \in TxIds : /\ IsNextId(t, txs, TxIds)
                        /\ txs' = Put(txs, t, TxRow(req[r].ent))
    /\ Continue(r, [req[r] EXCEPT !.pc = "refundWallet"])
    /\ UNCHANGED <<tenant, wallet, otps, now, failures>>

RefundLoadWallet(r) ==
    /\ At(r, "refundWallet")
    /\ Continue(r, [req[r] EXCEPT !.pc = "saveRefund", !.wal = wallet])
    /\ UNCHANGED <<tenant, wallet, txs, otps, now, failures>>

(* Mutant: total_burned_points is not kept at zero or above.               *)
SaveRefundUnclipped(r) ==
    /\ At(r, "saveRefund")
    /\ wallet' = WalletRow(req[r].wal.available + req[r].pts,
                           req[r].wal.burned - req[r].pts)
    /\ Return(r)
    /\ UNCHANGED <<tenant, txs, otps, now, failures>>

(* total_burned_points never goes below zero.                              *)
SaveRefund(r) ==
    /\ At(r, "saveRefund")
    /\ LET left == req[r].wal.burned - req[r].pts
       IN  wallet' = WalletRow(req[r].wal.available + req[r].pts,
                               IF left < 0 THEN 0 ELSE left)
    /\ Return(r)
    /\ UNCHANGED <<tenant, txs, otps, now, failures>>

-----------------------------------------------------------------------------
(* POST /burning/otp/generate.  Case 1: an active code is returned as it   *)
(* is, and its entity saved back (app_generate_count).                     *)
GenerateOtp(r) ==
    /\ tenant.otp /\ Free(r) /\ OtpRoom
    /\ \/ \E o \in DOMAIN otps :
            /\ ActiveOtp(o)
            /\ Continue(r, [Idle EXCEPT !.pc = "touch", !.otp = o,
                                        !.row = otps[o]])
       \/ /\ \A o \in DOMAIN otps : ~ActiveOtp(o)
          /\ Continue(r, [Idle EXCEPT !.pc = "genFind"])
    /\ UNCHANGED <<tenant, wallet, txs, otps, now, failures>>

TouchOtp(r) ==
    /\ At(r, "touch")
    /\ otps' = Put(otps, req[r].otp, req[r].row)
    /\ Return(r)
    /\ UNCHANGED <<tenant, wallet, txs, now, failures>>

(* The unused code that expires last names the transaction to link to.     *)
GenerateFindExpired(r) ==
    /\ At(r, "genFind")
    /\ LET unused == {o \in DOMAIN otps : ~otps[o].used}
       IN  \/ \E o \in unused :
                /\ \A p \in unused : otps[p].expires <= otps[o].expires
                /\ Continue(r, [req[r] EXCEPT !.tx = otps[o].tx,
                     !.pc = IF otps[o].tx = 0 THEN "newOtp" ELSE "genCheck"])
           \/ /\ unused = {}
              /\ Continue(r, [req[r] EXCEPT !.pc = "newOtp"])
    /\ UNCHANGED <<tenant, wallet, txs, otps, now, failures>>

(* Case 2 if that transaction still awaits confirmation, else Case 3.      *)
GenerateCheckPending(r) ==
    /\ At(r, "genCheck")
    /\ Continue(r, [req[r] EXCEPT !.pc = "newOtp",
         !.tx = IF txs[@].status = "not_confirmed" THEN @ ELSE 0])
    /\ UNCHANGED <<tenant, wallet, txs, otps, now, failures>>

(* POST /burning/otp/verify: consumes any active code of the customer.     *)
VerifyOtp(r) ==
    /\ "burning" \in tenant.apis /\ Free(r)
    /\ \E o \in DOMAIN otps :
         /\ ActiveOtp(o)
         /\ Continue(r, [Idle EXCEPT !.pc = "consume", !.otp = o,
                                     !.row = otps[o]])
    /\ UNCHANGED <<tenant, wallet, txs, otps, now, failures>>

-----------------------------------------------------------------------------
(* A handler dies between two awaits: the database refuses a statement, or *)
(* the process stops.  What it has saved stays saved.                      *)
Fail(r) ==
    /\ req[r].pc # "idle" /\ failures < MaxFailures
    /\ failures' = failures + 1
    /\ Return(r)
    /\ UNCHANGED <<tenant, wallet, txs, otps, now>>

Tick ==
    /\ tenant.otp /\ now < MaxTime
    /\ now' = now + 1
    /\ UNCHANGED <<tenant, wallet, txs, otps, req, failures>>

Init ==
    /\ tenant \in Tenants
    /\ wallet = [available |-> InitialPoints, burned |-> 0]
    /\ txs = [i \in {} |-> NoTx]
    /\ otps = [i \in {} |-> NoOtp]
    /\ now = 0
    /\ req = [r \in Requests |-> Idle]
    /\ failures = 0

Request(r) == CheckoutRequest(r) \/ BurningRequest(r) \/ AddTransaction(r)
              \/ FindOtp(r) \/ RelinkOtp(r) \/ NewOtp(r)

Confirm(r) == ConfirmBegin(r) \/ ConfirmRefused(r) \/ CheckOtp(r)
              \/ ConsumeOtp(r) \/ CheckoutLoadWallet(r)
              \/ BurningLoadWallet(r) \/ BurningApply(r)
              \/ SaveTx(r) \/ SaveWallet(r)

Refund(r) == RefundBegin(r) \/ AddRefund(r) \/ RefundLoadWallet(r)
             \/ SaveRefund(r)

OtpEndpoints(r) == GenerateOtp(r) \/ TouchOtp(r) \/ GenerateFindExpired(r)
                   \/ GenerateCheckPending(r) \/ VerifyOtp(r)

Next == \/ \E r \in Requests : Request(r) \/ Confirm(r) \/ Refund(r)
                               \/ OtpEndpoints(r) \/ Fail(r)
        \/ Tick

Spec == Init /\ [][Next]_vars

-----------------------------------------------------------------------------
(* Properties that hold whatever the interleaving and whatever fails.      *)

(* The tables, the wallet and every handler's memory stay well formed.     *)
TypeOK ==
    /\ tenant \in Tenants
    /\ wallet \in Wallets
    /\ DOMAIN txs \subseteq TxIds /\ txs \in [DOMAIN txs -> TxRows]
    /\ DOMAIN otps \subseteq OtpIds /\ otps \in [DOMAIN otps -> OtpRows]
    /\ now \in 0 .. MaxTime
    /\ req \in [Requests -> Handlers]
    /\ failures \in 0 .. MaxFailures

(* No burn drives the balance below zero (wallet.allow_negative is never   *)
(* consulted): each handler caps what it deducts by the balance it loaded, *)
(* and a stale save replaces the row as a whole.                           *)
AvailableNeverNegative == wallet.available >= 0

(* Points leave the available balance only into total_burned_points, and   *)
(* come back only from there: even when racing handlers overwrite each     *)
(* other's wallet row, no point disappears from both columns.  Rounding    *)
(* the burned total loses half a point at most, and not once per burn.     *)
PointsNeverVanish == wallet.available + wallet.burned >= InitialPoints - 50

Active(type) == {t \in DOMAIN txs : /\ txs[t].type = type
                                    /\ txs[t].status = "active"}

PointsIn(rows) == SumFunctionOnSet([t \in DOMAIN txs |-> txs[t].points], rows)

(* /burning never deducts more than the rule admits of the wallet it       *)
(* loaded and the invoice of the transaction.                              *)
BurningRespectsRule ==
    \A r \in Requests :
        req[r].api = "burning" /\ req[r].pc \in {"saveTx", "saveWallet"} =>
          /\ req[r].pts >= 0
          /\ Admissible(req[r].pts, req[r].wal.available, req[r].ent.amount)

-----------------------------------------------------------------------------
(* Properties of handlers that run one at a time (MaxInFlight = 1).        *)

CheckoutAtRest ==
    tenant.apis = {"checkout"} /\ InFlight = {} /\ failures = 0

(* Unless a handler died, the balance at rest is what the checkout API's   *)
(* ledger says, to half a point however many burns and refunds there are:  *)
(* the points at the start, less the confirmed burns, plus the refunds.    *)
(* Confirm records the points it deducts, capped and rounded, and refund   *)
(* the points it returns.                                                  *)
CheckoutLedgerBalanced ==
    LET ledger == InitialPoints - PointsIn(Active("burn"))
                                + PointsIn(Active("adjustment"))
    IN  CheckoutAtRest =>
          ledger - 50 <= wallet.available /\ wallet.available <= ledger + 50

(* Every confirmed burn of a tenant that requires codes has a consumed     *)
(* code of its own: no replay, and no code re-linked away from its burn.   *)
EveryBurnHasItsCode ==
    tenant.otp =>
      \A t \in Active("burn") :
        \E o \in DOMAIN otps : otps[o].used /\ otps[o].tx = t

-----------------------------------------------------------------------------
(* A comment of the code that it does not keep.                            *)

(* A refund "always reverses 100%" of an invoice, which can be done once.  *)
RefundedOnce ==
    \A s, t \in Active("adjustment") :
        txs[s].source = txs[t].source => s = t

-----------------------------------------------------------------------------
(* The inductive invariant behind TypeOK, AvailableNeverNegative,          *)
(* PointsNeverVanish and BurningRespectsRule (proved in RedemptionProofs). *)

Whole(points) == points % 100 = 0

(* What is claimed of the wallet row, and therefore of every copy of it.   *)
(* The balance keeps its fraction until a burn of all of it, which leaves  *)
(* whole points in both columns.                                           *)
GoodWallet(w) ==
    /\ w.available >= 0
    /\ Whole(w.burned)
    /\ \/ /\ Whole(w.available - InitialPoints)
          /\ w.available + w.burned >= InitialPoints
       \/ /\ Whole(w.available)
          /\ w.available + w.burned >= Stored(InitialPoints)

(* A handler that will save the wallet holds a copy that was a good row    *)
(* once; what it deducts is covered by that copy, and by the rule if it is *)
(* one of /burning, and is whole points unless it is the whole balance; a  *)
(* refund is of whole points.  It knows the rows it is going to save over. *)
HandlerOK(h) ==
    /\ \/ h.pc \in {"apply", "saveTx", "saveWallet", "saveRefund"}
       \/ h.pc \in {"checkOtp", "consume"} /\ h.api = "burning"
       => GoodWallet(h.wal)
    /\ h.pc \in {"saveTx", "saveWallet"} =>
         h.pts <= h.wal.available /\ (Whole(h.pts) \/ h.pts = h.wal.available)
    /\ h.pc \in {"saveTx", "saveWallet"} /\ h.api = "burning" =>
         Admissible(h.pts, h.wal.available, h.ent.amount)
    /\ h.pc \in {"loadWallet", "checkOtp", "consume", "apply",
                  "addRefund", "refundWallet", "saveRefund"} => Whole(h.pts)
    /\ h.pc \in {"relink", "consume", "touch"} => h.otp # 0
    /\ h.pc \in {"loadWallet", "checkOtp", "apply", "saveTx"} => h.tx # 0

IInv ==
    /\ TypeOK
    /\ GoodWallet(wallet)
    /\ \A t \in DOMAIN txs : Whole(txs[t].points)
    /\ \A r \in Requests : HandlerOK(req[r])

=============================================================================
