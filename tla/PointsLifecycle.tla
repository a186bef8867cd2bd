---------------------------- MODULE PointsLifecycle ----------------------------
(***************************************************************************)
(* The life of earned points: they are earned locked or spendable, a cron  *)
(* unlocks them when their unlock date comes, another expires what the     *)
(* customer has not used when their expiry date comes (ScheduleService,    *)
(* with WalletService.addTransaction and CustomerService's two ways of     *)
(* crediting a wallet).                                                    *)
(*                                                                         *)
(* One wallet.  Every instance of the application runs both crons at       *)
(* midnight (bin/build_multi_core_app.sh starts three of them, one host).  *)
(* A handler - a request or a cron - is a sequence of awaited single-row   *)
(* statements, and holds in memory the entities it has read; it takes no   *)
(* lock.  A day is a tick; the two crons finish before the next midnight.  *)
(*                                                                         *)
(* Points are counted in hundredths: the balances are decimal(10,2), but   *)
(* the points of a transaction and the total burned are int columns, and   *)
(* the database rounds what is stored in them to whole points.             *)
(*                                                                         *)
(* Not modelled: the rules and campaigns that decide whether points are    *)
(* due (they only choose the number of points), coupon codes, orders,      *)
(* notifications, migrated rows (expires_at), and refunds, which expire as *)
(* earned points do.                                                       *)
(***************************************************************************)
EXTENDS Integers, FiniteSetsExt

CONSTANTS
    Requests,       \* slots for requests in flight
    Instances,      \* processes running the crons
    Settings,       \* the wallet settings a business unit may have
    EarnPoints, BurnPoints,     \* points of a call, in hundredths
    Validities,     \* rule.validity_after_assignment, 0 for none
    MaxEntries,     \* bound: rows inserted by requests
    MaxTx,          \* bound: rows, with those the expiry cron inserts
    MaxDay,         \* bound: days
    MaxFailures     \* bound: handlers that die half-way

ASSUME LifecycleAssumption ==
    /\ Requests \cap ({"unlock", "expire"} \X Instances) = {}
    /\ Settings \subseteq [method : {"none", "fixed_days"}, pending : Nat,
                           expiry : Nat, sources : SUBSET {"event", "campaign"}]
    /\ EarnPoints \subseteq Nat /\ BurnPoints \subseteq Nat
    /\ Validities \subseteq Nat
    /\ MaxEntries \in Nat /\ MaxTx \in Nat
    /\ MaxDay \in Nat \ {0} /\ MaxFailures \in Nat

VARIABLES
    setting,    \* wallet_settings, and where points come from; never changes
    wallet,     \* the wallet row
    txs,        \* wallet_transactions: id -> row, ids in order of created_at
    day,        \* today
    due,        \* the crons that have not started tonight
    run,        \* the handlers: requests and crons
    failures,   \* how many handlers have died half-way (bounds Fail)
    overlapped  \* history: two handlers have been in flight at once

vars == <<setting, wallet, txs, day, due, run, failures, overlapped>>

-----------------------------------------------------------------------------
(* The database.                                                           *)

TxIds == 1 .. MaxTx
Unlocks == {"unlock"} \X Instances
Expiries == {"expire"} \X Instances
Crons == Unlocks \cup Expiries
Handlers == Requests \cup Crons

(* total_earned_points, which no handler reads, is left out.               *)
Wallets == [total : Int, available : Int, locked : Int, burned : Int]

(* A date of 0 is NULL; dated says whether created_at is set.              *)
TxRows == [type : {"none", "earn", "burn", "expire"},
           status : {"none", "pending", "active", "expired"},
           points : Nat, unlock : Nat, expiry : Nat, dated : BOOLEAN,
           source : 0 .. MaxTx]         \* the transaction an EXPIRE is about

NoTx == [type |-> "none", status |-> "none", points |-> 0, unlock |-> 0,
         expiry |-> 0, dated |-> TRUE, source |-> 0]

NoWallet == [total |-> 0, available |-> 0, locked |-> 0, burned |-> 0]

Insert(row) ==
    \E t \in TxIds \ DOMAIN txs :
        /\ \A s \in TxIds \ DOMAIN txs : t <= s
        /\ txs' = [s \in DOMAIN txs \cup {t} |->
                      IF s = t THEN row ELSE txs[s]]

(* An int column holds whole points, half a point rounded up.  The entity  *)
(* in memory keeps what it was given.                                      *)
Stored(points) == 100 * ((points + 50) \div 100)

InTable(row) == [row EXCEPT !.points = Stored(@)]
Saved(w) == [w EXCEPT !.burned = Stored(@)]

PointsOf(rows) == SumFunctionOnSet([t \in DOMAIN txs |-> txs[t].points], rows)

-----------------------------------------------------------------------------
(* A handler: where it is, and what it holds in memory.                    *)

Steps == {"load", "insert", "save",             \* addTransaction
          "credit", "creditSave", "creditTx",   \* creditWallet
          "next", "mark"}                       \* the loop of a cron

Memory == [pc : Steps \cup {"idle"},
           wal : Wallets,           \* the wallet entity it will save
           row : TxRows,            \* the transaction it will insert
           queue : SUBSET TxIds,    \* cron: the batch still to do
           snap : Wallets,          \* cron: the wallet as the batch found it
           tx : 0 .. MaxTx]         \* cron: the transaction in hand

Idle == [pc |-> "idle", wal |-> NoWallet, row |-> NoTx, queue |-> {},
         snap |-> NoWallet, tx |-> 0]

InFlight == {h \in Handlers : run[h].pc # "idle"}

At(h, pc) == run[h].pc = pc

Continue(h, memory) ==
    /\ run' = [run EXCEPT ![h] = memory]
    /\ overlapped' = (overlapped \/ Cardinality(InFlight') > 1)

Return(h) == Continue(h, Idle)

(* A request may still begin (a bound of the model, not of the code).      *)
EntryRoom == Cardinality({t \in DOMAIN txs : txs[t].type # "expire"})
               + Cardinality(InFlight \cap Requests) < MaxEntries

-----------------------------------------------------------------------------
(* Dates.                                                                  *)

(* addTransaction and creditWallet disagree on who has an unlock date.     *)
EventUnlock == IF setting.method = "fixed_days" /\ setting.pending > 0
               THEN day + setting.pending ELSE 0
CampaignUnlock == IF setting.pending > 0 THEN day + setting.pending ELSE 0

(* Mutant: not a status of the enum.                                       *)
LockedStatus == IF setting.pending > 0 THEN "locked" ELSE "active"

EarnStatus == IF setting.pending > 0 THEN "pending" ELSE "active"

(* The rule's validity counts from the unlock date; the business unit's    *)
(* expiration_value, passed by earnWithEvent, from today.                  *)
EventExpiry(validity) ==
    day + (IF validity > 0 THEN setting.pending + validity ELSE setting.expiry)
CampaignExpiry(validity) ==
    IF validity > 0 THEN day + setting.pending + validity ELSE 0

-----------------------------------------------------------------------------
(* Requests.                                                               *)

(* earnWithEvent: addTransaction(EARN), beginning with its own load of the *)
(* wallet.                                                                 *)
EarnWithEvent(r) ==
    /\ "event" \in setting.sources /\ At(r, "idle") /\ EntryRoom
    /\ \E points \in EarnPoints, validity \in Validities :
         Continue(r, [Idle EXCEPT !.pc = "insert", !.wal = wallet,
           !.row = [NoTx EXCEPT !.type = "earn", !.status = EarnStatus,
                      !.points = points, !.unlock = EventUnlock,
                      !.expiry = EventExpiry(validity)]])
    /\ UNCHANGED <<setting, wallet, txs, day, due, failures>>

(* A burn: addTransaction(BURN, ACTIVE), refused if not covered.           *)
Burn(r) ==
    /\ At(r, "idle") /\ EntryRoom
    /\ \E points \in BurnPoints :
         /\ wallet.available >= points
         /\ Continue(r, [Idle EXCEPT !.pc = "insert", !.wal = wallet,
              !.row = [NoTx EXCEPT !.type = "burn", !.status = "active",
                                   !.points = points]])
    /\ UNCHANGED <<setting, wallet, txs, day, due, failures>>

BurnRefused(r) ==
    /\ At(r, "idle")
    /\ \E points \in BurnPoints : wallet.available < points
    /\ UNCHANGED vars

(* creditWallet (campaigns and rules): adds the points to the wallet its   *)
(* caller loaded.  Its transaction has no created_at and no point_balance: *)
(* the points are in amount only.                                          *)
CreditWallet(r) ==
    /\ "campaign" \in setting.sources /\ At(r, "idle") /\ EntryRoom
    /\ \E points \in EarnPoints, validity \in Validities :
         Continue(r, [Idle EXCEPT !.pc = "credit",
           !.wal = IF setting.method = "none"
                   THEN [wallet EXCEPT !.total = @ + points,
                                       !.available = @ + points]
                   ELSE [wallet EXCEPT !.total = @ + points,
                                       !.locked = @ + points],
           !.row = [NoTx EXCEPT !.type = "earn", !.status = EarnStatus,
                      !.unlock = CampaignUnlock, !.dated = FALSE,
                      !.expiry = CampaignExpiry(validity)]])
    /\ UNCHANGED <<setting, wallet, txs, day, due, failures>>

(* updateWalletBalances reloads the row and overwrites the balances it is  *)
(* given: total, and one of available and locked.                          *)
CreditLoad(r) ==
    /\ At(r, "credit")
    /\ Continue(r, [run[r] EXCEPT !.pc = "creditSave",
         !.wal = IF setting.method = "none"
                 THEN [wallet EXCEPT !.total = run[r].wal.total,
                                     !.available = run[r].wal.available]
                 ELSE [wallet EXCEPT !.total = run[r].wal.total,
                                     !.locked = run[r].wal.locked]])
    /\ UNCHANGED <<setting, wallet, txs, day, due, failures>>

CreditSave(r) ==
    /\ At(r, "creditSave")
    /\ wallet' = Saved(run[r].wal)
    /\ Continue(r, [run[r] EXCEPT !.pc = "creditTx"])
    /\ UNCHANGED <<setting, txs, day, due, failures>>

CreditInsert(r) ==
    /\ At(r, "creditTx")
    /\ Insert(run[r].row)
    /\ Return(r)
    /\ UNCHANGED <<setting, wallet, day, due, failures>>

-----------------------------------------------------------------------------
(* The rest of addTransaction, for requests and for the expiry cron.       *)

(* Mutant: an expiry costs nothing.                                        *)
BookedUnexpired(w, row) ==
    CASE row.type = "expire" -> w
      [] row.type = "burn"   -> [w EXCEPT !.available = @ - row.points]
      [] row.type = "earn"   -> [w EXCEPT !.total = @ + row.points,
                                          !.locked = @ + row.points]

(* What the insertion of row does to the wallet entity in memory: it adds  *)
(* or deducts the points of the call, not those of the row as stored.      *)
Booked(w, row) ==
    CASE row.status = "pending" -> [w EXCEPT !.total = @ + row.points,
                                             !.locked = @ + row.points]
      [] row.status = "active" /\ row.type = "earn" ->
            [w EXCEPT !.total = @ + row.points, !.available = @ + row.points]
      [] row.status = "active" /\ row.type = "burn" ->
            [w EXCEPT !.available = @ - row.points, !.burned = @ + row.points]
      [] row.status = "active" /\ row.type = "expire" ->
            [w EXCEPT !.available = @ - row.points]

InsertTx(h) ==
    /\ At(h, "insert")
    /\ Insert(InTable(run[h].row))
    /\ Continue(h, [run[h] EXCEPT !.pc = "save",
                                  !.wal = Booked(@, run[h].row)])
    /\ UNCHANGED <<setting, wallet, day, due, failures>>

(* The entity replaces the row: whatever was saved since it was loaded is  *)
(* undone.                                                                 *)
SaveWallet(h) ==
    /\ At(h, "save")
    /\ wallet' = Saved(run[h].wal)
    /\ IF h \in Requests THEN Return(h)
                         ELSE Continue(h, [run[h] EXCEPT !.pc = "mark"])
    /\ UNCHANGED <<setting, txs, day, due, failures>>

-----------------------------------------------------------------------------
(* The crons.                                                              *)

(* The find of a cron: its batch, each row with its own copy of the wallet *)
(* as it was then.                                                         *)
Start(c, batch) ==
    /\ c \in due /\ At(c, "idle")
    /\ due' = due \ {c}
    /\ IF batch = {} THEN Return(c)
       ELSE Continue(c, [Idle EXCEPT !.pc = "next", !.queue = batch,
                                     !.snap = wallet])
    /\ UNCHANGED <<setting, wallet, txs, day, failures>>

(* Mutants: the batch forgets the status; it takes no row of a night that  *)
(* was missed.                                                             *)
UnlocksAgain(t) ==
    /\ txs[t].type = "earn"
    /\ txs[t].unlock # 0 /\ txs[t].unlock <= day

UnlocksOnlyToday(t) ==
    /\ txs[t].type = "earn" /\ txs[t].status = "pending"
    /\ txs[t].unlock = day

(* unlock_date: LessThanOrEqual(today), status: PENDING, type: EARN        *)
ToUnlock(t) ==
    /\ txs[t].type = "earn" /\ txs[t].status = "pending"
    /\ txs[t].unlock # 0 /\ txs[t].unlock <= day

UnlockStart(c) ==
    /\ c \in Unlocks
    /\ Start(c, {t \in DOMAIN txs : ToUnlock(t)})

(* updateWalletBalances(wallet.id, {...wallet}): reloads the row and puts  *)
(* the balances of the batch's copy over it.                               *)
UnlockNext(c) ==
    /\ c \in Unlocks /\ At(c, "next")
    /\ \E t \in run[c].queue :
         Continue(c, [run[c] EXCEPT !.pc = "save", !.tx = t,
           !.wal = [run[c].snap EXCEPT !.available = @ + txs[t].points,
                                       !.locked = @ - txs[t].points,
                                       !.burned = wallet.burned]])
    /\ UNCHANGED <<setting, wallet, txs, day, due, failures>>

(* Mutants: as above.                                                      *)
ExpiresAgain(t) ==
    /\ txs[t].type = "earn"
    /\ txs[t].expiry # 0 /\ txs[t].expiry <= day

ExpiresOnlyToday(t) ==
    /\ txs[t].type = "earn" /\ txs[t].status = "active"
    /\ txs[t].expiry = day

(* expiry_date: LessThanOrEqual(today), status: ACTIVE                     *)
ToExpire(t) ==
    /\ txs[t].type = "earn" /\ txs[t].status = "active"
    /\ txs[t].expiry # 0 /\ txs[t].expiry <= day

(* Sorting two rows or more calls created_at.getTime() of each: a row that *)
(* has none throws, and the cron is over for the night.                    *)
Sortable(batch) == Cardinality(batch) > 1 => \A t \in batch : txs[t].dated

ExpireStart(c) ==
    /\ c \in Expiries
    /\ LET batch == {t \in DOMAIN txs : ToExpire(t)}
       IN  Start(c, IF Sortable(batch) THEN batch ELSE {})

(* First earned, first used: what is burned beyond the points earned       *)
(* before t has used up t.                                                 *)
Unused(t, burned) ==
    LET before == PointsOf({s \in DOMAIN txs :
                      txs[s].type = "earn" /\ s < t /\ txs[t].dated})
        points == txs[t].points
        used   == IF burned - before < points THEN burned - before ELSE points
    IN  points - (IF used < 0 THEN 0 ELSE used)

ExpireNext(c) ==
    /\ c \in Expiries /\ At(c, "next")
    /\ \E t \in run[c].queue :
         /\ \A s \in run[c].queue : t <= s
         /\ LET unused == Unused(t, run[c].snap.burned)
            IN  Continue(c, [run[c] EXCEPT !.tx = t,
                  !.pc = IF unused > 0 THEN "load" ELSE "mark",
                  !.row = [NoTx EXCEPT !.type = "expire", !.status = "active",
                             !.points = unused, !.source = t]])
    /\ UNCHANGED <<setting, wallet, txs, day, due, failures>>

(* addTransaction(EXPIRE) loads the wallet afresh.                         *)
ExpireLoad(c) ==
    /\ At(c, "load")
    /\ Continue(c, [run[c] EXCEPT !.pc = "insert", !.wal = wallet])
    /\ UNCHANGED <<setting, wallet, txs, day, due, failures>>

(* transaction.status = ACTIVE or EXPIRED; save(transaction).              *)
Mark(c) ==
    /\ At(c, "mark")
    /\ LET left == run[c].queue \ {run[c].tx}
       IN  /\ txs' = [txs EXCEPT ![run[c].tx].status =
                          IF c \in Unlocks THEN "active" ELSE "expired"]
           /\ IF left = {} THEN Return(c)
              ELSE Continue(c, [run[c] EXCEPT !.pc = "next", !.queue = left])
    /\ UNCHANGED <<setting, wallet, day, due, failures>>

-----------------------------------------------------------------------------
(* A handler dies between two awaits; a cron is not tried again before the *)
(* next midnight.                                                          *)
Fail(h) ==
    /\ run[h].pc # "idle" /\ failures < MaxFailures
    /\ failures' = failures + 1
    /\ Return(h)
    /\ UNCHANGED <<setting, wallet, txs, day, due>>

Midnight ==
    /\ day < MaxDay
    /\ due = {} /\ \A c \in Crons : run[c].pc = "idle"
    /\ day' = day + 1
    /\ due' = Crons
    /\ UNCHANGED <<setting, wallet, txs, run, failures, overlapped>>

Init ==
    /\ setting \in Settings
    /\ wallet = NoWallet
    /\ txs = [t \in {} |-> NoTx]
    /\ day = 1
    /\ due = {}
    /\ run = [h \in Handlers |-> Idle]
    /\ failures = 0
    /\ overlapped = FALSE

Request(r) == EarnWithEvent(r) \/ Burn(r) \/ BurnRefused(r) \/ CreditWallet(r)
              \/ CreditLoad(r) \/ CreditSave(r) \/ CreditInsert(r)
              \/ InsertTx(r) \/ SaveWallet(r)

Cron(c) == UnlockStart(c) \/ UnlockNext(c) \/ ExpireStart(c) \/ ExpireNext(c)
           \/ ExpireLoad(c) \/ InsertTx(c) \/ SaveWallet(c) \/ Mark(c)

Next == \/ \E r \in Requests : Request(r)
        \/ \E c \in Crons : Cron(c)
        \/ \E h \in Handlers : Fail(h)
        \/ Midnight

Spec == Init /\ [][Next]_vars

(* The scheduler fires every night and a started cron keeps being run;     *)
(* customers and cashiers need not do anything.                            *)
Fairness == WF_vars(Midnight) /\ \A c \in Crons : WF_vars(Cron(c))

FairSpec == Spec /\ Fairness

-----------------------------------------------------------------------------
(* Properties of one instance, whatever the interleaving.                  *)

(* The table, the wallet and every handler's memory stay well formed.      *)
TypeOK ==
    /\ setting \in Settings
    /\ wallet \in Wallets
    /\ DOMAIN txs \subseteq TxIds /\ txs \in [DOMAIN txs -> TxRows]
    /\ day \in 1 .. MaxDay
    /\ due \subseteq Crons
    /\ run \in [Handlers -> Memory]
    /\ failures \in 0 .. MaxFailures
    /\ overlapped \in BOOLEAN

Rank(status) == CASE status = "pending" -> 1
                  [] status = "active"  -> 2
                  [] status = "expired" -> 3

(* A transaction only moves from PENDING to ACTIVE to EXPIRED: a cron that *)
(* saves the entity of a batch read earlier never brings points back.      *)
StatusMovesForward ==
    [][\A t \in DOMAIN txs : Rank(txs[t].status) <= Rank(txs'[t].status)]_vars

ExpiriesOf(t) == {e \in DOMAIN txs : txs[e].type = "expire" /\ txs[e].source = t}

(* The points of a transaction expire once, unless a cron died half-way.   *)
OneExpiryPerEarn ==
    failures = 0 => \A t \in DOMAIN txs : Cardinality(ExpiriesOf(t)) <= 1

Row(t) == IF t \in DOMAIN txs THEN txs[t] ELSE NoTx

(* Nights left to unlock or expire what is due by then, even if a cron     *)
(* dies on MaxFailures of them.                                            *)
LastSure == MaxDay - MaxFailures

(* Locked points are not locked for ever: a transaction with an unlock     *)
(* date is unlocked, at the latest on the first night no cron dies.        *)
PendingEventuallyUnlocked ==
    \A t \in TxIds :
        /\ day < LastSure
        /\ Row(t).status = "pending" /\ Row(t).unlock \in 1 .. LastSure
        ~> Row(t).status # "pending"

Expiring(t) ==
    /\ day + 1 < LastSure
    /\ Row(t).type = "earn" /\ Row(t).expiry \in 1 .. LastSure
    /\ Row(t).status = "pending" => Row(t).unlock \in 1 .. LastSure - 1

(* "Finally, mark the original transaction as EXPIRED": where all points   *)
(* come from events, whose rows have a created_at to sort the batch by,    *)
(* every transaction does expire when its expiry date has come.            *)
EventPointsEventuallyExpire ==
    \A t \in TxIds : Expiring(t) /\ setting.sources = {"event"}
                       ~> Row(t).status = "expired"

-----------------------------------------------------------------------------
(* Properties of handlers that ran one after the other, and completed, for *)
(* points that come from events.                                           *)

Orderly == /\ InFlight = {} /\ ~overlapped /\ failures = 0
           /\ setting.sources = {"event"}

OfType(type) == {t \in DOMAIN txs : txs[t].type = type}

(* Every row of the types given is at most half a point off.               *)
Rounding(types) == 50 * Cardinality({t \in DOMAIN txs : txs[t].type \in types})

Within(a, b, slack) == b - slack <= a /\ a <= b + slack

(* The balances of the wallet add up to the ledger but for what its whole  *)
(* points round away, which does not accumulate beyond half a point a row: *)
(* every point earned is in the total, and is available, locked, burned or *)
(* expired.                                                                *)
LedgerConserved ==
    Orderly =>
      /\ Within(wallet.total, PointsOf(OfType("earn")), Rounding({"earn"}))
      /\ Within(wallet.available + wallet.locked,
                wallet.total - PointsOf(OfType("burn"))
                             - PointsOf(OfType("expire")),
                Rounding({"burn", "expire"}))

=============================================================================
