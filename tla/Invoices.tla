-------------------------------- MODULE Invoices --------------------------------
(***************************************************************************)
(* Invoices of the point of sale (RestyService): a nightly job copies new  *)
(* invoices from a view of the shops' database (processLatestInvoices), a  *)
(* customer claims the points of hers (claimPendingPointsForCustomer), and *)
(* a second job assigns them (processUnclaimedInvoicesAndAssignPoints).    *)
(* The second job's schedule is commented out; AssignJob puts it back.     *)
(*                                                                         *)
(* A claim or an assignment reads the customer's wallet and her invoices   *)
(* once, and pays the invoices one after another from these copies.  Each  *)
(* save is a step of its own and may fail; claims undo, assignments do not.*)
(*                                                                         *)
(* One customer is modelled, with the wallet that getOtp gave her; the     *)
(* three balances a payment adds to are one.  Not modelled: the grouping   *)
(* of an invoice's lines, the jobs' logs, notifications, and expiry dates. *)
(***************************************************************************)
EXTENDS Integers, FiniteSets, FiniteSetsExt, Functions

CONSTANTS
    Invoices,       \* invoice_id
    NumberOf,       \* invoice_no of each
    DateOf,         \* invoice_date of each
    AmountOf,       \* invoice_amount of each
    MayLackPhone,   \* invoices that may come without a phone
    PaidByQitaf,    \* numbers that a Qitaf redemption paid, where
                    \* earnInternalPointsOnQitafRedemption is off
    MinAmount, Reward, TierRate,    \* the earning rule
    Workers,        \* slots for claims and assignments in flight
    AssignJob,      \* the second job is scheduled
    MaxRuns,        \* bound: claims and assignments
    MaxDisturbances \* bound: failures, and other requests on the wallet

ASSUME InvoicesAssumption ==
    /\ IsFiniteSet(Invoices) /\ IsFiniteSet(Workers)
    /\ MayLackPhone \subseteq Invoices
    /\ DateOf \in [Invoices -> Nat] /\ AmountOf \in [Invoices -> Nat]
    /\ DOMAIN NumberOf = Invoices
    /\ {MinAmount, Reward, TierRate, MaxRuns, MaxDisturbances} \subseteq Nat
    /\ AssignJob \in BOOLEAN

VARIABLES
    view,       \* vw_pe_masterdata, external
    phoneless,  \* its invoices without a phone
    late,       \* its invoices that came after a newer one
    clean,      \* resty_invoice_clean
    info,       \* resty_invoices_info
    tx,         \* wallet_transaction: EARN rows of each invoice
    wallet,     \* the customer's balance
    active,     \* the customer has status 1
    sync,       \* processLatestInvoices
    req,
    others,     \* history: what other requests did to the wallet
    told,       \* history: the points that claims answered
    runs, moves, failures,
    overlap     \* history: something happened while a request was in flight

source == <<view, phoneless, late>>
tables == <<clean, info, tx, wallet>>
history == <<others, told, runs, moves, failures, overlap>>
vars == <<source, tables, active, sync, req, history>>

-----------------------------------------------------------------------------

Absent == [stored |-> FALSE]
NewRow == [stored |-> TRUE, claimed |-> FALSE, processed |-> FALSE,
           loyalty |-> TRUE, missing |-> FALSE]

Idle == [pc |-> "idle"]
Stored == {i \in Invoices : info[i].stored}
Busy == \E w \in Workers : req[w] # Idle
At(w, pc) == req[w].pc = pc
Undisturbed == moves + failures < MaxDisturbances

(* The share of the minimum counts, also below it; a rate of 1 adds        *)
(* nothing, one of 2 adds twice the points.                                *)
PointsOf(i) ==
    LET min    == IF MinAmount = 0 THEN 1 ELSE MinAmount
        factor == IF TierRate \in {0, 1} THEN 1 ELSE 1 + TierRate
    IN  (2 * AmountOf[i] * Reward * factor + min) \div (2 * min)

Payments(number) ==
    SumFunctionOnSet(tx, {i \in Invoices : NumberOf[i] = number})

Worth(set) == SumFunctionOnSet([i \in set |-> PointsOf(i)], set)

-----------------------------------------------------------------------------
(* Import.                                                                 *)

Arrive(i) ==
    /\ i \notin view
    /\ view' = view \cup {i}
    /\ \/ UNCHANGED phoneless
       \/ i \in MayLackPhone /\ phoneless' = phoneless \cup {i}
    /\ late' = IF \E j \in view : DateOf[j] >= DateOf[i] THEN late \cup {i} ELSE late
    /\ UNCHANGED <<tables, active, sync, req, history>>

(* Mutant: the newest of the table that is written first.                  *)
NewestClean == Max({-1} \cup {DateOf[i] : i \in clean})

(* getLatestTimestamp                                                      *)
Newest == Max({-1} \cup {DateOf[i] : i \in Stored})

SyncFetch ==
    /\ sync = Idle
    /\ LET batch == {i \in view : DateOf[i] > Newest} IN
         /\ batch # {}
         /\ sync' = [pc    |-> "clean",
                     batch |-> batch,
                     fresh |-> {i \in batch : \A j \in Stored : NumberOf[j] # NumberOf[i]}]
    /\ UNCHANGED <<source, tables, active, req, history>>

SyncClean ==
    /\ sync.pc = "clean"
    /\ clean' = clean \cup sync.batch
    /\ sync' = [sync EXCEPT !.pc = "info"]
    /\ UNCHANGED <<source, info, tx, wallet, active, req, history>>

SyncInfo ==
    /\ sync.pc = "info"
    /\ info' = [i \in Invoices |-> IF i \in sync.fresh THEN NewRow ELSE info[i]]
    /\ sync' = Idle
    /\ UNCHANGED <<source, clean, tx, wallet, active, req, history>>

SyncFails ==
    /\ sync # Idle /\ Undisturbed
    /\ sync' = Idle
    /\ failures' = failures + 1
    /\ UNCHANGED <<source, tables, active, req, others, told, runs, moves, overlap>>

-----------------------------------------------------------------------------
(* The invoices to pay.                                                    *)

Unclaimed == {i \in Stored : ~info[i].claimed /\ ~info[i].processed}

Begin(w, kind, todo) ==
    /\ At(w, "idle") /\ todo # {}
    /\ runs < MaxRuns /\ runs' = runs + 1
    /\ req' = [req EXCEPT ![w] = [pc     |-> "next",
                                  kind   |-> kind,
                                  rows   |-> [i \in todo |-> info[i]],
                                  wallet |-> wallet,
                                  known  |-> active,
                                  total  |-> 0]]
    /\ overlap' = (overlap \/ Busy)
    /\ UNCHANGED <<source, tables, active, sync, others, told, moves, failures>>

(* getPendingPointsForCustomer, for the banner of the app: the invoices to *)
(* claim, and their points by the rule and the tier.  Those that the       *)
(* second job set aside are among them.                                    *)
Banner ==
    LET shown == IF active THEN Unclaimed \ phoneless ELSE {}
    IN  [invoices |-> shown, points |-> Worth(shown)]

Claim(w) ==
    /\ active
    /\ Begin(w, "claim", Banner.invoices)

Assign(w) ==
    /\ AssignJob
    /\ Begin(w, "assign", {i \in Unclaimed : info[i].loyalty /\ ~info[i].missing})

Next1(w, i) == At(w, "next") /\ i \in DOMAIN req[w].rows

(* On to the next invoice, with what the memory says of the wallet and of  *)
(* the points paid.                                                        *)
Leave(w, i, balance, total) ==
    LET rest == DOMAIN req[w].rows \ {i} IN
      req' = [req EXCEPT ![w] =
                IF rest # {}
                  THEN [pc |-> "next", kind |-> @.kind, wallet |-> balance, total |-> total,
                        rows |-> [j \in rest |-> @.rows[j]], known |-> @.known]
                ELSE IF @.kind = "claim" /\ total > 0 THEN [pc |-> "answer", total |-> total]
                ELSE Idle]

SaveAndLeave(w, i, row, total) ==
    /\ info' = [info EXCEPT ![i] = row]
    /\ Leave(w, i, req[w].wallet, total)
    /\ UNCHANGED <<source, clean, tx, wallet, active, sync, history>>

(* Mutant: the transactions are not looked at.                             *)
LooksUnpaid(i) == FALSE
AlreadyPaid(i) == Payments(NumberOf[i]) > 0

SkipPaid(w, i) ==
    /\ Next1(w, i) /\ AlreadyPaid(i)
    /\ req[w].kind = "assign" => i \notin phoneless
    /\ SaveAndLeave(w, i, [req[w].rows[i] EXCEPT !.claimed = TRUE, !.processed = TRUE], req[w].total)

SkipMissing(w, i) ==
    /\ Next1(w, i) /\ i \in phoneless
    /\ SaveAndLeave(w, i, [req[w].rows[i] EXCEPT !.missing = TRUE], req[w].total)

(* Nobody with that phone had status 1 when the job began.                 *)
SkipStranger(w, i) ==
    /\ Next1(w, i) /\ i \notin phoneless /\ ~AlreadyPaid(i) /\ ~req[w].known
    /\ SaveAndLeave(w, i, [req[w].rows[i] EXCEPT !.loyalty = FALSE], req[w].total)

(* Mutant: no claim is paid.                                               *)
EveryClaim(w, i) == req[w].kind = "claim"
Unrewarded(w, i) == req[w].kind = "claim" /\ NumberOf[i] \in PaidByQitaf

SkipQitaf(w, i) ==
    /\ Next1(w, i) /\ ~AlreadyPaid(i) /\ Unrewarded(w, i)
    /\ SaveAndLeave(w, i, [req[w].rows[i] EXCEPT !.claimed = TRUE], req[w].total)

-----------------------------------------------------------------------------
(* The payment of an invoice.                                              *)

Pay(w, i) ==
    /\ Next1(w, i) /\ i \notin phoneless /\ ~AlreadyPaid(i)
    /\ req[w].known /\ ~Unrewarded(w, i)
    /\ req' = [req EXCEPT ![w] =
                 [pc |-> "insert", kind |-> @.kind, rows |-> @.rows,
                  wallet |-> @.wallet, known |-> @.known, total |-> @.total,
                  cur |-> i]]
    /\ UNCHANGED <<source, tables, active, sync, history>>

Insert(w) ==
    /\ At(w, "insert")
    /\ tx' = [tx EXCEPT ![req[w].cur] = @ + 1]
    /\ req' = [req EXCEPT ![w].pc = "wallet"]
    /\ UNCHANGED <<source, clean, info, wallet, active, sync, history>>

(* Mutant: every point twice.                                              *)
Twice(q) == q.wallet + 2 * PointsOf(q.cur)

(* The balance that was read when the request began, and what it added.    *)
Raised(q) == q.wallet + PointsOf(q.cur)

SaveWallet(w) ==
    /\ At(w, "wallet")
    /\ wallet' = Raised(req[w])
    /\ req' = [req EXCEPT ![w].wallet = Raised(req[w]), ![w].pc = "row"]
    /\ UNCHANGED <<source, clean, info, tx, active, sync, history>>

(* stats.totalPoints, once the wallet has them.                            *)
Counted(q) == q.total + PointsOf(q.cur)

SaveRow(w) ==
    /\ At(w, "row")
    /\ SaveAndLeave(w, req[w].cur, [req[w].rows[req[w].cur] EXCEPT !.claimed = TRUE],
                    Counted(req[w]))

Fails == Undisturbed /\ failures' = failures + 1

(* Without its transaction, or with all but its row (which counts), the    *)
(* invoice is left.                                                        *)
SaveFails(w) ==
    /\ At(w, "insert") \/ At(w, "row")
    /\ Fails
    /\ Leave(w, req[w].cur, req[w].wallet,
             IF At(w, "row") THEN Counted(req[w]) ELSE req[w].total)
    /\ UNCHANGED <<source, tables, active, sync, others, told, runs, moves, overlap>>

(* A claim goes on to delete the transaction.  An assignment leaves it,    *)
(* and keeps the points in memory: they go with the next invoice.          *)
WalletFails(w) ==
    /\ At(w, "wallet")
    /\ Fails
    /\ IF req[w].kind = "claim"
         THEN req' = [req EXCEPT ![w].pc = "undo"]
         ELSE Leave(w, req[w].cur, Raised(req[w]), req[w].total)
    /\ UNCHANGED <<source, tables, active, sync, others, told, runs, moves, overlap>>

Undo(w) ==
    /\ At(w, "undo")
    /\ tx' = [tx EXCEPT ![req[w].cur] = @ - 1]
    /\ Leave(w, req[w].cur, req[w].wallet, req[w].total)
    /\ UNCHANGED <<source, clean, info, wallet, active, sync, history>>

(* What made the wallet's save fail may make the deletion fail too.        *)
UndoFails(w) ==
    /\ At(w, "undo")
    /\ Leave(w, req[w].cur, req[w].wallet, req[w].total)
    /\ UNCHANGED <<source, tables, active, sync, history>>

(* The claim notifies the customer of the points, and answers them.        *)
Answer(w) ==
    /\ At(w, "answer")
    /\ told' = told + req[w].total
    /\ req' = [req EXCEPT ![w] = Idle]
    /\ UNCHANGED <<source, tables, active, sync, others, runs, moves, failures, overlap>>

(* The process stops.                                                      *)
Die(w) ==
    /\ ~At(w, "idle")
    /\ Fails
    /\ req' = [req EXCEPT ![w] = Idle]
    /\ UNCHANGED <<source, tables, active, sync, others, told, runs, moves, overlap>>

-----------------------------------------------------------------------------
(* Others.                                                                 *)

(* verifyOtp gives the customer status 1.                                  *)
SignUp ==
    /\ ~active /\ active' = TRUE
    /\ UNCHANGED <<source, tables, sync, req, history>>

(* Another request earns or burns a point of the same wallet.              *)
Other ==
    /\ Undisturbed /\ moves' = moves + 1
    /\ \E d \in {-1, 1} :
         /\ wallet + d >= 0
         /\ wallet' = wallet + d /\ others' = others + d
    /\ overlap' = (overlap \/ Busy)
    /\ UNCHANGED <<source, clean, info, tx, active, sync, req, told, runs, failures>>

-----------------------------------------------------------------------------
Init ==
    /\ view = {} /\ phoneless = {} /\ late = {} /\ clean = {}
    /\ info = [i \in Invoices |-> Absent]
    /\ tx = [i \in Invoices |-> 0]
    /\ wallet = 0 /\ active \in BOOLEAN
    /\ sync = Idle
    /\ req = [w \in Workers |-> Idle]
    /\ others = 0 /\ told = 0 /\ runs = 0 /\ moves = 0 /\ failures = 0
    /\ overlap = FALSE

Sync == SyncFetch \/ SyncClean \/ SyncInfo

Step(w) ==
    \/ \E i \in Invoices : \/ SkipPaid(w, i) \/ SkipMissing(w, i)
                           \/ SkipStranger(w, i) \/ SkipQitaf(w, i) \/ Pay(w, i)
    \/ Insert(w) \/ SaveWallet(w) \/ SaveRow(w) \/ Undo(w)
    \/ Answer(w)

Next ==
    \/ \E i \in Invoices : Arrive(i)
    \/ Sync \/ SyncFails
    \/ \E w \in Workers :
         \/ Claim(w) \/ Assign(w) \/ Step(w)
         \/ SaveFails(w) \/ WalletFails(w) \/ UndoFails(w) \/ Die(w)
    \/ SignUp \/ Other

Spec == Init /\ [][Next]_vars

-----------------------------------------------------------------------------
(* Properties.                                                             *)

Earned == SumFunctionOnSet([i \in Invoices |-> tx[i] * PointsOf(i)], Invoices)

(* An invoice number is paid once, whatever save fails and whoever dies,   *)
(* also if two invoices carry it; requests in flight at once may pay it    *)
(* once each and no more.                                                  *)
PaidOnce ==
    \A i \in Invoices :
      Payments(NumberOf[i]) <= IF overlap THEN Cardinality(Workers) ELSE 1

(* One request at a time, an invoice is marked as claimed only if it was   *)
(* paid, or if Qitaf paid it: whatever fails, the customer can claim the   *)
(* others again.  If nothing fails, the banner offers no points for a      *)
(* number that was paid.                                                   *)
ClaimedIsPaid ==
    ~overlap =>
      /\ \A i \in Stored :
            info[i].claimed => Payments(NumberOf[i]) > 0 \/ NumberOf[i] \in PaidByQitaf
      /\ failures = 0 /\ ~Busy =>
            Banner.points <= Worth({i \in Stored : Payments(NumberOf[i]) = 0})

(* One request at a time, the balance never has points without their       *)
(* transaction, no claim answers more than was paid, and if nothing fails  *)
(* the balance has the points of all of them.                              *)
BalanceExplained ==
    ~overlap =>
      /\ wallet <= others + Earned
      /\ told <= Earned
      /\ failures = 0 /\ ~Busy => wallet = others + Earned

(* An invoice that no newer one preceded into the view is never skipped,   *)
(* though each run begins at the newest invoice the last one stored, and   *)
(* may fail half-way: what is older than that is stored.                   *)
NothingSkipped ==
    \A i \in view \ late :
      DateOf[i] <= Newest => \E j \in Stored : NumberOf[j] = NumberOf[i]

=============================================================================
