----------------------------- MODULE InvoicesProofs -----------------------------
(***************************************************************************)
(* What holds of the invoices for any view, any numbers and dates, any     *)
(* workers, rule and bounds.                                               *)
(*                                                                         *)
(* The proofs are in layers.  Types says what is stored and held.  Backed  *)
(* counts, for an invoice, the requests that hold a transaction they may   *)
(* still undo; Once counts those about to insert one, and bounds the       *)
(* payments of a number.  Imported is about the nightly job alone.         *)
(* Settled, Books and Fair say of one request at a time what it has marked *)
(* and booked, and which invoices it has still before it.                  *)
(***************************************************************************)
EXTENDS Invoices, SharedLemmas

-----------------------------------------------------------------------------
(* The rule.                                                               *)

LEMMA TimesIsNat ==
    ASSUME NEW a \in Nat, NEW b \in Nat
    PROVE  a * b \in Nat
  OBVIOUS

LEMMA DivIsNat ==
    ASSUME NEW a \in Nat, NEW b \in Nat \ {0}
    PROVE  a \div b \in Nat
  OBVIOUS

LEMMA PointsAreNat ==
    ASSUME NEW i \in Invoices
    PROVE  PointsOf(i) \in Nat
<1> DEFINE min    == IF MinAmount = 0 THEN 1 ELSE MinAmount
           factor == IF TierRate \in {0, 1} THEN 1 ELSE 1 + TierRate
<1>1. /\ min \in Nat \ {0} /\ factor \in Nat /\ AmountOf[i] \in Nat
      /\ Reward \in Nat
  BY InvoicesAssumption
<1>2. PointsOf(i) = (2 * AmountOf[i] * Reward * factor + min) \div (2 * min)
  BY DEF PointsOf
<1> HIDE DEF min, factor
<1>3. 2 * AmountOf[i] \in Nat
  BY <1>1
<1>4. 2 * AmountOf[i] * Reward \in Nat
  BY <1>1, <1>3, TimesIsNat
<1>5. 2 * AmountOf[i] * Reward * factor \in Nat
  BY <1>1, <1>4, TimesIsNat
<1>6. /\ 2 * AmountOf[i] * Reward * factor + min \in Nat
      /\ 2 * min \in Nat \ {0}
  BY <1>1, <1>5
<1>7. QED
  BY <1>2, <1>6, DivIsNat

-----------------------------------------------------------------------------
(* The types.                                                              *)

Rows == [stored : {TRUE}, claimed : BOOLEAN, processed : BOOLEAN,
         loyalty : BOOLEAN, missing : BOOLEAN]
RowSets == UNION {[S -> Rows] : S \in SUBSET Invoices}
Kinds == {"claim", "assign"}

Paying == {"insert", "wallet", "row", "undo"}
Nexts == [pc : {"next"}, kind : Kinds, rows : RowSets, wallet : Int,
          known : BOOLEAN, total : Nat]
Pays == [pc : Paying, kind : Kinds, rows : RowSets, wallet : Int,
         known : BOOLEAN, total : Nat, cur : Invoices]
Answers == [pc : {"answer"}, total : Nat]
Handlers == {Idle} \cup Nexts \cup Pays \cup Answers
Syncs == {Idle} \cup [pc : {"clean", "info"}, batch : SUBSET Invoices,
                      fresh : SUBSET Invoices]

(* A claim knows its customer, only her invoices are paid, and a payment   *)
(* is undone only after a failure.                                         *)
HandlerOK(q) ==
    /\ q \in Nexts => (q.kind = "claim" => q.known)
    /\ q \in Pays => /\ q.known /\ q.cur \in DOMAIN q.rows
                     /\ q.cur \notin phoneless
                     /\ q.pc = "undo" => failures > 0

Types ==
    /\ view \subseteq Invoices /\ phoneless \subseteq Invoices
    /\ late \subseteq Invoices /\ clean \subseteq Invoices
    /\ info \in [Invoices -> {Absent} \cup Rows]
    /\ tx \in [Invoices -> Int]
    /\ wallet \in Int /\ active \in BOOLEAN
    /\ sync \in Syncs
    /\ req \in [Workers -> Handlers]
    /\ others \in Int /\ told \in Int /\ failures \in Nat /\ overlap \in BOOLEAN
    /\ Stored \subseteq view
    /\ \A w \in Workers : /\ HandlerOK(req[w])
                          /\ req[w] \in Nexts \cup Pays => DOMAIN req[w].rows \subseteq Stored
    /\ sync # Idle => sync.batch \subseteq view /\ sync.fresh \subseteq sync.batch

LEMMA IdleIs ==
    /\ Idle \in Handlers /\ Idle.pc = "idle" /\ Idle \in Syncs
    /\ Idle \notin Nexts /\ Idle \notin Pays /\ Idle \notin Answers
  BY DEF Idle, Handlers, Syncs, Nexts, Pays, Answers, Paying

LEMMA StoredRows ==
    ASSUME Types, NEW i \in Invoices
    PROVE  /\ i \in Stored => info[i] \in Rows
           /\ info[i] \in Rows => i \in Stored
<1>1. info[i] = Absent \/ info[i] \in Rows
  BY DEF Types
<1>2. ~Absent.stored /\ \A row \in Rows : row.stored
  BY DEF Absent, Rows
<1>3. QED
  BY <1>1, <1>2 DEF Stored

(* What a request is by its pc.                                            *)
LEMMA ByPc ==
    ASSUME Types, NEW w \in Workers
    PROVE  /\ req[w] \in Handlers /\ HandlerOK(req[w])
           /\ req[w].pc = "idle" <=> req[w] = Idle
           /\ req[w].pc = "next" <=> req[w] \in Nexts
           /\ req[w].pc \in Paying <=> req[w] \in Pays
           /\ req[w].pc = "answer" <=> req[w] \in Answers
           /\ req[w] \in Nexts \cup Pays => DOMAIN req[w].rows \subseteq Stored
<1>1. req[w] \in Handlers /\ HandlerOK(req[w])
      /\ (req[w] \in Nexts \cup Pays => DOMAIN req[w].rows \subseteq Stored)
  BY DEF Types
<1>2. QED
  BY <1>1, IdleIs DEF Handlers, Nexts, Pays, Answers, Paying

-----------------------------------------------------------------------------
(* What the actions do to a request.                                       *)

(* What a request q becomes when it is done with invoice i.                *)
LeftTo(h, q, i, balance, total) ==
    \/ /\ h \in Nexts /\ h.kind = q.kind /\ h.known = q.known
       /\ h.wallet = balance /\ h.total = total
       /\ DOMAIN h.rows = DOMAIN q.rows \ {i}
       /\ \A j \in DOMAIN h.rows : h.rows[j] = q.rows[j]
    \/ /\ DOMAIN q.rows \ {i} = {}
       /\ \/ h \in Answers /\ h.total = total
          \/ h = Idle

LEMMA LeaveIs ==
    ASSUME Types, NEW w \in Workers, NEW i, NEW balance \in Int, NEW total \in Nat,
           req[w] \in Nexts \cup Pays, Leave(w, i, balance, total)
    PROVE  \E h \in Handlers \ Pays :
             req' = [req EXCEPT ![w] = h] /\ LeftTo(h, req[w], i, balance, total)
<1> DEFINE rest == DOMAIN req[w].rows \ {i}
           next == [pc |-> "next", kind |-> req[w].kind, wallet |-> balance,
                    total |-> total, rows |-> [j \in rest |-> req[w].rows[j]],
                    known |-> req[w].known]
           answer == [pc |-> "answer", total |-> total]
<1>1. /\ req[w].kind \in Kinds /\ req[w].known \in BOOLEAN
      /\ req[w].rows \in RowSets
  BY DEF Nexts, Pays
<1>2. PICK S \in SUBSET Invoices : req[w].rows \in [S -> Rows]
  BY <1>1 DEF RowSets
<1>3. [j \in rest |-> req[w].rows[j]] \in [rest -> Rows] /\ rest \in SUBSET Invoices
  BY <1>2
<1>4. [j \in rest |-> req[w].rows[j]] \in RowSets
  BY <1>3 DEF RowSets
<1>5. next \in Nexts
  BY <1>1, <1>4 DEF Nexts
<1>6. answer \in Answers /\ answer.total = total
  BY DEF Answers
<1>7. next \notin Pays /\ answer \notin Pays /\ Idle \notin Pays
  BY IdleIs DEF Pays, Paying
<1>8. CASE rest # {}
  <2>1. req' = [req EXCEPT ![w] = next]
    BY <1>8 DEF Leave
  <2>2. LeftTo(next, req[w], i, balance, total)
    BY <1>5 DEF LeftTo
  <2>3. QED
    BY <1>5, <1>7, <2>1, <2>2 DEF Handlers
<1>9. CASE rest = {}
  <2>1. \/ req' = [req EXCEPT ![w] = answer]
        \/ req' = [req EXCEPT ![w] = Idle]
    BY <1>9 DEF Leave
  <2>2. LeftTo(answer, req[w], i, balance, total)
        /\ LeftTo(Idle, req[w], i, balance, total)
    BY <1>6, <1>9 DEF LeftTo
  <2>3. answer \in Handlers \ Pays /\ Idle \in Handlers \ Pays
    BY <1>6, <1>7, IdleIs DEF Handlers
  <2> HIDE DEF answer, next
  <2>4. QED
    BY <2>1, <2>2, <2>3
<1>10. QED
  BY <1>8, <1>9

(* A request that is done with an invoice is in order.                     *)
LEMMA LeftIsOK ==
    ASSUME NEW q \in Nexts \cup Pays, HandlerOK(q), NEW i, NEW balance, NEW total,
           NEW h \in Handlers, LeftTo(h, q, i, balance, total)
    PROVE  /\ h \in Nexts => /\ (h.kind = "claim" => h.known)
                             /\ DOMAIN h.rows \subseteq DOMAIN q.rows
           /\ h \notin Pays
<1>1. q.kind = "claim" => q.known
  BY DEF HandlerOK
<1>2. Nexts \cap Answers = {} /\ Nexts \cap Pays = {} /\ Answers \cap Pays = {}
  BY DEF Nexts, Answers, Pays, Paying
<1>3. QED
  BY <1>1, <1>2, IdleIs DEF LeftTo

(* An invoice that is not to be paid.                                      *)
Skips(w, i) == SkipPaid(w, i) \/ SkipMissing(w, i) \/ SkipStranger(w, i) \/ SkipQitaf(w, i)

LEMMA SkipsIs ==
    ASSUME Types, NEW w \in Workers, NEW i \in Invoices, Skips(w, i)
    PROVE  /\ req[w] \in Nexts /\ i \in DOMAIN req[w].rows
           /\ UNCHANGED <<source, clean, tx, wallet, active, sync, history>>
           /\ \E h \in Handlers \ Pays :
                /\ req' = [req EXCEPT ![w] = h]
                /\ LeftTo(h, req[w], i, req[w].wallet, req[w].total)
           /\ \E row \in Rows :
                /\ info' = [info EXCEPT ![i] = row]
                /\ \/ row.claimed /\ (AlreadyPaid(i) \/ NumberOf[i] \in PaidByQitaf)
                      /\ row.missing = req[w].rows[i].missing
                   \/ row.claimed = req[w].rows[i].claimed /\ i \in phoneless
                   \/ /\ row.claimed = req[w].rows[i].claimed
                      /\ row.processed = req[w].rows[i].processed
                      /\ row.missing = req[w].rows[i].missing
                      /\ ~row.loyalty /\ ~req[w].known /\ ~AlreadyPaid(i)
<1>1. req[w] \in Nexts /\ i \in DOMAIN req[w].rows
  BY ByPc DEF Skips, SkipPaid, SkipMissing, SkipStranger, SkipQitaf, Next1, At
<1>2. req[w].wallet \in Int /\ req[w].total \in Nat /\ req[w].rows \in RowSets
  BY <1>1 DEF Nexts
<1>3. req[w].rows[i] \in Rows
  BY <1>1, <1>2 DEF RowSets
<1>4. PICK old \in Rows : old = req[w].rows[i]
  BY <1>3
<1>5. PICK row : /\ SaveAndLeave(w, i, row, req[w].total)
                 /\ \/ /\ row = [old EXCEPT !.claimed = TRUE, !.processed = TRUE]
                       /\ AlreadyPaid(i)
                    \/ row = [old EXCEPT !.missing = TRUE] /\ i \in phoneless
                    \/ /\ row = [old EXCEPT !.loyalty = FALSE]
                       /\ ~req[w].known /\ ~AlreadyPaid(i)
                    \/ row = [old EXCEPT !.claimed = TRUE] /\ NumberOf[i] \in PaidByQitaf
  BY <1>4 DEF Skips, SkipPaid, SkipMissing, SkipStranger, SkipQitaf, Unrewarded
<1>6. /\ row \in Rows
      /\ \/ row.claimed /\ (AlreadyPaid(i) \/ NumberOf[i] \in PaidByQitaf)
            /\ row.missing = old.missing
         \/ row.claimed = old.claimed /\ i \in phoneless
         \/ /\ row.claimed = old.claimed /\ row.processed = old.processed
            /\ row.missing = old.missing
            /\ ~row.loyalty /\ ~req[w].known /\ ~AlreadyPaid(i)
  BY <1>5 DEF Rows
<1>7. /\ info' = [info EXCEPT ![i] = row]
      /\ Leave(w, i, req[w].wallet, req[w].total)
      /\ UNCHANGED <<source, clean, tx, wallet, active, sync, history>>
  BY <1>5 DEF SaveAndLeave
<1>8. \E h \in Handlers \ Pays :
        /\ req' = [req EXCEPT ![w] = h]
        /\ LeftTo(h, req[w], i, req[w].wallet, req[w].total)
  BY <1>1, <1>2, <1>7, LeaveIs
<1>9. QED
  BY <1>1, <1>4, <1>6, <1>7, <1>8

LEMMA PayIs ==
    ASSUME Types, NEW w \in Workers, NEW i \in Invoices, Pay(w, i)
    PROVE  /\ req[w] \in Nexts /\ i \in DOMAIN req[w].rows /\ i \notin phoneless
           /\ req[w].known /\ ~AlreadyPaid(i)
           /\ UNCHANGED <<source, tables, active, sync, history>>
           /\ \E h \in Pays : /\ req' = [req EXCEPT ![w] = h]
                              /\ h.pc = "insert" /\ h.cur = i
                              /\ h.kind = req[w].kind /\ h.known
                              /\ h.rows = req[w].rows /\ h.wallet = req[w].wallet
                              /\ h.total = req[w].total
<1>1. req[w] \in Nexts /\ i \in DOMAIN req[w].rows
  BY ByPc DEF Pay, Next1, At
<1>2. PICK h : h = [pc |-> "insert", kind |-> req[w].kind, rows |-> req[w].rows,
                    wallet |-> req[w].wallet, known |-> req[w].known,
                    total |-> req[w].total, cur |-> i]
  OBVIOUS
<1>3. req[w].known /\ req' = [req EXCEPT ![w] = h]
  BY <1>2 DEF Pay
<1>4. h \in Pays
  BY <1>1, <1>2, <1>3 DEF Nexts, Pays, Paying
<1>5. QED
  BY <1>1, <1>2, <1>3, <1>4 DEF Pay

(* What a payment keeps from one of its steps to the next.                 *)
SamePayment(h, q) ==
    h.cur = q.cur /\ h.kind = q.kind /\ h.known = q.known /\ h.rows = q.rows
    /\ h.total = q.total

LEMMA InsertIs ==
    ASSUME Types, NEW w \in Workers, Insert(w)
    PROVE  /\ req[w] \in Pays /\ req[w].pc = "insert"
           /\ tx' = [tx EXCEPT ![req[w].cur] = @ + 1]
           /\ UNCHANGED <<source, clean, info, wallet, active, sync, history>>
           /\ \E h \in Pays : /\ req' = [req EXCEPT ![w] = h] /\ h.pc = "wallet"
                              /\ SamePayment(h, req[w]) /\ h.wallet = req[w].wallet
<1>1. req[w] \in Pays /\ req[w].pc = "insert"
  BY ByPc DEF Insert, At, Paying
<1>2. PICK h : h = [req[w] EXCEPT !.pc = "wallet"]
  OBVIOUS
<1>3. /\ h \in Pays /\ h.pc = "wallet" /\ SamePayment(h, req[w])
      /\ h.wallet = req[w].wallet
  BY <1>1, <1>2 DEF Pays, Paying, SamePayment
<1>4. req' = [req EXCEPT ![w] = h]
  BY <1>2 DEF Insert
<1>5. QED
  BY <1>1, <1>3, <1>4 DEF Insert

LEMMA SaveWalletIs ==
    ASSUME Types, NEW w \in Workers, SaveWallet(w)
    PROVE  /\ req[w] \in Pays /\ req[w].pc = "wallet"
           /\ wallet' = Raised(req[w]) /\ Raised(req[w]) \in Int
           /\ UNCHANGED <<source, clean, info, tx, active, sync, history>>
           /\ \E h \in Pays : /\ req' = [req EXCEPT ![w] = h] /\ h.pc = "row"
                              /\ SamePayment(h, req[w]) /\ h.wallet = Raised(req[w])
<1>1. req[w] \in Pays /\ req[w].pc = "wallet"
  BY ByPc DEF SaveWallet, At, Paying
<1>2. PICK balance : balance = Raised(req[w])
  OBVIOUS
<1>3. balance \in Int
  BY <1>1, <1>2, PointsAreNat DEF Raised, Pays
<1>4. PICK h : h = [req[w] EXCEPT !.wallet = balance, !.pc = "row"]
  OBVIOUS
<1>5. /\ h \in Pays /\ h.pc = "row" /\ SamePayment(h, req[w]) /\ h.wallet = balance
  BY <1>1, <1>3, <1>4 DEF Pays, Paying, SamePayment
<1>6. req' = [req EXCEPT ![w] = h]
  BY <1>2, <1>4 DEF SaveWallet
<1>7. QED
  BY <1>1, <1>2, <1>3, <1>5, <1>6 DEF SaveWallet

LEMMA SaveRowIs ==
    ASSUME Types, NEW w \in Workers, SaveRow(w)
    PROVE  /\ req[w] \in Pays /\ req[w].pc = "row"
           /\ UNCHANGED <<source, clean, tx, wallet, active, sync, history>>
           /\ \E row \in Rows : /\ info' = [info EXCEPT ![req[w].cur] = row]
                                /\ row.claimed
                                /\ row.missing = req[w].rows[req[w].cur].missing
           /\ \E h \in Handlers \ Pays :
                /\ req' = [req EXCEPT ![w] = h]
                /\ LeftTo(h, req[w], req[w].cur, req[w].wallet, Counted(req[w]))
<1>1. req[w] \in Pays /\ req[w].pc = "row"
  BY ByPc DEF SaveRow, At, Paying
<1>2. /\ req[w].wallet \in Int /\ req[w].rows \in RowSets
      /\ req[w].cur \in DOMAIN req[w].rows /\ req[w].cur \in Invoices
  BY <1>1, ByPc DEF Pays, HandlerOK
<1>3. Counted(req[w]) \in Nat
  BY <1>1, <1>2, PointsAreNat DEF Counted, Pays
<1>4. PICK old \in Rows : old = req[w].rows[req[w].cur]
  BY <1>2 DEF RowSets
<1>5. PICK row : row = [old EXCEPT !.claimed = TRUE]
  OBVIOUS
<1>6. row \in Rows /\ row.claimed /\ row.missing = old.missing
  BY <1>5 DEF Rows
<1>7. /\ info' = [info EXCEPT ![req[w].cur] = row]
      /\ Leave(w, req[w].cur, req[w].wallet, Counted(req[w]))
      /\ UNCHANGED <<source, clean, tx, wallet, active, sync, history>>
  BY <1>4, <1>5 DEF SaveRow, SaveAndLeave
<1>8. QED
  BY <1>1, <1>2, <1>3, <1>4, <1>6, <1>7, LeaveIs

LEMMA SaveFailsIs ==
    ASSUME Types, NEW w \in Workers, SaveFails(w)
    PROVE  /\ req[w] \in Pays /\ req[w].pc \in {"insert", "row"}
           /\ failures' = failures + 1
           /\ UNCHANGED <<source, tables, active, sync, others, told, overlap>>
           /\ \E h \in Handlers \ Pays :
                /\ req' = [req EXCEPT ![w] = h]
                /\ LeftTo(h, req[w], req[w].cur, req[w].wallet,
                          IF req[w].pc = "row" THEN Counted(req[w]) ELSE req[w].total)
<1>1. req[w] \in Pays /\ req[w].pc \in {"insert", "row"}
  BY ByPc DEF SaveFails, At, Paying
<1>2. req[w].wallet \in Int /\ req[w].total \in Nat /\ req[w].cur \in Invoices
  BY <1>1 DEF Pays
<1>3. PICK total : total = IF req[w].pc = "row" THEN Counted(req[w]) ELSE req[w].total
  OBVIOUS
<1>4. total \in Nat
  BY <1>2, <1>3, PointsAreNat DEF Counted
<1>5. Leave(w, req[w].cur, req[w].wallet, total)
  BY <1>3 DEF SaveFails, At
<1>6. \E h \in Handlers \ Pays : /\ req' = [req EXCEPT ![w] = h]
                           /\ LeftTo(h, req[w], req[w].cur, req[w].wallet, total)
  BY <1>1, <1>2, <1>4, <1>5, LeaveIs
<1>7. QED
  BY <1>1, <1>3, <1>6 DEF SaveFails, Fails

LEMMA WalletFailsIs ==
    ASSUME Types, NEW w \in Workers, WalletFails(w)
    PROVE  /\ req[w] \in Pays /\ req[w].pc = "wallet"
           /\ failures' = failures + 1
           /\ UNCHANGED <<source, tables, active, sync, others, told, overlap>>
           /\ \/ \E h \in Pays : /\ req' = [req EXCEPT ![w] = h] /\ h.pc = "undo"
                                 /\ SamePayment(h, req[w]) /\ h.wallet = req[w].wallet
              \/ \E h \in Handlers \ Pays :
                    /\ req' = [req EXCEPT ![w] = h]
                    /\ LeftTo(h, req[w], req[w].cur, Raised(req[w]), req[w].total)
<1>1. req[w] \in Pays /\ req[w].pc = "wallet"
  BY ByPc DEF WalletFails, At, Paying
<1>2. CASE req[w].kind = "claim"
  <2>1. PICK h : h = [req[w] EXCEPT !.pc = "undo"]
    OBVIOUS
  <2>2. /\ h \in Pays /\ h.pc = "undo" /\ SamePayment(h, req[w])
        /\ h.wallet = req[w].wallet
    BY <1>1, <2>1 DEF Pays, Paying, SamePayment
  <2>3. req' = [req EXCEPT ![w] = h]
    BY <1>2, <2>1 DEF WalletFails
  <2>4. QED
    BY <1>1, <2>2, <2>3 DEF WalletFails, Fails
<1>3. CASE req[w].kind # "claim"
  <2>1. Raised(req[w]) \in Int /\ req[w].total \in Nat
    BY <1>1, PointsAreNat DEF Raised, Pays
  <2>2. Leave(w, req[w].cur, Raised(req[w]), req[w].total)
    BY <1>3 DEF WalletFails
  <2>3. QED
    BY <1>1, <2>1, <2>2, LeaveIs DEF WalletFails, Fails
<1>4. QED
  BY <1>2, <1>3

LEMMA UndoIs ==
    ASSUME Types, NEW w \in Workers, Undo(w) \/ UndoFails(w)
    PROVE  /\ req[w] \in Pays /\ req[w].pc = "undo" /\ failures > 0
           /\ tx' = tx \/ tx' = [tx EXCEPT ![req[w].cur] = @ - 1]
           /\ UNCHANGED <<source, clean, info, wallet, active, sync, history>>
           /\ \E h \in Handlers \ Pays :
                /\ req' = [req EXCEPT ![w] = h]
                /\ LeftTo(h, req[w], req[w].cur, req[w].wallet, req[w].total)
<1>1. req[w] \in Pays /\ req[w].pc = "undo" /\ failures > 0
  BY ByPc DEF Undo, UndoFails, At, Paying, HandlerOK
<1>2. req[w].wallet \in Int /\ req[w].total \in Nat
  BY <1>1 DEF Pays
<1>3. Leave(w, req[w].cur, req[w].wallet, req[w].total)
  BY DEF Undo, UndoFails
<1>4. QED
  BY <1>1, <1>2, <1>3, LeaveIs DEF Undo, UndoFails, tables

LEMMA AnswerIs ==
    ASSUME Types, NEW w \in Workers, Answer(w)
    PROVE  /\ req[w] \in Answers
           /\ told' = told + req[w].total /\ req' = [req EXCEPT ![w] = Idle]
           /\ UNCHANGED <<source, tables, active, sync, others, failures, overlap>>
  BY ByPc DEF Answer, At

LEMMA DieIs ==
    ASSUME Types, NEW w \in Workers, Die(w)
    PROVE  /\ req[w] # Idle /\ failures' = failures + 1
           /\ req' = [req EXCEPT ![w] = Idle]
           /\ UNCHANGED <<source, tables, active, sync, others, told, overlap>>
  BY ByPc DEF Die, Fails, At

LEMMA BeginIs ==
    ASSUME Types, NEW w \in Workers, Claim(w) \/ Assign(w)
    PROVE  /\ req[w] = Idle /\ overlap' = (overlap \/ Busy)
           /\ UNCHANGED <<source, tables, active, sync, others, told, failures>>
           /\ \E h \in Nexts :
                /\ req' = [req EXCEPT ![w] = h]
                /\ h.wallet = wallet /\ h.total = 0 /\ h.known = active
                /\ DOMAIN h.rows \subseteq Unclaimed
                /\ \A i \in DOMAIN h.rows : h.rows[i] = info[i]
                /\ \/ h.kind = "claim" /\ active /\ DOMAIN h.rows = Unclaimed \ phoneless
                   \/ /\ h.kind = "assign"
                      /\ DOMAIN h.rows = {i \in Unclaimed : info[i].loyalty /\ ~info[i].missing}
<1>1. PICK kind, todo :
        /\ kind \in Kinds
        /\ Begin(w, kind, todo) /\ todo \subseteq Unclaimed
        /\ \/ kind = "claim" /\ active /\ todo = Unclaimed \ phoneless
           \/ kind = "assign" /\ todo = {i \in Unclaimed : info[i].loyalty /\ ~info[i].missing}
  <2>1. CASE Claim(w)
    BY <2>1 DEF Claim, Banner, Kinds
  <2>2. CASE Assign(w)
    BY <2>2 DEF Assign, Kinds
  <2>3. QED
    BY <2>1, <2>2
<1>2. PICK h : h = [pc |-> "next", kind |-> kind, rows |-> [i \in todo |-> info[i]],
                    wallet |-> wallet, known |-> active, total |-> 0]
  OBVIOUS
<1>3. todo \subseteq Stored /\ todo \in SUBSET Invoices
  BY <1>1 DEF Unclaimed, Stored
<1>4. [i \in todo |-> info[i]] \in [todo -> Rows]
  BY <1>3, StoredRows
<1>5. [i \in todo |-> info[i]] \in RowSets
  BY <1>3, <1>4 DEF RowSets
<1>6. h \in Nexts
  BY <1>1, <1>2, <1>5 DEF Nexts, Types
<1>7. req' = [req EXCEPT ![w] = h]
  BY <1>1, <1>2 DEF Begin
<1>8. req[w] = Idle
  BY <1>1, ByPc DEF Begin, At
<1>9. /\ h.wallet = wallet /\ h.total = 0 /\ h.known = active
      /\ DOMAIN h.rows = todo /\ \A i \in DOMAIN h.rows : h.rows[i] = info[i]
      /\ h.kind = kind
  BY <1>2
<1>10. QED
  BY <1>1, <1>6, <1>7, <1>8, <1>9 DEF Begin
-----------------------------------------------------------------------------
(* The types are kept.                                                     *)

(* A step of one request that leaves the shops' view alone, that stores no *)
(* new invoice, and that leaves the request in order.                      *)
LEMMA OneMoves ==
    ASSUME Types, NEW w \in Workers, NEW h \in Handlers, NEW failed \in {0, 1},
           req' = [req EXCEPT ![w] = h],
           UNCHANGED <<source, clean, active, sync>>, failures' = failures + failed,
           info' \in [Invoices -> {Absent} \cup Rows], Stored' = Stored,
           tx' \in [Invoices -> Int], wallet' \in Int, others' \in Int, told' \in Int,
           overlap' \in BOOLEAN, HandlerOK(h)',
           h \in Nexts \cup Pays => DOMAIN h.rows \subseteq Stored
    PROVE  Types'
<1>1. req' \in [Workers -> Handlers] /\ req'[w] = h
      /\ \A v \in Workers \ {w} : req'[v] = req[v]
  BY DEF Types
<1>2. failures' \in Nat /\ (failures > 0 => failures' > 0)
  BY DEF Types
<1>3. \A v \in Workers \ {w} : HandlerOK(req[v])'
  BY <1>1, <1>2 DEF HandlerOK, Types, source
<1>4. HandlerOK(req[w])'
  BY <1>1 DEF HandlerOK
<1>5. \A v \in Workers : /\ HandlerOK(req[v])'
        /\ (req'[v] \in Nexts \cup Pays => DOMAIN req'[v].rows \subseteq Stored')
  BY <1>1, <1>3, <1>4 DEF Types
<1>6. QED
  BY <1>1, <1>2, <1>5 DEF Types, source

(* The row that is written is of a stored invoice.                         *)
LEMMA SameStored ==
    ASSUME Types, NEW i \in Stored, NEW row \in Rows, info' = [info EXCEPT ![i] = row]
    PROVE  /\ info' \in [Invoices -> {Absent} \cup Rows] /\ Stored' = Stored
           /\ info'[i] = row
           /\ \A j \in Invoices \ {i} : info'[j] = info[j]
<1>1. i \in Invoices /\ row.stored
  BY DEF Stored, Rows
<1>2. QED
  BY <1>1 DEF Stored, Types

LEMMA TypesAfterLeaving ==
    ASSUME Types, NEW w \in Workers, NEW h \in Handlers \ Pays, NEW failed \in {0, 1},
           NEW i, NEW balance, NEW total, req[w] \in Nexts \cup Pays,
           LeftTo(h, req[w], i, balance, total),
           req' = [req EXCEPT ![w] = h],
           UNCHANGED <<source, clean, wallet, active, sync, others, told, overlap>>,
           failures' = failures + failed,
           info' \in [Invoices -> {Absent} \cup Rows], Stored' = Stored,
           tx' \in [Invoices -> Int]
    PROVE  Types'
<1>1. /\ h \in Nexts => /\ (h.kind = "claim" => h.known)
                        /\ DOMAIN h.rows \subseteq DOMAIN req[w].rows
      /\ h \notin Pays
  BY ByPc, LeftIsOK
<1>2. HandlerOK(h)'
  BY <1>1 DEF HandlerOK
<1>3. h \in Nexts \cup Pays => DOMAIN h.rows \subseteq Stored
  BY <1>1, ByPc
<1>4. /\ wallet' \in Int /\ others' \in Int /\ told' \in Int
      /\ overlap' \in BOOLEAN
  BY DEF Types
<1>5. QED
  BY <1>2, <1>3, <1>4, OneMoves

(* A step of a payment that goes on.                                       *)
LEMMA TypesAfterPaying ==
    ASSUME Types, NEW w \in Workers, NEW h \in Pays, NEW failed \in {0, 1},
           req[w] \in Pays, SamePayment(h, req[w]),
           req' = [req EXCEPT ![w] = h],
           h.pc = "undo" => failed = 1,
           UNCHANGED <<source, clean, info, active, sync, others, told, overlap>>,
           failures' = failures + failed,
           wallet' \in Int, tx' \in [Invoices -> Int]
    PROVE  Types'
<1>1. /\ HandlerOK(req[w]) /\ DOMAIN req[w].rows \subseteq Stored
      /\ failures' \in Nat
  BY ByPc DEF Types
<1>2. HandlerOK(h)'
  <2>1. h \notin Nexts
    BY DEF Nexts, Pays, Paying
  <2>2. h.known /\ h.cur \in DOMAIN h.rows /\ h.cur \notin phoneless
    BY <1>1 DEF HandlerOK, SamePayment
  <2>3. h.pc = "undo" => failures' > 0
    BY <1>1 DEF Types
  <2>4. QED
    BY <2>1, <2>2, <2>3 DEF HandlerOK, source
<1>3. h \in Handlers /\ DOMAIN h.rows \subseteq Stored
  BY <1>1 DEF Handlers, SamePayment
<1>4. /\ others' \in Int /\ told' \in Int /\ overlap' \in BOOLEAN
      /\ info' \in [Invoices -> {Absent} \cup Rows] /\ Stored' = Stored
  BY DEF Types, Stored
<1>5. QED
  BY <1>2, <1>3, <1>4, OneMoves

LEMMA TypesAfterStep ==
    ASSUME Types, NEW w \in Workers,
           Step(w) \/ SaveFails(w) \/ WalletFails(w) \/ UndoFails(w) \/ Die(w)
    PROVE  Types'
<1>0. /\ tx \in [Invoices -> Int] /\ failures + 0 = failures
      /\ info \in [Invoices -> {Absent} \cup Rows]
      /\ UNCHANGED info => Stored' = Stored
  BY DEF Types, Stored
<1>1. ASSUME NEW i \in Invoices, Skips(w, i) PROVE Types'
  <2>1. PICK row \in Rows : info' = [info EXCEPT ![i] = row]
    BY <1>1, SkipsIs
  <2>2. PICK h \in Handlers \ Pays : /\ req' = [req EXCEPT ![w] = h]
                              /\ LeftTo(h, req[w], i, req[w].wallet, req[w].total)
    BY <1>1, SkipsIs
  <2>3. /\ req[w] \in Nexts /\ i \in DOMAIN req[w].rows
        /\ UNCHANGED <<source, clean, tx, wallet, active, sync, others, told,
                       failures, overlap>>
    BY <1>1, SkipsIs DEF history
  <2>4. i \in Stored
    BY <2>3, ByPc
  <2>5. info' \in [Invoices -> {Absent} \cup Rows] /\ Stored' = Stored
    BY <2>1, <2>4, SameStored
  <2>6. QED
    BY <1>0, <2>2, <2>3, <2>5, TypesAfterLeaving
<1>2. ASSUME NEW i \in Invoices, Pay(w, i) PROVE Types'
  <2>1. PICK h \in Pays : /\ req' = [req EXCEPT ![w] = h] /\ h.pc = "insert"
                          /\ h.cur = i /\ h.known /\ h.rows = req[w].rows
    BY <1>2, PayIs
  <2>2. /\ req[w] \in Nexts /\ i \in DOMAIN req[w].rows /\ i \notin phoneless
        /\ UNCHANGED <<source, tables, active, sync, history>>
    BY <1>2, PayIs
  <2>3. h \notin Nexts
    BY DEF Nexts, Pays, Paying
  <2>4. HandlerOK(h)'
    BY <2>1, <2>2, <2>3 DEF HandlerOK, source
  <2>5. h \in Handlers /\ DOMAIN h.rows \subseteq Stored
    BY <2>1, <2>2, ByPc DEF Handlers
  <2>6. /\ wallet' \in Int /\ others' \in Int /\ told' \in Int /\ overlap' \in BOOLEAN
        /\ UNCHANGED <<source, clean, info, tx, active, sync, failures>>
    BY <2>2 DEF Types, tables, history
  <2>7. QED
    BY <1>0, <2>1, <2>4, <2>5, <2>6, OneMoves
<1>3. CASE Insert(w)
  <2>1. PICK h \in Pays : /\ req' = [req EXCEPT ![w] = h] /\ h.pc = "wallet"
                          /\ SamePayment(h, req[w])
    BY <1>3, InsertIs
  <2>2. /\ req[w] \in Pays /\ req[w].cur \in Invoices
        /\ tx' = [tx EXCEPT ![req[w].cur] = @ + 1]
        /\ UNCHANGED <<source, clean, info, wallet, active, sync, others, told,
                       failures, overlap>>
    BY <1>3, InsertIs DEF Pays, history
  <2>3. tx' \in [Invoices -> Int] /\ wallet' \in Int
    BY <1>0, <2>2 DEF Types
  <2>4. QED
    BY <1>0, <2>1, <2>2, <2>3, TypesAfterPaying
<1>4. CASE SaveWallet(w)
  <2>1. PICK h \in Pays : /\ req' = [req EXCEPT ![w] = h] /\ h.pc = "row"
                          /\ SamePayment(h, req[w])
    BY <1>4, SaveWalletIs
  <2>2. /\ req[w] \in Pays /\ wallet' \in Int
        /\ UNCHANGED <<source, clean, info, tx, active, sync, others, told,
                       failures, overlap>>
    BY <1>4, SaveWalletIs DEF history
  <2>3. QED
    BY <1>0, <2>1, <2>2, TypesAfterPaying
<1>5. CASE SaveRow(w)
  <2>1. PICK row \in Rows : info' = [info EXCEPT ![req[w].cur] = row]
    BY <1>5, SaveRowIs
  <2>2. PICK h \in Handlers \ Pays :
           /\ req' = [req EXCEPT ![w] = h]
           /\ LeftTo(h, req[w], req[w].cur, req[w].wallet, Counted(req[w]))
    BY <1>5, SaveRowIs
  <2>3. /\ req[w] \in Pays /\ req[w].cur \in Stored
        /\ UNCHANGED <<source, clean, tx, wallet, active, sync, others, told,
                       failures, overlap>>
    BY <1>5, SaveRowIs, ByPc DEF history, HandlerOK
  <2>4. info' \in [Invoices -> {Absent} \cup Rows] /\ Stored' = Stored
    BY <2>1, <2>3, SameStored
  <2>5. QED
    BY <1>0, <2>2, <2>3, <2>4, TypesAfterLeaving
<1>6. CASE SaveFails(w)
  <2>1. PICK h, total :
           /\ h \in Handlers \ Pays
           /\ req' = [req EXCEPT ![w] = h]
           /\ LeftTo(h, req[w], req[w].cur, req[w].wallet, total)
    BY <1>6, SaveFailsIs
  <2>2. /\ req[w] \in Pays /\ failures' = failures + 1
        /\ UNCHANGED <<source, clean, info, tx, wallet, active, sync, others, told,
                       overlap>>
    BY <1>6, SaveFailsIs DEF tables
  <2>3. QED
    BY <1>0, <2>1, <2>2, TypesAfterLeaving
<1>7. CASE WalletFails(w)
  <2>1. /\ req[w] \in Pays /\ failures' = failures + 1
        /\ UNCHANGED <<source, clean, info, tx, wallet, active, sync, others, told,
                       overlap>>
    BY <1>7, WalletFailsIs DEF tables
  <2>2. ASSUME NEW h \in Pays, req' = [req EXCEPT ![w] = h], SamePayment(h, req[w])
        PROVE  Types'
    <3>1. wallet' \in Int /\ tx' \in [Invoices -> Int]
      BY <1>0, <2>1 DEF Types
    <3>2. QED
      BY <2>1, <2>2, <3>1, TypesAfterPaying
  <2>3. ASSUME NEW h \in Handlers \ Pays, req' = [req EXCEPT ![w] = h],
               LeftTo(h, req[w], req[w].cur, Raised(req[w]), req[w].total)
        PROVE  Types'
    BY <1>0, <2>1, <2>3, TypesAfterLeaving
  <2>4. QED
    BY <1>7, <2>2, <2>3, WalletFailsIs
<1>8. CASE Undo(w) \/ UndoFails(w)
  <2>1. PICK h \in Handlers \ Pays :
           /\ req' = [req EXCEPT ![w] = h]
           /\ LeftTo(h, req[w], req[w].cur, req[w].wallet, req[w].total)
    BY <1>8, UndoIs
  <2>2. /\ req[w] \in Pays /\ req[w].cur \in Invoices
        /\ tx' = tx \/ tx' = [tx EXCEPT ![req[w].cur] = @ - 1]
        /\ UNCHANGED <<source, clean, info, wallet, active, sync, others, told,
                       failures, overlap>>
    BY <1>8, UndoIs DEF Pays, history
  <2>3. tx' \in [Invoices -> Int]
    BY <1>0, <2>2
  <2>4. QED
    BY <1>0, <2>1, <2>2, <2>3, TypesAfterLeaving
<1>9. CASE Answer(w)
  <2>1. /\ req' = [req EXCEPT ![w] = Idle] /\ told' = told + req[w].total
        /\ req[w].total \in Nat
        /\ UNCHANGED <<source, clean, info, tx, wallet, active, sync, others,
                       failures, overlap>>
    BY <1>9, AnswerIs DEF Answers, tables
  <2>2. HandlerOK(Idle)' /\ told' \in Int /\ wallet' \in Int /\ others' \in Int
        /\ overlap' \in BOOLEAN
    BY <2>1, IdleIs DEF HandlerOK, Types
  <2>3. QED
    BY <1>0, <2>1, <2>2, IdleIs, OneMoves
<1>10. CASE Die(w)
  <2>1. /\ req' = [req EXCEPT ![w] = Idle] /\ failures' = failures + 1
        /\ UNCHANGED <<source, clean, info, tx, wallet, active, sync, others, told,
                       overlap>>
    BY <1>10, DieIs DEF tables
  <2>2. HandlerOK(Idle)' /\ told' \in Int /\ wallet' \in Int /\ others' \in Int
        /\ overlap' \in BOOLEAN
    BY <2>1, IdleIs DEF HandlerOK, Types
  <2>3. QED
    BY <1>0, <2>1, <2>2, IdleIs, OneMoves
<1>11. QED
  BY <1>1, <1>2, <1>3, <1>4, <1>5, <1>6, <1>7, <1>8, <1>9, <1>10 DEF Step, Skips

LEMMA TypesAfterBegin ==
    ASSUME Types, NEW w \in Workers, Claim(w) \/ Assign(w)
    PROVE  Types'
<1>1. PICK h \in Nexts : /\ req' = [req EXCEPT ![w] = h] /\ h.known = active
                         /\ h.kind = "claim" => active
                         /\ DOMAIN h.rows \subseteq Unclaimed
  BY BeginIs
<1>2. /\ overlap' = (overlap \/ Busy) /\ Busy \in BOOLEAN
      /\ UNCHANGED <<source, clean, info, tx, wallet, active, sync, others, told,
                     failures>>
  BY BeginIs DEF tables, Busy
<1>3. h \in Handlers /\ h \notin Pays
  BY DEF Handlers, Nexts, Pays, Paying
<1>4. HandlerOK(h)' /\ DOMAIN h.rows \subseteq Stored
  BY <1>1, <1>3 DEF HandlerOK, Unclaimed
<1>5. /\ overlap' \in BOOLEAN /\ failures + 0 = failures
      /\ Stored' = Stored
  BY <1>2 DEF Types, Stored
<1>6. QED
  BY <1>1, <1>2, <1>3, <1>4, <1>5, OneMoves DEF Types

-----------------------------------------------------------------------------
(* The nightly import and everything else that is no step of a request.    *)

LEMMA SyncIs ==
    ASSUME Types, sync # Idle
    PROVE  /\ sync.pc \in {"clean", "info"}
           /\ sync.batch \subseteq view /\ sync.fresh \subseteq sync.batch
           /\ view \subseteq Invoices
  BY DEF Types, Syncs

LEMMA FetchIs ==
    ASSUME Types, SyncFetch
    PROVE  /\ UNCHANGED <<source, tables, active, req, history>>
           /\ sync' \in Syncs /\ sync' # Idle
           /\ sync'.batch = {i \in view : DateOf[i] > Newest}
           /\ sync'.fresh = {i \in sync'.batch :
                               \A j \in Stored : NumberOf[j] # NumberOf[i]}
<1>1. PICK batch, fresh :
        /\ batch = {i \in view : DateOf[i] > Newest}
        /\ fresh = {i \in batch : \A j \in Stored : NumberOf[j] # NumberOf[i]}
        /\ sync' = [pc |-> "clean", batch |-> batch, fresh |-> fresh]
  BY DEF SyncFetch
<1>2. sync' # Idle
  BY <1>1 DEF Idle
<1>3. sync' \in Syncs
  BY <1>1 DEF Syncs, Types
<1>4. QED
  BY <1>1, <1>2, <1>3 DEF SyncFetch

LEMMA InfoIs ==
    ASSUME Types, SyncInfo
    PROVE  /\ UNCHANGED <<source, clean, tx, wallet, active, req, history>>
           /\ sync # Idle /\ sync' = Idle /\ sync.fresh \subseteq view
           /\ Stored' = Stored \cup sync.fresh
           /\ \A i \in sync.fresh : info'[i] = NewRow
           /\ \A i \in Invoices \ sync.fresh : info'[i] = info[i]
           /\ info' \in [Invoices -> {Absent} \cup Rows]
<1>1. sync # Idle
  BY DEF SyncInfo, Idle
<1>2. sync.fresh \subseteq view /\ view \subseteq Invoices
  BY <1>1, SyncIs
<1>3. info' = [i \in Invoices |-> IF i \in sync.fresh THEN NewRow ELSE info[i]]
  BY DEF SyncInfo
<1>4. NewRow \in Rows /\ NewRow.stored
  BY DEF NewRow, Rows
<1>5. Stored' = Stored \cup sync.fresh
  BY <1>2, <1>3, <1>4 DEF Stored
<1>6. info' \in [Invoices -> {Absent} \cup Rows]
  BY <1>3, <1>4 DEF Types
<1>7. QED
  BY <1>1, <1>2, <1>3, <1>5, <1>6 DEF SyncInfo

LEMMA CleanIs ==
    ASSUME Types, SyncClean
    PROVE  /\ UNCHANGED <<source, info, tx, wallet, active, req, history>>
           /\ clean' \subseteq Invoices /\ sync # Idle
           /\ sync' \in Syncs /\ sync' # Idle
           /\ sync'.batch = sync.batch /\ sync'.fresh = sync.fresh
<1>1. sync # Idle
  BY DEF SyncClean, Idle
<1>2. PICK s : s = [sync EXCEPT !.pc = "info"]
  OBVIOUS
<1>3. s \in Syncs /\ s # Idle /\ s.batch = sync.batch /\ s.fresh = sync.fresh
  BY <1>1, <1>2 DEF Types, Syncs, Idle
<1>4. clean' \subseteq Invoices
  BY <1>1, SyncIs DEF SyncClean, Types
<1>5. QED
  BY <1>1, <1>2, <1>3, <1>4 DEF SyncClean

LEMMA ArriveIs ==
    ASSUME Types, NEW i \in Invoices, Arrive(i)
    PROVE  /\ UNCHANGED <<tables, active, sync, req, history>>
           /\ i \notin view /\ view' = view \cup {i}
           /\ phoneless \subseteq phoneless' /\ phoneless' \subseteq phoneless \cup {i}
           /\ late \subseteq late' /\ late' \subseteq late \cup {i}
           /\ (\E j \in view : DateOf[j] >= DateOf[i]) => i \in late'
  BY DEF Arrive

LEMMA OtherIs ==
    ASSUME Types, Other
    PROVE  /\ UNCHANGED <<source, clean, info, tx, active, sync, req, told, failures>>
           /\ overlap' = (overlap \/ Busy)
           /\ \E d \in {-1, 1} : wallet' = wallet + d /\ others' = others + d
  BY DEF Other

(* What leaves the invoices and the requests alone.                        *)
Aside == SyncFetch \/ SyncClean \/ SyncFails \/ SignUp \/ Other

LEMMA AsideIs ==
    ASSUME Types, Aside
    PROVE  /\ UNCHANGED <<source, info, tx, req, told>>
           /\ failures' \in {failures, failures + 1}
           /\ overlap' = overlap \/ overlap' = (overlap \/ Busy)
           /\ \/ UNCHANGED <<wallet, others>>
              \/ /\ overlap' = (overlap \/ Busy) /\ failures' = failures
                 /\ \E d \in {-1, 1} : wallet' = wallet + d /\ others' = others + d
<1>1. CASE SyncFetch
  BY <1>1, FetchIs DEF tables, history
<1>2. CASE SyncClean
  BY <1>2, CleanIs DEF history
<1>3. CASE SyncFails
  BY <1>3 DEF SyncFails, tables
<1>4. CASE SignUp
  BY <1>4 DEF SignUp, tables, history
<1>5. CASE Other
  BY <1>5, OtherIs
<1>6. QED
  BY <1>1, <1>2, <1>3, <1>4, <1>5 DEF Aside

LEMMA TypesAfterAside ==
    ASSUME Types, Aside
    PROVE  Types'
<1>1. /\ UNCHANGED <<source, info, tx, req, told>>
      /\ failures' \in Nat /\ (failures > 0 => failures' > 0)
      /\ wallet' \in Int /\ others' \in Int
  BY AsideIs DEF Types
<1>2. overlap' \in BOOLEAN
  BY AsideIs DEF Types, Busy
<1>3. /\ clean' \subseteq Invoices /\ active' \in BOOLEAN /\ sync' \in Syncs
      /\ sync' # Idle => sync'.batch \subseteq view /\ sync'.fresh \subseteq sync'.batch
  <2>1. CASE SyncFetch
    BY <2>1, FetchIs DEF Types, tables
  <2>2. CASE SyncClean
    BY <2>2, CleanIs, SyncIs DEF Types
  <2>3. CASE SyncFails
    BY <2>3, IdleIs DEF SyncFails, Types, tables
  <2>4. CASE SignUp
    BY <2>4 DEF SignUp, Types, tables
  <2>5. CASE Other
    BY <2>5, OtherIs DEF Types
  <2>6. QED
    BY <2>1, <2>2, <2>3, <2>4, <2>5 DEF Aside
<1>4. Stored' = Stored /\ view' = view /\ phoneless' = phoneless /\ late' = late
  BY <1>1 DEF Stored, source
<1>5. \A w \in Workers : HandlerOK(req[w])'
  BY <1>1, <1>4 DEF HandlerOK, Types
<1>6. QED
  BY <1>1, <1>2, <1>3, <1>4, <1>5 DEF Types

LEMMA TypesAfterInfo ==
    ASSUME Types, SyncInfo
    PROVE  Types'
<1>1. /\ UNCHANGED <<source, clean, tx, wallet, active, req, history>>
      /\ sync' = Idle /\ sync.fresh \subseteq view
      /\ Stored' = Stored \cup sync.fresh
      /\ info' \in [Invoices -> {Absent} \cup Rows]
  BY InfoIs
<1>2. \A w \in Workers : HandlerOK(req[w])'
  BY <1>1 DEF HandlerOK, Types, source, history
<1>3. QED
  BY <1>1, <1>2, IdleIs DEF Types, source, history

LEMMA TypesAfterArrive ==
    ASSUME Types, NEW i \in Invoices, Arrive(i)
    PROVE  Types'
<1>1. /\ UNCHANGED <<tables, active, sync, req, history>>
      /\ i \notin view /\ view' = view \cup {i}
      /\ phoneless \subseteq phoneless' /\ phoneless' \subseteq phoneless \cup {i}
      /\ late' \subseteq late \cup {i}
  BY ArriveIs
<1>2. Stored' = Stored /\ i \notin Stored
  BY <1>1 DEF Stored, tables, Types
<1>3. ASSUME NEW w \in Workers
      PROVE  HandlerOK(req[w])'
  <2>1. HandlerOK(req[w]) /\ (req[w] \in Pays => req[w].cur \in Stored)
    BY ByPc DEF HandlerOK
  <2>2. QED
    BY <1>1, <1>2, <2>1 DEF HandlerOK, history
<1>4. QED
  BY <1>1, <1>2, <1>3 DEF Types, tables, history

LEMMA TypesKept == Types /\ [Next]_vars => Types'
<1> SUFFICES ASSUME Types, [Next]_vars PROVE Types'
  OBVIOUS
<1>1. CASE UNCHANGED vars
  <2>1. /\ UNCHANGED <<view, phoneless, late, clean, info, tx, wallet, active, sync>>
        /\ UNCHANGED <<req, others, told, failures, overlap>>
    BY <1>1 DEF vars, source, tables, history
  <2>2. Stored' = Stored /\ \A w \in Workers : HandlerOK(req[w])'
    BY <2>1 DEF Stored, HandlerOK, Types
  <2>3. QED
    BY <2>1, <2>2 DEF Types
<1>2. QED
  BY <1>1, TypesAfterStep, TypesAfterBegin, TypesAfterAside, TypesAfterInfo,
     TypesAfterArrive DEF Next, Sync, Aside

LEMMA TypesInitially == Init => Types
<1> SUFFICES ASSUME Init PROVE Types
  OBVIOUS
<1>1. Stored = {}
  BY DEF Init, Stored, Absent
<1>2. \A w \in Workers : req[w] = Idle /\ HandlerOK(req[w])
  BY IdleIs DEF Init, HandlerOK
<1>3. req \in [Workers -> Handlers]
  BY IdleIs DEF Init
<1>4. \A w \in Workers : req[w] \notin Nexts \cup Pays
  BY <1>2, IdleIs
<1>5. info \in [Invoices -> {Absent} \cup Rows] /\ tx \in [Invoices -> Int]
  BY DEF Init
<1>6. /\ view = {} /\ phoneless = {} /\ late = {} /\ clean = {} /\ sync = Idle
      /\ wallet = 0 /\ others = 0 /\ told = 0 /\ failures = 0 /\ overlap = FALSE
      /\ active \in BOOLEAN
  BY DEF Init
<1>7. \A w \in Workers : /\ HandlerOK(req[w])
                         /\ req[w] \in Nexts \cup Pays => DOMAIN req[w].rows \subseteq Stored
  BY <1>2, <1>4
<1>8. sync \in Syncs /\ Stored \subseteq view
  BY <1>1, <1>6, IdleIs
<1>9. sync # Idle => sync.batch \subseteq view /\ sync.fresh \subseteq sync.batch
  BY <1>6
<1>10. wallet \in Int /\ others \in Int /\ told \in Int /\ failures \in Nat
  BY <1>6
<1>o. overlap \in BOOLEAN
  BY <1>6, Zenon
<1>11. /\ view \subseteq Invoices /\ phoneless \subseteq Invoices
       /\ late \subseteq Invoices /\ clean \subseteq Invoices
  BY <1>6
<1>12. QED
  BY <1>3, <1>5, <1>6, <1>7, <1>8, <1>9, <1>10, <1>o, <1>11 DEF Types
-----------------------------------------------------------------------------
(* The payments of a number.                                               *)

InTx == {"wallet", "row", "undo"}

(* The requests that hold a transaction of i, and those about to insert    *)
(* one of a number.                                                        *)
Holding(i) == {w \in Workers : req[w].pc \in InTx /\ req[w].cur = i}
Inserting(n) == {w \in Workers : req[w].pc = "insert" /\ NumberOf[req[w].cur] = n}

Backed == \A i \in Invoices : Cardinality(Holding(i)) <= tx[i]

OneBusy == \A v, w \in Workers : req[v] # Idle /\ req[w] # Idle => v = w
Alone == ~overlap => OneBusy

Bound == IF overlap THEN Cardinality(Workers) ELSE 1
Once == \A i \in Invoices :
           Payments(NumberOf[i]) + Cardinality(Inserting(NumberOf[i])) <= Bound

Counting == Backed /\ Alone /\ Once

LEMMA SetsAreFinite ==
    /\ IsFiniteSet(Workers) /\ Cardinality(Workers) \in Nat
    /\ \A i : /\ IsFiniteSet(Holding(i)) /\ Cardinality(Holding(i)) \in Nat
              /\ IsFiniteSet(Holding(i)') /\ Cardinality(Holding(i)') \in Nat
    /\ \A n : /\ IsFiniteSet(Inserting(n)) /\ Cardinality(Inserting(n)) \in Nat
              /\ IsFiniteSet(Inserting(n)') /\ Cardinality(Inserting(n)') \in Nat
              /\ Cardinality(Inserting(n)) <= Cardinality(Workers)
              /\ Cardinality(Inserting(n)') <= Cardinality(Workers)
<1>1. /\ \A i : Holding(i) \subseteq Workers /\ Holding(i)' \subseteq Workers
      /\ \A n : Inserting(n) \subseteq Workers /\ Inserting(n)' \subseteq Workers
  BY DEF Holding, Inserting
<1>2. IsFiniteSet(Workers)
  BY InvoicesAssumption
<1>3. QED
  BY <1>1, <1>2, FS_Subset, FS_CardinalityType

(* What is stored is never negative, and its sum is a number.              *)
LEMMA TxIsNat ==
    ASSUME Types, Backed, NEW i \in Invoices
    PROVE  tx[i] \in Nat
<1>1. tx[i] \in Int /\ Cardinality(Holding(i)) <= tx[i]
  BY DEF Types, Backed
<1>2. Cardinality(Holding(i)) \in Nat
  BY SetsAreFinite
<1>3. QED
  BY <1>1, <1>2

Numbered(n) == {i \in Invoices : NumberOf[i] = n}

LEMMA NumberedIsFinite ==
    ASSUME NEW n
    PROVE  IsFiniteSet(Numbered(n)) /\ Numbered(n) \in SUBSET Invoices
<1>1. Numbered(n) \in SUBSET Invoices
  BY DEF Numbered
<1>2. QED
  BY <1>1, FS_Subset, InvoicesAssumption

LEMMA PaymentsIs ==
    ASSUME NEW n
    PROVE  Payments(n) = SumFunctionOnSet(tx, Numbered(n))
  BY DEF Payments, Numbered

LEMMA PaymentsAreNat ==
    ASSUME Types, Backed, NEW n
    PROVE  Payments(n) \in Nat
<1>1. \A i \in Numbered(n) : tx[i] \in Nat
  BY TxIsNat, NumberedIsFinite
<1>2. QED
  BY <1>1, NumberedIsFinite, PaymentsIs, SumIsNat

(* A number of which an invoice has a transaction was paid.                *)
LEMMA PaidIsPaid ==
    ASSUME Types, Backed, NEW i \in Invoices, tx[i] > 0
    PROVE  Payments(NumberOf[i]) > 0
<1>1. i \in Numbered(NumberOf[i])
  BY DEF Numbered
<1>2. \A j \in Numbered(NumberOf[i]) : tx[j] \in Nat
  BY TxIsNat, NumberedIsFinite
<1>3. {i} \in SUBSET Numbered(NumberOf[i])
  BY <1>1
<1>4. SumFunctionOnSet(tx, {i}) <= SumFunctionOnSet(tx, Numbered(NumberOf[i]))
  BY <1>2, <1>3, NumberedIsFinite, SumOfSome
<1>5. SumFunctionOnSet(tx, {i}) = tx[i]
  <2>1. {} \cup {i} = {i} /\ tx[i] \in Int /\ IsFiniteSet({}) /\ i \notin {}
    BY FS_EmptySet DEF Types
  <2>2. SumFunctionOnSet(tx, {} \cup {i}) = SumFunctionOnSet(tx, {}) + tx[i]
    BY <2>1, SumWith
  <2>3. QED
    BY <2>1, <2>2, SumOfNone
<1>6. Payments(NumberOf[i]) \in Nat
  BY PaymentsAreNat
<1>7. QED
  BY <1>4, <1>5, <1>6, PaymentsIs DEF Types

(* A transaction more or less of an invoice is one of its number.          *)
LEMMA PaymentsChange ==
    ASSUME Types, NEW i \in Invoices, NEW d \in Int, NEW n,
           tx' = [tx EXCEPT ![i] = @ + d]
    PROVE  Payments(n)' = Payments(n) + IF NumberOf[i] = n THEN d ELSE 0
<1>1. Payments(n)' = SumFunctionOnSet(tx', Numbered(n))
  BY DEF Payments, Numbered
<1>2. /\ \A j \in Invoices : tx[j] \in Int /\ tx'[j] \in Int
      /\ tx'[i] = tx[i] + d
      /\ \A j \in Invoices \ {i} : tx'[j] = tx[j]
  BY DEF Types
<1>3. \A j \in Numbered(n) : tx[j] \in Int /\ tx'[j] \in Int
  BY <1>2, NumberedIsFinite
<1>4. SumFunctionOnSet(tx, Numbered(n)) \in Int
  BY <1>3, NumberedIsFinite, SumIsInt
<1>5. CASE NumberOf[i] = n
  <2>1. i \in Numbered(n)
    BY <1>5 DEF Numbered
  <2>2. \A j \in Numbered(n) \ {i} : tx'[j] = tx[j]
    BY <1>2, NumberedIsFinite
  <2>0. IsFiniteSet(Numbered(n))
    BY NumberedIsFinite
  <2>3. SumFunctionOnSet(tx', Numbered(n))
          = SumFunctionOnSet(tx, Numbered(n)) - tx[i] + tx'[i]
    <3>1. PICK f, g, S : f = tx /\ g = tx' /\ S = Numbered(n)
      OBVIOUS
    <3>2. /\ IsFiniteSet(S) /\ i \in S
          /\ \A j \in S : f[j] \in Int /\ g[j] \in Int
          /\ \A j \in S \ {i} : g[j] = f[j]
      BY <1>3, <2>0, <2>1, <2>2, <3>1
    <3>3. SumFunctionOnSet(g, S) = SumFunctionOnSet(f, S) - f[i] + g[i]
      BY <3>2, SumChanged
    <3>4. QED
      BY <3>1, <3>3
  <2>4. QED
    BY <1>1, <1>2, <1>4, <1>5, <2>3, PaymentsIs
<1>6. CASE NumberOf[i] # n
  <2>1. \A j \in Numbered(n) : tx'[j] = tx[j]
    BY <1>2, <1>6 DEF Numbered
  <2>2. SumFunctionOnSet(tx', Numbered(n)) = SumFunctionOnSet(tx, Numbered(n))
    BY <2>1, NumberedIsFinite, SumsAgree
  <2>3. QED
    BY <1>1, <1>4, <1>6, <2>2, PaymentsIs
<1>7. QED
  BY <1>5, <1>6

(* The bound only grows, and the sharing of the workers begins with one.   *)
LEMMA BoundGrows ==
    ASSUME Types, overlap' \in BOOLEAN, overlap => overlap',
           overlap' => overlap \/ Workers # {}
    PROVE  Bound <= Bound' /\ Bound \in Nat /\ Bound' \in Nat
<1>1. Workers # {} => Cardinality(Workers) >= 1
  <2>1. Workers # {} => Cardinality(Workers) # 0
    BY FS_EmptySet, InvoicesAssumption
  <2>2. QED
    BY <2>1, SetsAreFinite
<1>2. QED
  BY <1>1, SetsAreFinite DEF Bound, Types
(* A request that goes on without a payment in hand takes nothing away.    *)
LEMMA CountingAfterMove ==
    ASSUME Types, Counting, NEW w \in Workers, NEW h \in Handlers \ Pays,
           req' = [req EXCEPT ![w] = h], UNCHANGED tx,
           \/ overlap' = overlap /\ (req[w] = Idle => h = Idle)
           \/ overlap' = (overlap \/ Busy)
    PROVE  Counting'
<1>1. /\ req'[w] = h /\ \A v \in Workers \ {w} : req'[v] = req[v]
      /\ h.pc \notin Paying
  BY DEF Types, Handlers, Nexts, Answers, Idle, Paying
<1>2. ASSUME NEW i \in Invoices PROVE Cardinality(Holding(i)') <= tx'[i]
  <2>1. Holding(i)' \subseteq Holding(i)
    BY <1>1 DEF Holding, InTx, Paying
  <2>2. Cardinality(Holding(i)') <= Cardinality(Holding(i))
    BY <2>1, SetsAreFinite, FS_Subset
  <2>3. QED
    BY <2>2, SetsAreFinite DEF Counting, Backed, Types
<1>3. Alone'
  <2>1. SUFFICES ASSUME ~overlap', NEW u \in Workers, NEW v \in Workers,
                        req'[u] # Idle, req'[v] # Idle
                 PROVE  u = v
    BY DEF Alone, OneBusy
  <2>2. OneBusy /\ (req[w] = Idle => h = Idle \/ \A x \in Workers : req[x] = Idle)
    BY <2>1 DEF Counting, Alone, Busy
  <2>3. QED
    BY <1>1, <2>1, <2>2 DEF OneBusy
<1>4. ASSUME NEW i \in Invoices
      PROVE  Payments(NumberOf[i])' + Cardinality(Inserting(NumberOf[i])') <= Bound'
  <2>1. Inserting(NumberOf[i])' \subseteq Inserting(NumberOf[i])
    BY <1>1 DEF Inserting, Paying
  <2>2. Cardinality(Inserting(NumberOf[i])') <= Cardinality(Inserting(NumberOf[i]))
    BY <2>1, SetsAreFinite, FS_Subset
  <2>3. Payments(NumberOf[i])' = Payments(NumberOf[i])
    BY DEF Payments
  <2>4. Bound <= Bound' /\ Bound \in Nat /\ Bound' \in Nat
    <3>1. overlap' \in BOOLEAN /\ (overlap => overlap') /\ Workers # {}
      BY DEF Types, Busy
    <3>2. QED
      BY <3>1, BoundGrows
  <2>5. Payments(NumberOf[i]) \in Nat
    BY PaymentsAreNat DEF Counting
  <2>6. Payments(NumberOf[i]) + Cardinality(Inserting(NumberOf[i])) <= Bound
    BY DEF Counting, Once
  <2>7. QED
    BY <2>2, <2>3, <2>4, <2>5, <2>6, SetsAreFinite
<1>5. QED
  BY <1>2, <1>3, <1>4 DEF Counting, Backed, Once

(* What no request does.                                                   *)
LEMMA CountingUnmoved ==
    ASSUME Types, Counting, UNCHANGED <<tx, req>>,
           overlap' = overlap \/ overlap' = (overlap \/ Busy)
    PROVE  Counting'
<1>1. Backed'
  BY DEF Counting, Backed, Holding
<1>2. Alone'
  BY DEF Counting, Alone, OneBusy
<1>3. ASSUME NEW i \in Invoices
      PROVE  Payments(NumberOf[i])' + Cardinality(Inserting(NumberOf[i])') <= Bound'
  <2>1. Inserting(NumberOf[i])' = Inserting(NumberOf[i])
    BY DEF Inserting
  <2>2. Payments(NumberOf[i])' = Payments(NumberOf[i])
    BY DEF Payments
  <2>3. Bound <= Bound' /\ Bound \in Nat /\ Bound' \in Nat
    <3>1. Busy \in BOOLEAN /\ (Busy => Workers # {})
      BY DEF Busy
    <3>2. overlap' \in BOOLEAN
      BY <3>1 DEF Types
    <3>3. (overlap => overlap') /\ (overlap' => overlap \/ Workers # {})
      <4>1. CASE overlap' = overlap
        BY <4>1
      <4>2. CASE overlap' = (overlap \/ Busy)
        BY <3>1, <4>2
      <4>3. QED
        BY <4>1, <4>2
    <3>4. QED
      BY <3>2, <3>3, BoundGrows
  <2>4. Payments(NumberOf[i]) \in Nat
    BY PaymentsAreNat DEF Counting
  <2>5. Payments(NumberOf[i]) + Cardinality(Inserting(NumberOf[i])) <= Bound
    BY DEF Counting, Once
  <2>6. QED
    BY <2>1, <2>2, <2>3, <2>4, <2>5, SetsAreFinite
<1>4. QED
  BY <1>1, <1>2, <1>3 DEF Counting, Once

(* A payment that goes on does not make a second request busy.             *)
LEMMA StillAlone ==
    ASSUME Types, Alone, NEW w \in Workers, NEW h, req[w] # Idle,
           req' = [req EXCEPT ![w] = h], UNCHANGED overlap
    PROVE  Alone'
<1>1. req'[w] = h /\ \A v \in Workers \ {w} : req'[v] = req[v]
  BY DEF Types
<1>2. QED
  BY <1>1 DEF Alone, OneBusy

(* Nobody has paid the number when a request decides to.                   *)
LEMMA CountingAfterPay ==
    ASSUME Types, Counting, NEW w \in Workers, NEW i \in Invoices, Pay(w, i)
    PROVE  Counting'
<1>1. PICK h \in Pays : req' = [req EXCEPT ![w] = h] /\ h.pc = "insert" /\ h.cur = i
  BY PayIs
<1>2. /\ req[w] \in Nexts /\ ~AlreadyPaid(i) /\ req[w] # Idle
      /\ UNCHANGED <<tx, overlap>>
  BY PayIs, IdleIs DEF tables, history
<1>3. req'[w] = h /\ \A v \in Workers \ {w} : req'[v] = req[v]
  BY <1>1 DEF Types
<1>4. req[w].pc = "next"
  BY <1>2 DEF Nexts
<1>5. Backed'
  <2>1. \A j : Holding(j)' = Holding(j)
    BY <1>1, <1>3, <1>4 DEF Holding, InTx
  <2>2. QED
    BY <1>2, <2>1 DEF Counting, Backed
<1>6. Alone'
  BY <1>1, <1>2, StillAlone DEF Counting
<1>7. ASSUME NEW j \in Invoices
      PROVE  Payments(NumberOf[j])' + Cardinality(Inserting(NumberOf[j])') <= Bound'
  <2>1. Payments(NumberOf[j])' = Payments(NumberOf[j]) /\ Bound' = Bound
    BY <1>2 DEF Payments, Bound
  <2>2. Payments(NumberOf[j]) \in Nat
    BY PaymentsAreNat DEF Counting
  <2>3. CASE NumberOf[j] = NumberOf[i]
    <3>1. Payments(NumberOf[j]) = 0
      BY <1>2, <2>2, <2>3 DEF AlreadyPaid
    <3>2. Cardinality(Inserting(NumberOf[j])') <= Bound'
      <4>1. CASE overlap
        BY <1>2, <4>1, SetsAreFinite DEF Bound
      <4>2. CASE ~overlap
        <5>1. Inserting(NumberOf[j])' \subseteq {w}
          BY <1>2, <1>3, <4>2, IdleIs DEF Counting, Alone, OneBusy, Inserting
        <5>2. Cardinality({w}) = 1 /\ IsFiniteSet({w})
          BY FS_Singleton
        <5>3. Cardinality(Inserting(NumberOf[j])') <= 1
          BY <5>1, <5>2, FS_Subset
        <5>4. QED
          BY <1>2, <4>2, <5>3 DEF Bound
      <4>3. QED
        BY <4>1, <4>2
    <3>3. QED
      BY <2>1, <3>1, <3>2, SetsAreFinite
  <2>4. CASE NumberOf[j] # NumberOf[i]
    <3>1. Inserting(NumberOf[j])' = Inserting(NumberOf[j])
      BY <1>1, <1>3, <1>4, <2>4 DEF Inserting
    <3>2. QED
      BY <2>1, <3>1 DEF Counting, Once
  <2>5. QED
    BY <2>3, <2>4
<1>8. QED
  BY <1>5, <1>6, <1>7 DEF Counting, Once

LEMMA CountingAfterInsert ==
    ASSUME Types, Counting, NEW w \in Workers, Insert(w)
    PROVE  Counting'
<1>1. PICK h \in Pays : /\ req' = [req EXCEPT ![w] = h] /\ h.pc = "wallet"
                        /\ h.cur = req[w].cur
  BY InsertIs DEF SamePayment
<1>2. PICK i \in Invoices : i = req[w].cur
  BY InsertIs DEF Pays
<1>3. /\ req[w].pc = "insert" /\ req[w] # Idle
      /\ tx' = [tx EXCEPT ![i] = @ + 1]
      /\ UNCHANGED overlap
  BY <1>2, InsertIs, IdleIs DEF history
<1>4. /\ req'[w] = h /\ \A v \in Workers \ {w} : req'[v] = req[v]
      /\ tx'[i] = tx[i] + 1 /\ \A j \in Invoices \ {i} : tx'[j] = tx[j]
  BY <1>1, <1>3 DEF Types
<1>5. ASSUME NEW j \in Invoices PROVE Cardinality(Holding(j)') <= tx'[j]
  <2>1. Cardinality(Holding(j)) <= tx[j] /\ tx[j] \in Int
    BY DEF Counting, Backed, Types
  <2>2. CASE j = i
    <3>1. Holding(j)' = Holding(j) \cup {w} /\ w \notin Holding(j)
      BY <1>1, <1>2, <1>3, <1>4, <2>2 DEF Holding, InTx
    <3>2. Cardinality(Holding(j)') = Cardinality(Holding(j)) + 1
      BY <3>1, SetsAreFinite, FS_AddElement
    <3>3. QED
      BY <1>4, <2>1, <2>2, <3>2, SetsAreFinite
  <2>3. CASE j # i
    <3>1. Holding(j)' = Holding(j)
      BY <1>1, <1>2, <1>3, <1>4, <2>3 DEF Holding, InTx
    <3>2. QED
      BY <1>4, <2>1, <2>3, <3>1
  <2>4. QED
    BY <2>2, <2>3
<1>6. Alone'
  BY <1>1, <1>3, StillAlone DEF Counting
<1>7. ASSUME NEW j \in Invoices
      PROVE  Payments(NumberOf[j])' + Cardinality(Inserting(NumberOf[j])') <= Bound'
  <2>1. Payments(NumberOf[j]) \in Nat /\ Bound' = Bound
    BY <1>3, PaymentsAreNat DEF Counting, Bound
  <2>2. Payments(NumberOf[j]) + Cardinality(Inserting(NumberOf[j])) <= Bound
    BY DEF Counting, Once
  <2>3. Bound \in Nat
    BY SetsAreFinite DEF Bound
  <2>4. Payments(NumberOf[j])' =
          Payments(NumberOf[j]) + IF NumberOf[i] = NumberOf[j] THEN 1 ELSE 0
    <3>1. 1 \in Int
      OBVIOUS
    <3>2. QED
      BY <1>3, <3>1, PaymentsChange, Zenon
  <2>5. CASE NumberOf[j] = NumberOf[i]
    <3>1. Inserting(NumberOf[j])' = Inserting(NumberOf[j]) \ {w}
          /\ w \in Inserting(NumberOf[j])
      BY <1>1, <1>2, <1>3, <1>4, <2>5 DEF Inserting
    <3>2. Cardinality(Inserting(NumberOf[j])') = Cardinality(Inserting(NumberOf[j])) - 1
      BY <3>1, SetsAreFinite, FS_RemoveElement
    <3>3. QED
      BY <2>1, <2>2, <2>3, <2>4, <2>5, <3>2, SetsAreFinite
  <2>6. CASE NumberOf[j] # NumberOf[i]
    <3>1. Inserting(NumberOf[j])' = Inserting(NumberOf[j])
      BY <1>1, <1>2, <1>3, <1>4, <2>6 DEF Inserting
    <3>2. QED
      BY <2>1, <2>2, <2>4, <2>6, <3>1
  <2>7. QED
    BY <2>5, <2>6
<1>8. QED
  BY <1>5, <1>6, <1>7 DEF Counting, Backed, Once

(* A payment that goes on with its transaction.                            *)
LEMMA CountingAfterPaying ==
    ASSUME Types, Counting, NEW w \in Workers, NEW h \in Pays,
           req[w] \in Pays, req[w].pc \in InTx, h.pc \in InTx, h.cur = req[w].cur,
           req' = [req EXCEPT ![w] = h], UNCHANGED <<tx, overlap>>
    PROVE  Counting'
<1>1. req'[w] = h /\ \A v \in Workers \ {w} : req'[v] = req[v]
  BY DEF Types
<1>2. \A j : Holding(j)' = Holding(j)
  BY <1>1 DEF Holding
<1>3. \A n : Inserting(n)' = Inserting(n)
  BY <1>1 DEF Inserting, InTx
<1>4. \A n : Payments(n)' = Payments(n)
  BY DEF Payments
<1>5. Alone'
  BY StillAlone, IdleIs DEF Counting
<1>6. QED
  BY <1>2, <1>3, <1>4, <1>5 DEF Counting, Backed, Once, Bound

(* Undoing takes back a transaction that the request itself has inserted.  *)
LEMMA CountingAfterUndo ==
    ASSUME Types, Counting, NEW w \in Workers, Undo(w) \/ UndoFails(w)
    PROVE  Counting'
<1>1. PICK h \in Handlers \ Pays : req' = [req EXCEPT ![w] = h]
  BY UndoIs
<1>2. PICK i \in Invoices : i = req[w].cur
  BY UndoIs DEF Pays
<1>3. /\ req[w].pc = "undo" /\ req[w] # Idle /\ UNCHANGED overlap
      /\ tx' = tx \/ tx' = [tx EXCEPT ![i] = @ - 1]
  BY <1>2, UndoIs, IdleIs DEF history
<1>4. CASE tx' = tx
  BY <1>1, <1>3, <1>4, CountingAfterMove
<1>5. CASE tx' = [tx EXCEPT ![i] = @ - 1]
  <2>1. /\ req'[w] = h /\ \A v \in Workers \ {w} : req'[v] = req[v]
        /\ tx'[i] = tx[i] - 1 /\ \A j \in Invoices \ {i} : tx'[j] = tx[j]
        /\ h.pc \notin Paying
    BY <1>1, <1>5 DEF Types, Handlers, Nexts, Answers, Idle, Paying
  <2>2. ASSUME NEW j \in Invoices PROVE Cardinality(Holding(j)') <= tx'[j]
    <3>1. Cardinality(Holding(j)) <= tx[j] /\ tx[j] \in Int
      BY DEF Counting, Backed, Types
    <3>2. CASE j = i
      <4>1. Holding(j)' = Holding(j) \ {w} /\ w \in Holding(j)
        BY <1>2, <1>3, <2>1, <3>2 DEF Holding, InTx, Paying
      <4>2. Cardinality(Holding(j)') = Cardinality(Holding(j)) - 1
        BY <4>1, SetsAreFinite, FS_RemoveElement
      <4>3. QED
        BY <2>1, <3>1, <3>2, <4>2, SetsAreFinite
    <3>3. CASE j # i
      <4>1. Holding(j)' = Holding(j)
        BY <1>2, <1>3, <2>1, <3>3 DEF Holding, InTx, Paying
      <4>2. QED
        BY <2>1, <3>1, <3>3, <4>1
    <3>4. QED
      BY <3>2, <3>3
  <2>3. Alone'
    BY <1>1, <1>3, StillAlone DEF Counting
  <2>4. ASSUME NEW j \in Invoices
        PROVE  Payments(NumberOf[j])' + Cardinality(Inserting(NumberOf[j])') <= Bound'
    <3>1. Payments(NumberOf[j]) \in Nat /\ Bound' = Bound
      BY <1>3, PaymentsAreNat DEF Counting, Bound
    <3>2. Payments(NumberOf[j]) + Cardinality(Inserting(NumberOf[j])) <= Bound
      BY DEF Counting, Once
    <3>3. Bound \in Nat
      BY SetsAreFinite DEF Bound
    <3>4. tx' = [tx EXCEPT ![i] = @ + (-1)]
      BY <1>5 DEF Types
    <3>5. Payments(NumberOf[j])' =
            Payments(NumberOf[j]) + IF NumberOf[i] = NumberOf[j] THEN -1 ELSE 0
      <4>1. -1 \in Int
        OBVIOUS
      <4>2. QED
        BY <3>4, <4>1, PaymentsChange, Zenon
    <3>6. Inserting(NumberOf[j])' = Inserting(NumberOf[j])
      BY <1>3, <2>1 DEF Inserting, Paying
    <3>7. QED
      BY <3>1, <3>2, <3>3, <3>5, <3>6, SetsAreFinite
  <2>5. QED
    BY <2>2, <2>3, <2>4 DEF Counting, Backed, Once
<1>6. QED
  BY <1>3, <1>4, <1>5

LEMMA CountingKept == Types /\ Counting /\ [Next]_vars => Counting'
<1> SUFFICES ASSUME Types, Counting, [Next]_vars PROVE Counting'
  OBVIOUS
<1>1. ASSUME NEW w \in Workers, NEW i \in Invoices, Skips(w, i) PROVE Counting'
  BY <1>1, SkipsIs, CountingAfterMove, IdleIs DEF history
<1>2. ASSUME NEW w \in Workers, NEW i \in Invoices, Pay(w, i) PROVE Counting'
  BY <1>2, CountingAfterPay
<1>3. ASSUME NEW w \in Workers, Insert(w) PROVE Counting'
  BY <1>3, CountingAfterInsert
<1>4. ASSUME NEW w \in Workers, SaveWallet(w) PROVE Counting'
  BY <1>4, SaveWalletIs, CountingAfterPaying DEF history, InTx, SamePayment
<1>5. ASSUME NEW w \in Workers, SaveRow(w) PROVE Counting'
  BY <1>5, SaveRowIs, CountingAfterMove, IdleIs DEF history
<1>6. ASSUME NEW w \in Workers, SaveFails(w) PROVE Counting'
  BY <1>6, SaveFailsIs, CountingAfterMove, IdleIs DEF tables
<1>7. ASSUME NEW w \in Workers, WalletFails(w) PROVE Counting'
  BY <1>7, WalletFailsIs, CountingAfterMove, CountingAfterPaying, IdleIs
     DEF tables, InTx, SamePayment
<1>8. ASSUME NEW w \in Workers, Undo(w) \/ UndoFails(w) PROVE Counting'
  BY <1>8, CountingAfterUndo
<1>9. ASSUME NEW w \in Workers, Answer(w) PROVE Counting'
  BY <1>9, AnswerIs, CountingAfterMove, IdleIs DEF tables
<1>10. ASSUME NEW w \in Workers, Die(w) PROVE Counting'
  BY <1>10, DieIs, CountingAfterMove, IdleIs DEF tables
<1>11. ASSUME NEW w \in Workers, Claim(w) \/ Assign(w) PROVE Counting'
  <2>1. PICK h \in Nexts : req' = [req EXCEPT ![w] = h]
    BY <1>11, BeginIs
  <2>2. h \in Handlers \ Pays
    BY DEF Handlers, Nexts, Pays, Paying
  <2>3. UNCHANGED tx /\ overlap' = (overlap \/ Busy)
    BY <1>11, BeginIs DEF tables
  <2>4. QED
    BY <2>1, <2>2, <2>3, CountingAfterMove
<1>12. CASE Aside
  BY <1>12, AsideIs, CountingUnmoved
<1>13. CASE SyncInfo
  BY <1>13, InfoIs, CountingUnmoved DEF history
<1>14. ASSUME NEW i \in Invoices, Arrive(i) PROVE Counting'
  BY <1>14, ArriveIs, CountingUnmoved DEF tables, history
<1>15. CASE UNCHANGED vars
  BY <1>15, CountingUnmoved DEF vars, tables, history
<1>16. QED
  BY <1>1, <1>2, <1>3, <1>4, <1>5, <1>6, <1>7, <1>8, <1>9, <1>10, <1>11, <1>12,
     <1>13, <1>14, <1>15 DEF Next, Step, Skips, Sync, Aside

LEMMA CountingInitially == Init => Counting
<1> SUFFICES ASSUME Init PROVE Counting
  OBVIOUS
<1>1. /\ \A w \in Workers : req[w] = Idle /\ req[w].pc = "idle"
      /\ \A i \in Invoices : tx[i] = 0 /\ ~overlap
  BY DEF Init, Idle
<1>2. (\A i : Holding(i) = {}) /\ \A n : Inserting(n) = {}
  BY <1>1 DEF Holding, Inserting, InTx
<1>3. Cardinality({}) = 0
  BY FS_EmptySet
<1>4. Backed
  BY <1>1, <1>2, <1>3 DEF Backed
<1>5. Alone
  BY <1>1 DEF Alone, OneBusy
<1>6. ASSUME NEW i \in Invoices
      PROVE  Payments(NumberOf[i]) + Cardinality(Inserting(NumberOf[i])) <= Bound
  <2>1. \A j \in Numbered(NumberOf[i]) : tx[j] = 0
    BY <1>1, NumberedIsFinite
  <2>2. Payments(NumberOf[i]) = 0
    BY <2>1, PaymentsIs, NumberedIsFinite, SumOfZeros
  <2>3. overlap = FALSE
    BY DEF Init
  <2>4. QED
    BY <1>2, <1>3, <2>2, <2>3 DEF Bound
<1>7. QED
  BY <1>4, <1>5, <1>6 DEF Counting, Once

(* Every state has well-formed rows and requests, a transaction behind     *)
(* every payment in hand, and no more payments of a number than requests   *)
(* that could have looked before any of them.                              *)
THEOREM CountingAlways == Spec => [](Types /\ Counting)
<1>1. Init => Types /\ Counting
  BY TypesInitially, CountingInitially
<1>2. Types /\ Counting /\ [Next]_vars => (Types /\ Counting)'
  BY TypesKept, CountingKept
<1>3. QED
  BY <1>1, <1>2, PTL DEF Spec

(* Whatever saves fail, whoever dies and however requests overlap, an      *)
(* invoice number is paid at most once per request in flight, and once if  *)
(* they come one at a time: alreadyPaid looks for transactions before any  *)
(* is inserted, and an undone payment takes away only its own.             *)
THEOREM PaysOnce == Spec => []PaidOnce
<1>1. Types /\ Counting => PaidOnce
  <2> SUFFICES ASSUME Types, Counting, NEW i \in Invoices
               PROVE  Payments(NumberOf[i]) <= Bound
    BY DEF PaidOnce, Bound
  <2>1. Payments(NumberOf[i]) \in Nat /\ Bound \in Nat
    BY PaymentsAreNat, SetsAreFinite DEF Counting, Bound
  <2>2. Payments(NumberOf[i]) + Cardinality(Inserting(NumberOf[i])) <= Bound
    BY DEF Counting, Once
  <2>3. QED
    BY <2>1, <2>2, SetsAreFinite
<1>2. QED
  BY <1>1, CountingAlways, PTL
-----------------------------------------------------------------------------
(* The import.                                                             *)

Covered(i) == \E j \in Stored : NumberOf[j] = NumberOf[i]

(* What a run has fetched: new numbers only, and everything that is not    *)
(* newer than it, but for what came late and for what is stored.           *)
Imported ==
    /\ NothingSkipped
    /\ sync # Idle =>
         /\ \A i \in sync.fresh : ~Covered(i)
         /\ \A i \in view \ late, k \in sync.batch :
               DateOf[i] <= DateOf[k] => i \in sync.fresh \/ Covered(i)

LEMMA DatesAreNat ==
    ASSUME NEW i \in Invoices
    PROVE  DateOf[i] \in Nat
  BY InvoicesAssumption

(* getLatestTimestamp is of a stored invoice, and no other is newer.       *)
LEMMA NewestIs ==
    ASSUME Types
    PROVE  /\ Newest \in Int
           /\ \A i \in Stored : DateOf[i] <= Newest
           /\ Newest = -1 \/ \E i \in Stored : Newest = DateOf[i]
<1> DEFINE dates == {-1} \cup {DateOf[i] : i \in Stored}
<1>1. \A i \in Stored : DateOf[i] \in Nat
  BY DatesAreNat DEF Stored
<1>2. \E x \in dates : \A y \in dates : x >= y
  <2>1. CASE Stored = {}
    BY <2>1
  <2>2. CASE Stored # {}
    <3>1. IsFiniteSet(Stored)
      BY FS_Subset, InvoicesAssumption DEF Stored
    <3>2. PICK i \in Stored : \A j \in Stored : DateOf[j] <= DateOf[i]
      BY <1>1, <2>2, <3>1, GreatestExists
    <3>3. QED
      BY <1>1, <3>2
  <2>3. QED
    BY <2>1, <2>2
<1>3. Newest = CHOOSE x \in dates : \A y \in dates : x >= y
  BY DEF Newest, Max
<1>4. Newest \in dates /\ \A y \in dates : Newest >= y
  <2> HIDE DEF dates
  <2>1. QED
    BY <1>2, <1>3
<1>5. QED
  BY <1>1, <1>4

(* An invoice of a date that is not newer than a stored one.               *)
LEMMA OldEnough ==
    ASSUME Types, NEW i \in Invoices
    PROVE  DateOf[i] <= Newest <=> \E k \in Stored : DateOf[i] <= DateOf[k]
<1>1. DateOf[i] \in Nat /\ \A k \in Stored : DateOf[k] \in Nat
  BY DatesAreNat DEF Stored
<1>2. QED
  BY <1>1, NewestIs

NotSkipped == \A i \in view \ late, k \in Stored :
                 DateOf[i] <= DateOf[k] => Covered(i)

LEMMA NothingSkippedIs == Types => (NothingSkipped <=> NotSkipped)
<1> SUFFICES ASSUME Types PROVE NothingSkipped <=> NotSkipped
  OBVIOUS
<1>1. view \subseteq Invoices
  BY DEF Types
<1>2. QED
  BY <1>1, OldEnough DEF NothingSkipped, NotSkipped, Covered

(* A new run has everything that is not stored, back to the newest that is.*)
LEMMA ImportedAfterFetch ==
    ASSUME Types, Imported, SyncFetch
    PROVE  Imported'
<1>1. /\ UNCHANGED <<source, info>> /\ sync' # Idle
      /\ sync'.batch = {i \in view : DateOf[i] > Newest}
      /\ sync'.fresh = {i \in sync'.batch : ~Covered(i)}
  BY FetchIs DEF tables, Covered
<1>2. /\ Stored' = Stored /\ view' = view /\ late' = late
      /\ \A i : Covered(i)' <=> Covered(i)
  BY <1>1 DEF Stored, Covered, source
<1>3. NothingSkipped'
  BY <1>2 DEF Imported, NothingSkipped, Newest
<1>4. ASSUME NEW i \in view \ late, NEW k \in sync'.batch, DateOf[i] <= DateOf[k]
      PROVE  i \in sync'.fresh \/ Covered(i)
  <2>1. i \in Invoices /\ DateOf[i] \in Nat /\ Newest \in Int
    BY DatesAreNat, NewestIs DEF Types
  <2>2. CASE DateOf[i] > Newest
    BY <1>1, <2>2
  <2>3. CASE DateOf[i] <= Newest
    BY <2>3 DEF Imported, NothingSkipped, Covered
  <2>4. QED
    BY <2>1, <2>2, <2>3
<1>5. QED
  BY <1>1, <1>2, <1>3, <1>4 DEF Imported

(* Whatever is as old as a row that is now stored was fetched with it.     *)
LEMMA ImportedAfterInfo ==
    ASSUME Types, Imported, SyncInfo
    PROVE  Imported'
<1>1. /\ UNCHANGED source /\ sync # Idle /\ sync' = Idle
      /\ Stored' = Stored \cup sync.fresh
  BY InfoIs
<1>2. Types' /\ Types
  BY TypesAfterInfo
<1>3. NotSkipped /\ sync.fresh \subseteq sync.batch
  BY <1>1, NothingSkippedIs, SyncIs DEF Imported
<1>4. ASSUME NEW i \in view \ late, NEW k \in Stored \cup sync.fresh,
             DateOf[i] <= DateOf[k]
      PROVE  \E j \in Stored \cup sync.fresh : NumberOf[j] = NumberOf[i]
  BY <1>1, <1>3, <1>4 DEF Imported, NotSkipped, Covered
<1>5. NotSkipped'
  BY <1>1, <1>4 DEF NotSkipped, Covered, source
<1>6. NothingSkipped' <=> NotSkipped'
  <2>1. Types => (NothingSkipped <=> NotSkipped)
    BY NothingSkippedIs
  <2>2. (Types => (NothingSkipped <=> NotSkipped))'
    BY NothingSkippedIs, PTL
  <2>3. QED
    BY <1>2, <2>2
<1>7. QED
  BY <1>1, <1>5, <1>6 DEF Imported

(* What comes on time is newer than everything in view.                    *)
LEMMA ImportedAfterArrive ==
    ASSUME Types, Imported, NEW i \in Invoices, Arrive(i)
    PROVE  Imported'
<1>1. /\ UNCHANGED <<info, sync>> /\ view' = view \cup {i} /\ i \notin view
      /\ late \subseteq late'
      /\ (\E j \in view : DateOf[j] >= DateOf[i]) => i \in late'
  BY ArriveIs DEF tables
<1>2. Stored' = Stored /\ Newest' = Newest /\ \A j : Covered(j)' <=> Covered(j)
  BY <1>1 DEF Stored, Covered, Newest
<1>3. i \notin late' => \A j \in view : ~(DateOf[i] <= DateOf[j])
  <2>1. DateOf[i] \in Nat /\ \A j \in view : DateOf[j] \in Nat
    BY DatesAreNat DEF Types
  <2>2. QED
    BY <1>1, <2>1
<1>4. i \notin late' => ~(DateOf[i] <= Newest)
  <2>1. Stored \subseteq view
    BY DEF Types
  <2>2. QED
    BY <1>3, <2>1, OldEnough
<1>5. NothingSkipped'
  BY <1>1, <1>2, <1>4 DEF Imported, NothingSkipped
<1>6. sync # Idle => sync.batch \subseteq view
  BY DEF Types
<1>7. QED
  BY <1>1, <1>2, <1>3, <1>5, <1>6 DEF Imported

LEMMA ImportedUnmoved ==
    ASSUME Imported, UNCHANGED source, Stored' = Stored,
           \/ sync' = Idle
           \/ sync # Idle /\ sync'.batch = sync.batch /\ sync'.fresh = sync.fresh
    PROVE  Imported'
<1>1. /\ view' = view /\ late' = late /\ Newest' = Newest
      /\ \A j : Covered(j)' <=> Covered(j)
  BY DEF source, Newest, Covered
<1>2. QED
  BY <1>1 DEF Imported, NothingSkipped

LEMMA StepKeepsStored ==
    ASSUME Types, NEW w \in Workers,
           \/ Step(w) \/ SaveFails(w) \/ WalletFails(w) \/ UndoFails(w)
           \/ Die(w) \/ Claim(w) \/ Assign(w)
    PROVE  Stored' = Stored /\ UNCHANGED <<source, sync>>
<1>1. ASSUME NEW i \in Invoices, Skips(w, i)
      PROVE  Stored' = Stored /\ UNCHANGED <<source, sync>>
  <2>1. PICK row \in Rows : info' = [info EXCEPT ![i] = row]
    BY <1>1, SkipsIs
  <2>2. i \in Stored /\ UNCHANGED <<source, sync>>
    BY <1>1, SkipsIs, ByPc
  <2>3. QED
    BY <2>1, <2>2, SameStored
<1>2. CASE SaveRow(w)
  <2>1. PICK row \in Rows : info' = [info EXCEPT ![req[w].cur] = row]
    BY <1>2, SaveRowIs
  <2>2. req[w].cur \in Stored /\ UNCHANGED <<source, sync>>
    BY <1>2, SaveRowIs, ByPc DEF HandlerOK
  <2>3. QED
    BY <2>1, <2>2, SameStored
<1>3. CASE UNCHANGED <<source, info, sync>>
  BY <1>3 DEF Stored
<1>4. ASSUME NEW i \in Invoices, Pay(w, i) PROVE UNCHANGED <<source, info, sync>>
  BY <1>4, PayIs DEF tables
<1>5. Insert(w) => UNCHANGED <<source, info, sync>>
  BY InsertIs
<1>6. SaveWallet(w) => UNCHANGED <<source, info, sync>>
  BY SaveWalletIs
<1>7. SaveFails(w) \/ WalletFails(w) => UNCHANGED <<source, info, sync>>
  BY SaveFailsIs, WalletFailsIs DEF tables
<1>8. Undo(w) \/ UndoFails(w) => UNCHANGED <<source, info, sync>>
  BY UndoIs
<1>9. Answer(w) \/ Die(w) => UNCHANGED <<source, info, sync>>
  BY AnswerIs, DieIs DEF tables
<1>10. Claim(w) \/ Assign(w) => UNCHANGED <<source, info, sync>>
  BY BeginIs DEF tables
<1>11. QED
  BY <1>1, <1>2, <1>3, <1>4, <1>5, <1>6, <1>7, <1>8, <1>9, <1>10 DEF Step, Skips

LEMMA ImportedKept == Types /\ Imported /\ [Next]_vars => Imported'
<1> SUFFICES ASSUME Types, Imported, [Next]_vars PROVE Imported'
  OBVIOUS
<1>0. UNCHANGED sync => \/ sync' = Idle
                        \/ sync # Idle /\ sync'.batch = sync.batch /\ sync'.fresh = sync.fresh
  OBVIOUS
<1>1. ASSUME NEW w \in Workers,
             \/ Step(w) \/ SaveFails(w) \/ WalletFails(w) \/ UndoFails(w)
             \/ Die(w) \/ Claim(w) \/ Assign(w)
      PROVE  Imported'
  BY <1>0, <1>1, StepKeepsStored, ImportedUnmoved
<1>2. CASE SyncFetch
  BY <1>2, ImportedAfterFetch
<1>3. CASE SyncClean
  <2>1. Stored' = Stored
    BY <1>3, CleanIs DEF Stored
  <2>2. QED
    BY <1>3, <2>1, CleanIs, ImportedUnmoved
<1>4. CASE SyncFails \/ SignUp \/ Other \/ UNCHANGED vars
  <2>1. UNCHANGED <<source, info>> /\ (sync' = Idle \/ UNCHANGED sync)
    BY <1>4 DEF SyncFails, SignUp, Other, vars, tables
  <2>2. Stored' = Stored
    BY <2>1 DEF Stored
  <2>3. QED
    BY <1>0, <2>1, <2>2, ImportedUnmoved
<1>5. CASE SyncInfo
  BY <1>5, ImportedAfterInfo
<1>6. ASSUME NEW i \in Invoices, Arrive(i) PROVE Imported'
  BY <1>6, ImportedAfterArrive
<1>7. QED
  BY <1>1, <1>2, <1>3, <1>4, <1>5, <1>6 DEF Next, Sync

LEMMA ImportedInitially == Init => Imported
  BY DEF Init, Imported, NothingSkipped

(* No invoice that came in time is skipped for good: a run begins at the   *)
(* newest invoice that is stored, may stop between its two tables, and     *)
(* still whatever is older than a stored invoice is stored, or another     *)
(* with its number is.                                                     *)
THEOREM SkipsNothing == Spec => []NothingSkipped
<1>1. Imported => NothingSkipped
  BY DEF Imported
<1>2. Init => Types /\ Imported
  BY TypesInitially, ImportedInitially
<1>3. Types /\ Imported /\ [Next]_vars => (Types /\ Imported)'
  BY TypesKept, ImportedKept
<1>4. QED
  BY <1>1, <1>2, <1>3, PTL DEF Spec
-----------------------------------------------------------------------------
(* What is marked as claimed.                                              *)

Stepping(w) == \/ Step(w) \/ SaveFails(w) \/ WalletFails(w) \/ UndoFails(w)
               \/ Die(w) \/ Claim(w) \/ Assign(w)

(* One of its own steps leaves a request in flight the only one.           *)
LEMMA OnlyOne ==
    ASSUME Types, Counting, ~overlap, NEW w \in Workers, req[w] # Idle
    PROVE  \A v \in Workers \ {w} : req[v] = Idle
  BY DEF Counting, Alone, OneBusy

(* The rows a request still has to pay were not claimed when it read them. *)
Held == \A w \in Workers : req[w] \in Nexts \cup Pays =>
           \A i \in DOMAIN req[w].rows : ~req[w].rows[i].claimed

LEMMA HeldAfterMove ==
    ASSUME Types, Held, NEW w \in Workers, NEW h, req' = [req EXCEPT ![w] = h],
           h \in Nexts \cup Pays => \A i \in DOMAIN h.rows : ~h.rows[i].claimed
    PROVE  Held'
<1>1. req'[w] = h /\ \A v \in Workers \ {w} : req'[v] = req[v]
  BY DEF Types
<1>2. QED
  BY <1>1 DEF Held

LEMMA HeldAfterLeaving ==
    ASSUME Types, Held, NEW w \in Workers, req[w] \in Nexts \cup Pays,
           NEW i, NEW balance, NEW total, NEW h \in Handlers \ Pays,
           req' = [req EXCEPT ![w] = h], LeftTo(h, req[w], i, balance, total)
    PROVE  Held'
<1>1. Answers \cap Nexts = {} /\ Idle \notin Nexts
  BY IdleIs DEF Answers, Nexts
<1>2. h \in Nexts => \A j \in DOMAIN h.rows : ~h.rows[j].claimed
  BY <1>1 DEF Held, LeftTo
<1>3. QED
  BY <1>2, HeldAfterMove

LEMMA HeldAfterPaying ==
    ASSUME Types, Held, NEW w \in Workers, req[w] \in Nexts \cup Pays, NEW h \in Pays,
           req' = [req EXCEPT ![w] = h], h.rows = req[w].rows
    PROVE  Held'
<1>1. \A i \in DOMAIN h.rows : ~h.rows[i].claimed
  BY DEF Held
<1>2. QED
  BY <1>1, HeldAfterMove

LEMMA HeldKept == Types /\ Held /\ [Next]_vars => Held'
<1> SUFFICES ASSUME Types, Held, [Next]_vars PROVE Held'
  OBVIOUS
<1>1. ASSUME NEW w \in Workers, NEW i \in Invoices, Skips(w, i) PROVE Held'
  BY <1>1, SkipsIs, HeldAfterLeaving
<1>2. ASSUME NEW w \in Workers, NEW i \in Invoices, Pay(w, i) PROVE Held'
  BY <1>2, PayIs, HeldAfterPaying
<1>3. ASSUME NEW w \in Workers, Insert(w) PROVE Held'
  BY <1>3, InsertIs, HeldAfterPaying DEF SamePayment
<1>4. ASSUME NEW w \in Workers, SaveWallet(w) PROVE Held'
  BY <1>4, SaveWalletIs, HeldAfterPaying DEF SamePayment
<1>5. ASSUME NEW w \in Workers, SaveRow(w) PROVE Held'
  BY <1>5, SaveRowIs, HeldAfterLeaving
<1>6. ASSUME NEW w \in Workers, SaveFails(w) PROVE Held'
  BY <1>6, SaveFailsIs, HeldAfterLeaving
<1>7. ASSUME NEW w \in Workers, WalletFails(w) PROVE Held'
  BY <1>7, WalletFailsIs, HeldAfterLeaving, HeldAfterPaying DEF SamePayment
<1>8. ASSUME NEW w \in Workers, Undo(w) \/ UndoFails(w) PROVE Held'
  BY <1>8, UndoIs, HeldAfterLeaving
<1>9. ASSUME NEW w \in Workers, Answer(w) \/ Die(w) PROVE Held'
  BY <1>9, AnswerIs, DieIs, HeldAfterMove, IdleIs
<1>10. ASSUME NEW w \in Workers, Claim(w) \/ Assign(w) PROVE Held'
  <2>1. PICK h \in Nexts : /\ req' = [req EXCEPT ![w] = h]
                           /\ DOMAIN h.rows \subseteq Unclaimed
                           /\ \A i \in DOMAIN h.rows : h.rows[i] = info[i]
    BY <1>10, BeginIs
  <2>2. \A i \in DOMAIN h.rows : ~h.rows[i].claimed
    BY <2>1 DEF Unclaimed
  <2>3. QED
    BY <2>1, <2>2, HeldAfterMove
<1>11. CASE UNCHANGED req
  BY <1>11 DEF Held
<1>12. Aside \/ SyncInfo \/ UNCHANGED vars => UNCHANGED req
  BY AsideIs, InfoIs DEF vars
<1>13. \A i \in Invoices : Arrive(i) => UNCHANGED req
  BY ArriveIs
<1>14. QED
  BY <1>1, <1>2, <1>3, <1>4, <1>5, <1>6, <1>7, <1>8, <1>9, <1>10, <1>11, <1>12,
     <1>13 DEF Next, Step, Skips, Sync, Aside

(* Of a number that was not paid, only what Qitaf paid is marked, up to    *)
(* the row of the payment that is under way.                               *)
Marked == \A i \in Stored :
             info[i].claimed => Payments(NumberOf[i]) > 0 \/ NumberOf[i] \in PaidByQitaf

Unmarked(q) == q.pc \in {"insert", "wallet", "undo"} =>
                  \A i \in Stored : NumberOf[i] = NumberOf[q.cur] /\ info[i].claimed
                                       => NumberOf[i] \in PaidByQitaf

Settled == ~overlap => Marked /\ \A w \in Workers : Unmarked(req[w])

LEMMA NotPayingUnmarked ==
    ASSUME NEW h \in Handlers \ Pays
    PROVE  Unmarked(h) /\ Unmarked(h)'
  BY DEF Handlers, Nexts, Answers, Idle, Unmarked

(* A step of the only request.                                             *)
LEMMA SettledAfterMove ==
    ASSUME Types, Counting, Settled, NEW w \in Workers, NEW h,
           req[w] # Idle, UNCHANGED overlap, req' = [req EXCEPT ![w] = h],
           ~overlap => Marked' /\ Unmarked(h)'
    PROVE  Settled'
<1> SUFFICES ASSUME ~overlap PROVE Marked' /\ \A v \in Workers : Unmarked(req[v])'
  BY DEF Settled
<1>1. req'[w] = h /\ \A v \in Workers \ {w} : req'[v] = Idle
  BY OnlyOne DEF Types
<1>2. Unmarked(Idle)'
  BY NotPayingUnmarked, IdleIs
<1>3. QED
  BY <1>1, <1>2 DEF Unmarked

LEMMA MarkedUnmoved ==
    ASSUME Settled, ~overlap, UNCHANGED <<info, tx>>
    PROVE  Marked' /\ \A q : Unmarked(q) => Unmarked(q)'
  BY DEF Settled, Marked, Unmarked, Stored, Payments

(* A row is marked once its number was paid.                               *)
LEMMA MarkedAfterRow ==
    ASSUME Types, Settled, ~overlap, UNCHANGED tx, NEW i \in Stored, NEW row \in Rows,
           info' = [info EXCEPT ![i] = row],
           row.claimed => Payments(NumberOf[i]) > 0 \/ NumberOf[i] \in PaidByQitaf
    PROVE  Marked'
<1>1. /\ Stored' = Stored /\ info'[i] = row
      /\ \A j \in Invoices \ {i} : info'[j] = info[j]
  BY SameStored
<1>2. \A n : Payments(n)' = Payments(n)
  BY DEF Payments
<1>3. Stored \subseteq Invoices
  BY DEF Stored
<1>4. QED
  BY <1>1, <1>2, <1>3 DEF Settled, Marked

LEMMA SettledAfterStep ==
    ASSUME Types, Counting, Held, Settled, NEW w \in Workers, Stepping(w),
           ~(Claim(w) \/ Assign(w))
    PROVE  Settled'
<1>1. ASSUME NEW i \in Invoices, Skips(w, i) PROVE Settled'
  <2>1. /\ req[w] \in Nexts /\ i \in DOMAIN req[w].rows /\ UNCHANGED <<tx, overlap>>
    BY <1>1, SkipsIs DEF history
  <2>2. PICK h \in Handlers \ Pays : req' = [req EXCEPT ![w] = h]
    BY <1>1, SkipsIs
  <2>3. PICK row \in Rows :
           /\ info' = [info EXCEPT ![i] = row]
           /\ \/ row.claimed /\ (AlreadyPaid(i) \/ NumberOf[i] \in PaidByQitaf)
              \/ row.claimed = req[w].rows[i].claimed
    BY <1>1, SkipsIs
  <2>4. i \in Stored /\ ~req[w].rows[i].claimed /\ req[w] # Idle
    BY <2>1, ByPc, IdleIs DEF Held
  <2>5. row.claimed => Payments(NumberOf[i]) > 0 \/ NumberOf[i] \in PaidByQitaf
    BY <2>3, <2>4 DEF AlreadyPaid
  <2>6. ~overlap => Marked' /\ Unmarked(h)'
    BY <2>1, <2>3, <2>4, <2>5, MarkedAfterRow, NotPayingUnmarked
  <2>7. QED
    BY <2>1, <2>2, <2>4, <2>6, SettledAfterMove
<1>2. ASSUME NEW i \in Invoices, Pay(w, i) PROVE Settled'
  <2>1. PICK h \in Pays : req' = [req EXCEPT ![w] = h] /\ h.pc = "insert" /\ h.cur = i
    BY <1>2, PayIs
  <2>2. /\ req[w] # Idle /\ ~AlreadyPaid(i) /\ UNCHANGED <<info, tx, overlap>>
    BY <1>2, PayIs, IdleIs DEF tables, history
  <2>3. ASSUME ~overlap PROVE Marked' /\ Unmarked(h)'
    <3>1. Payments(NumberOf[i]) \in Nat
      BY PaymentsAreNat DEF Counting
    <3>2. Unmarked(h)
      BY <2>1, <2>2, <2>3, <3>1 DEF Unmarked, Settled, Marked, AlreadyPaid
    <3>3. QED
      BY <2>2, <2>3, <3>2, MarkedUnmoved
  <2>4. QED
    BY <2>1, <2>2, <2>3, SettledAfterMove
<1>3. CASE Insert(w)
  <2>1. PICK h \in Pays : /\ req' = [req EXCEPT ![w] = h] /\ h.pc = "wallet"
                          /\ h.cur = req[w].cur
    BY <1>3, InsertIs DEF SamePayment
  <2>2. PICK i \in Invoices : i = req[w].cur
    BY <1>3, InsertIs DEF Pays
  <2>3. /\ req[w] # Idle /\ req[w].pc = "insert" /\ tx' = [tx EXCEPT ![i] = @ + 1]
        /\ UNCHANGED <<info, overlap>>
    BY <1>3, <2>2, InsertIs, IdleIs DEF history
  <2>4. \A n : Payments(n) \in Nat
    BY PaymentsAreNat DEF Counting
  <2>5. ASSUME NEW n PROVE Payments(n) > 0 => Payments(n)' > 0
    <3>1. 1 \in Int
      OBVIOUS
    <3>2. Payments(n)' = Payments(n) + IF NumberOf[i] = n THEN 1 ELSE 0
      BY <2>3, <3>1, PaymentsChange, Zenon
    <3>3. QED
      BY <2>4, <3>2
  <2>6. Stored' = Stored
    BY <2>3 DEF Stored
  <2>7. ASSUME ~overlap PROVE Marked' /\ Unmarked(h)'
    <3>1. Marked'
      BY <2>3, <2>5, <2>6, <2>7 DEF Settled, Marked
    <3>2. Unmarked(req[w])
      BY <2>7 DEF Settled
    <3>3. Unmarked(h)'
      BY <2>1, <2>3, <2>6, <3>2 DEF Unmarked
    <3>4. QED
      BY <3>1, <3>3
  <2>8. QED
    BY <2>1, <2>3, <2>7, SettledAfterMove
<1>4. CASE SaveWallet(w)
  <2>1. PICK h : req' = [req EXCEPT ![w] = h] /\ h.pc = "row"
    BY <1>4, SaveWalletIs
  <2>2. req[w] # Idle /\ UNCHANGED <<info, tx, overlap>>
    BY <1>4, SaveWalletIs, IdleIs DEF history
  <2>3. Unmarked(h)'
    BY <2>1 DEF Unmarked
  <2>4. QED
    BY <2>1, <2>2, <2>3, MarkedUnmoved, SettledAfterMove
<1>5. CASE SaveRow(w)
  <2>1. PICK h \in Handlers \ Pays : req' = [req EXCEPT ![w] = h]
    BY <1>5, SaveRowIs
  <2>2. PICK i \in Invoices : i = req[w].cur
    BY <1>5, SaveRowIs DEF Pays
  <2>3. PICK row \in Rows : info' = [info EXCEPT ![i] = row]
    BY <1>5, <2>2, SaveRowIs
  <2>4. /\ req[w] # Idle /\ req[w].pc = "row" /\ i \in Stored
        /\ UNCHANGED <<tx, overlap>>
    BY <1>5, <2>2, SaveRowIs, ByPc, IdleIs DEF history, HandlerOK
  <2>5. Payments(NumberOf[i]) > 0
    <3>1. w \in Holding(i)
      BY <2>2, <2>4 DEF Holding, InTx
    <3>2. Cardinality(Holding(i)) # 0
      BY <3>1, SetsAreFinite, FS_EmptySet
    <3>3. tx[i] > 0
      BY <3>2, SetsAreFinite DEF Counting, Backed, Types
    <3>4. QED
      BY <3>3, PaidIsPaid DEF Counting
  <2>6. ~overlap => Marked' /\ Unmarked(h)'
    BY <2>3, <2>4, <2>5, MarkedAfterRow, NotPayingUnmarked
  <2>7. QED
    BY <2>1, <2>4, <2>6, SettledAfterMove
<1>6. CASE SaveFails(w) \/ Answer(w) \/ Die(w)
  <2>1. PICK h \in Handlers \ Pays : req' = [req EXCEPT ![w] = h]
    BY <1>6, SaveFailsIs, AnswerIs, DieIs, IdleIs
  <2>2. req[w] # Idle /\ UNCHANGED <<info, tx, overlap>>
    BY <1>6, SaveFailsIs, AnswerIs, DieIs, IdleIs DEF tables
  <2>3. QED
    BY <2>1, <2>2, MarkedUnmoved, NotPayingUnmarked, SettledAfterMove
<1>7. CASE WalletFails(w)
  <2>1. PICK h : /\ req' = [req EXCEPT ![w] = h]
                 /\ \/ h \in Handlers \ Pays
                    \/ h.pc = "undo" /\ h.cur = req[w].cur
    BY <1>7, WalletFailsIs DEF SamePayment
  <2>2. req[w] # Idle /\ req[w].pc = "wallet" /\ UNCHANGED <<info, tx, overlap>>
    BY <1>7, WalletFailsIs, IdleIs DEF tables
  <2>3. ASSUME ~overlap PROVE Unmarked(h)
    BY <2>1, <2>2, <2>3, NotPayingUnmarked DEF Settled, Unmarked
  <2>4. QED
    BY <2>1, <2>2, <2>3, MarkedUnmoved, SettledAfterMove
<1>8. CASE Undo(w) \/ UndoFails(w)
  <2>1. PICK h \in Handlers \ Pays : req' = [req EXCEPT ![w] = h]
    BY <1>8, UndoIs
  <2>2. PICK i \in Invoices : i = req[w].cur
    BY <1>8, UndoIs DEF Pays
  <2>3. /\ req[w] # Idle /\ req[w].pc = "undo"
        /\ tx' = tx \/ tx' = [tx EXCEPT ![i] = @ - 1]
        /\ UNCHANGED <<info, overlap>>
    BY <1>8, <2>2, UndoIs, IdleIs DEF history
  <2>4. CASE tx' = tx
    BY <2>1, <2>3, <2>4, MarkedUnmoved, NotPayingUnmarked, SettledAfterMove
  <2>5. CASE tx' = [tx EXCEPT ![i] = @ - 1]
    <3>1. tx' = [tx EXCEPT ![i] = @ + (-1)]
      BY <2>5 DEF Types
    <3>2. ASSUME NEW n, n # NumberOf[i] PROVE Payments(n)' = Payments(n)
      <4>1. -1 \in Int
        OBVIOUS
      <4>2. Payments(n)' = Payments(n) + IF NumberOf[i] = n THEN -1 ELSE 0
        BY <3>1, <4>1, PaymentsChange, Zenon
      <4>3. Payments(n) \in Nat
        BY PaymentsAreNat DEF Counting
      <4>4. QED
        BY <3>2, <4>2, <4>3
    <3>3. ASSUME ~overlap PROVE Marked'
      <4>1. Stored' = Stored
        BY <2>3 DEF Stored
      <4>2. Marked /\ Unmarked(req[w])
        BY <3>3 DEF Settled
      <4>3. QED
        BY <2>2, <2>3, <3>2, <4>1, <4>2 DEF Marked, Unmarked
    <3>4. QED
      BY <2>1, <2>3, <3>3, NotPayingUnmarked, SettledAfterMove
  <2>6. QED
    BY <2>3, <2>4, <2>5
<1>9. QED
  BY <1>1, <1>2, <1>3, <1>4, <1>5, <1>6, <1>7, <1>8 DEF Stepping, Step, Skips

LEMMA OverlapStays ==
    ASSUME Types, Aside, ~overlap'
    PROVE  ~overlap
<1>1. CASE overlap' = overlap
  BY <1>1
<1>2. CASE overlap' = (overlap \/ Busy)
  BY <1>2
<1>3. QED
  BY <1>1, <1>2, AsideIs

LEMMA SettledKept == Types /\ Counting /\ Held /\ Settled /\ [Next]_vars => Settled'
<1> SUFFICES ASSUME Types, Counting, Held, Settled, [Next]_vars PROVE Settled'
  OBVIOUS
<1>1. ASSUME NEW w \in Workers, Stepping(w) PROVE Settled'
  <2>1. CASE Claim(w) \/ Assign(w)
    <3>1. PICK h \in Nexts : req' = [req EXCEPT ![w] = h]
      BY <2>1, BeginIs
    <3>2. overlap' = (overlap \/ Busy) /\ UNCHANGED <<info, tx>>
      BY <2>1, BeginIs DEF tables
    <3>3. h \in Handlers \ Pays
      BY DEF Handlers, Nexts, Pays, Paying
    <3>4. \A v \in Workers : req'[v] = h \/ req'[v] = req[v]
      BY <3>1 DEF Types
    <3>5. ASSUME ~overlap' PROVE Marked' /\ \A v \in Workers : Unmarked(req[v])'
      <4>1. ~overlap
        BY <3>2, <3>5
      <4>2. Marked' /\ \A q : Unmarked(q) => Unmarked(q)'
        BY <3>2, <4>1, MarkedUnmoved
      <4>3. \A v \in Workers : Unmarked(req[v])
        BY <4>1 DEF Settled
      <4>4. ASSUME NEW v \in Workers PROVE Unmarked(req[v])'
        <5>1. Unmarked(h)'
          BY <3>3, NotPayingUnmarked
        <5>2. QED
          BY <3>2, <3>4, <4>3, <5>1 DEF Unmarked, Stored
      <4>5. QED
        BY <4>2, <4>4
    <3>6. QED
      BY <3>5 DEF Settled
  <2>2. QED
    BY <1>1, <2>1, SettledAfterStep
<1>2. CASE SyncInfo
  <2>1. /\ UNCHANGED <<tx, req, overlap>> /\ Stored' = Stored \cup sync.fresh
        /\ \A i \in sync.fresh : info'[i] = NewRow
        /\ \A i \in Invoices \ sync.fresh : info'[i] = info[i]
    BY <1>2, InfoIs DEF history
  <2>2. ~NewRow.claimed /\ Stored \subseteq Invoices
    BY DEF NewRow, Stored
  <2>3. \A i \in Stored' : info'[i].claimed => i \in Stored /\ info'[i] = info[i]
    BY <2>1, <2>2
  <2>4. \A n : Payments(n)' = Payments(n)
    BY <2>1 DEF Payments
  <2>5. QED
    BY <2>1, <2>3, <2>4 DEF Settled, Marked, Unmarked
<1>3. ASSUME UNCHANGED <<info, tx, req>>, ~overlap' => ~overlap PROVE Settled'
  <2>1. Stored' = Stored /\ \A n : Payments(n)' = Payments(n)
    BY <1>3 DEF Stored, Payments
  <2>2. QED
    BY <1>3, <2>1 DEF Settled, Marked, Unmarked
<1>4. CASE Aside \/ UNCHANGED vars
  BY <1>3, <1>4, AsideIs, OverlapStays DEF vars, tables, history
<1>5. ASSUME NEW i \in Invoices, Arrive(i) PROVE Settled'
  BY <1>3, <1>5, ArriveIs DEF tables, history
<1>6. QED
  BY <1>1, <1>2, <1>4, <1>5 DEF Next, Sync, Aside, Stepping

LEMMA SettledInitially == Init => Held /\ Settled
<1> SUFFICES ASSUME Init PROVE Held /\ Settled
  OBVIOUS
<1>1. \A w \in Workers : req[w] = Idle
  BY DEF Init
<1>2. Stored = {}
  BY DEF Init, Stored, Absent
<1>3. QED
  BY <1>1, <1>2, IdleIs DEF Held, Settled, Marked, Unmarked
-----------------------------------------------------------------------------
(* The books.                                                              *)

(* What a payment has inserted and not yet added to the balance, and what  *)
(* it will answer of it.                                                   *)
Unbooked(q) == IF q.pc \in {"wallet", "undo"} THEN PointsOf(q.cur) ELSE 0
Uncounted(q) == IF q.pc \in InTx THEN PointsOf(q.cur) ELSE 0

(* What a request has in memory of the balance: after a save that failed   *)
(* more than the balance, but never more than was earned.                  *)
BookOK(q) ==
    /\ wallet + Unbooked(q) <= others + Earned
    /\ told + q.total + Uncounted(q) <= Earned
    /\ q \notin Answers => q.wallet + Unbooked(q) <= others + Earned
    /\ failures = 0 => /\ wallet + Unbooked(q) = others + Earned
                       /\ q \notin Answers => q.wallet = wallet

Explained == /\ wallet <= others + Earned /\ told <= Earned
             /\ failures = 0 => wallet = others + Earned

Books == ~overlap => /\ ~Busy => Explained
                     /\ \A w \in Workers : req[w] # Idle => BookOK(req[w])

LEMMA EarnedIsInt ==
    ASSUME Types
    PROVE  Earned \in Int
<1> DEFINE f == [i \in Invoices |-> tx[i] * PointsOf(i)]
<1>1. \A i \in Invoices : f[i] \in Int
  BY PointsAreNat DEF Types
<1> HIDE DEF f
<1>2. SumFunctionOnSet(f, Invoices) \in Int
  BY <1>1, SumIsInt, InvoicesAssumption
<1>3. QED
  BY <1>2 DEF Earned, f

(* A transaction is worth the points of its invoice.                       *)
LEMMA EarnedChanges ==
    ASSUME Types, NEW i \in Invoices, NEW d \in {-1, 1}, tx' = [tx EXCEPT ![i] = @ + d]
    PROVE  Earned' = Earned + d * PointsOf(i)
<1> DEFINE f == [j \in Invoices |-> tx[j] * PointsOf(j)]
           g == [j \in Invoices |-> tx'[j] * PointsOf(j)]
<1>1. /\ \A j \in Invoices : tx[j] \in Int /\ tx'[j] \in Int /\ PointsOf(j) \in Int
      /\ tx'[i] = tx[i] + d
      /\ \A j \in Invoices \ {i} : tx'[j] = tx[j]
  BY PointsAreNat DEF Types
<1>2. \A j \in Invoices : f[j] \in Int /\ g[j] \in Int
  BY <1>1
<1>3. g[i] = f[i] + d * PointsOf(i)
  <2>1. PICK a, p \in Int : a = tx[i] /\ p = PointsOf(i)
    BY <1>1
  <2>2. (a + d) * p = a * p + d * p
    BY <2>1
  <2>3. QED
    BY <1>1, <2>1, <2>2
<1>4. \A j \in Invoices \ {i} : g[j] = f[j]
  BY <1>1
<1>5. Earned = SumFunctionOnSet(f, Invoices) /\ Earned' = SumFunctionOnSet(g, Invoices)
  BY DEF Earned
<1> HIDE DEF f, g
<1>6. SumFunctionOnSet(g, Invoices) = SumFunctionOnSet(f, Invoices) - f[i] + g[i]
  BY <1>2, <1>4, SumChanged, InvoicesAssumption
<1>7. QED
  <2>1. /\ Earned \in Int /\ f[i] \in Int /\ g[i] \in Int
        /\ d * PointsOf(i) \in Int
    BY <1>1, <1>2, EarnedIsInt
  <2>2. QED
    BY <1>3, <1>5, <1>6, <2>1

LEMMA EarnedStays == UNCHANGED tx => Earned' = Earned
<1> SUFFICES ASSUME UNCHANGED tx PROVE Earned' = Earned
  OBVIOUS
<1>1. [i \in Invoices |-> tx[i] * PointsOf(i)]' = [i \in Invoices |-> tx[i] * PointsOf(i)]
  OBVIOUS
<1>2. QED
  BY <1>1 DEF Earned

(* Of a request in flight, with the numbers typed.                         *)
LEMMA BookFacts ==
    ASSUME Types, Counting, Books, ~overlap, NEW w \in Workers, req[w] # Idle
    PROVE  /\ BookOK(req[w])
           /\ \A v \in Workers \ {w} : req[v] = Idle
           /\ wallet \in Int /\ others \in Int /\ told \in Int /\ failures \in Nat
           /\ Earned \in Int /\ Unbooked(req[w]) \in Nat /\ Uncounted(req[w]) \in Nat
           /\ req[w].total \in Nat
           /\ req[w] \notin Answers => req[w].wallet \in Int
<1>1. req[w] \in Nexts \cup Pays \cup Answers
  BY ByPc DEF Handlers
<1>2. req[w].total \in Nat /\ (req[w] \notin Answers => req[w].wallet \in Int)
  BY <1>1 DEF Nexts, Pays, Answers
<1>3. Unbooked(req[w]) \in Nat /\ Uncounted(req[w]) \in Nat
  <2>1. req[w].pc \in InTx => PointsOf(req[w].cur) \in Nat
    BY ByPc, PointsAreNat DEF InTx, Paying, Pays
  <2>2. QED
    BY <2>1 DEF Unbooked, Uncounted, InTx
<1>4. QED
  BY <1>2, <1>3, EarnedIsInt, OnlyOne DEF Books, Types

(* It suffices to explain the books of the only request, or that nothing   *)
(* is left open when it ends.                                              *)
LEMMA BooksAfterMove ==
    ASSUME Types, Counting, NEW w \in Workers, NEW h, req[w] # Idle,
           UNCHANGED overlap, req' = [req EXCEPT ![w] = h],
           ~overlap => IF h = Idle THEN Explained' ELSE BookOK(h)'
    PROVE  Books'
<1> SUFFICES ASSUME ~overlap'
             PROVE  /\ ~Busy' => Explained'
                    /\ \A v \in Workers : req'[v] # Idle => BookOK(req[v])'
  BY DEF Books
<1>1. req'[w] = h /\ \A v \in Workers \ {w} : req'[v] = Idle
  BY OnlyOne DEF Types
<1>2. CASE h = Idle
  <2>1. Explained' /\ \A v \in Workers : req'[v] = Idle
    BY <1>1, <1>2
  <2>2. QED
    BY <2>1
<1>3. CASE h # Idle
  <2>1. BookOK(h)' /\ Busy'
    BY <1>1, <1>3 DEF Busy
  <2>2. BookOK(req[w])'
    BY <1>1, <2>1 DEF BookOK, Unbooked, Uncounted
  <2>3. QED
    BY <1>1, <2>1, <2>2
<1>4. QED
  BY <1>2, <1>3

(* What it takes to leave an invoice.                                      *)
LEMMA BooksAfterLeaving ==
    ASSUME Types, Counting, Books, NEW w \in Workers, req[w] # Idle,
           UNCHANGED <<overlap, wallet, others, told>>,
           NEW h \in Handlers \ Pays, req' = [req EXCEPT ![w] = h],
           NEW i, NEW balance \in Int, NEW total \in Nat,
           LeftTo(h, req[w], i, balance, total), Earned' \in Int,
           ~overlap => /\ wallet <= others + Earned' /\ balance <= others + Earned'
                       /\ told + total <= Earned'
                       /\ failures' = 0 => wallet = others + Earned' /\ balance = wallet
    PROVE  Books'
<1>1. ASSUME ~overlap PROVE IF h = Idle THEN Explained' ELSE BookOK(h)'
  <2>1. PICK a, b, c, e \in Int : a = wallet /\ b = others /\ c = told /\ e = Earned'
    BY DEF Types
  <2>2. wallet' = a /\ others' = b /\ told' = c /\ Earned' = e
    BY <2>1
  <2>3. /\ a <= b + e /\ balance <= b + e /\ c + total <= e
        /\ failures' = 0 => a = b + e /\ balance = a
    BY <1>1, <2>1
  <2>4. CASE h = Idle
    <3>1. c <= e
      BY <2>1, <2>3
    <3>2. Explained'
      BY <2>2, <2>3, <3>1 DEF Explained
    <3>3. QED
      BY <2>4, <3>2
  <2>5. ASSUME h # Idle, h \notin Answers => h.wallet = balance, h.total = total,
               Unbooked(h)' = 0, Uncounted(h)' = 0
        PROVE  BookOK(h)'
    <3>1. a + 0 <= b + e /\ c + total + 0 <= e /\ balance + 0 <= b + e
      BY <2>3
    <3>2. failures' = 0 => a + 0 = b + e /\ balance = a
      BY <2>3
    <3>3. QED
      BY <2>2, <2>5, <3>1, <3>2, Zenon DEF BookOK
  <2>6. CASE h \in Answers /\ h.total = total
    <3>1. h # Idle /\ Unbooked(h)' = 0 /\ Uncounted(h)' = 0
      BY <2>6, IdleIs DEF Unbooked, Uncounted, InTx, Answers
    <3>2. QED
      BY <2>5, <2>6, <3>1
  <2>7. CASE h \in Nexts /\ h.wallet = balance /\ h.total = total
    <3>1. h # Idle /\ Unbooked(h)' = 0 /\ Uncounted(h)' = 0
      BY <2>7, IdleIs DEF Unbooked, Uncounted, InTx, Nexts
    <3>2. QED
      BY <2>5, <2>7, <3>1
  <2>8. QED
    BY <2>4, <2>6, <2>7 DEF LeftTo
<1>2. QED
  BY <1>1, BooksAfterMove

LEMMA BooksAfterStep ==
    ASSUME Types, Counting, Books, NEW w \in Workers, Stepping(w),
           ~(Claim(w) \/ Assign(w))
    PROVE  Books'
<1>0. Earned \in Int /\ Types'
  <2>1. Types'
    BY TypesAfterStep DEF Stepping
  <2>2. QED
    BY <2>1, EarnedIsInt
<1>1. ASSUME NEW i \in Invoices, Skips(w, i) PROVE Books'
  <2>1. PICK h \in Handlers \ Pays :
           /\ req' = [req EXCEPT ![w] = h]
           /\ LeftTo(h, req[w], i, req[w].wallet, req[w].total)
    BY <1>1, SkipsIs
  <2>2. /\ req[w] \in Nexts /\ req[w] # Idle /\ req[w] \notin Answers
        /\ UNCHANGED <<tx, wallet, others, told, failures, overlap>>
    BY <1>1, SkipsIs, IdleIs DEF history, Nexts, Answers
  <2>3. req[w].wallet \in Int /\ req[w].total \in Nat /\ Earned' = Earned
    BY <2>2, EarnedStays DEF Nexts
  <2>4. Unbooked(req[w]) = 0 /\ Uncounted(req[w]) = 0
    BY <2>2 DEF Nexts, Unbooked, Uncounted, InTx
  <2>5. ASSUME ~overlap
        PROVE  /\ wallet <= others + Earned /\ req[w].wallet <= others + Earned
               /\ told + req[w].total <= Earned
               /\ failures = 0 => wallet = others + Earned /\ req[w].wallet = wallet
    BY <2>2, <2>4, <2>5, BookFacts DEF BookOK
  <2>6. QED
    BY <1>0, <2>1, <2>2, <2>3, <2>5, BooksAfterLeaving
<1>2. ASSUME NEW i \in Invoices, Pay(w, i) PROVE Books'
  <2>1. PICK h \in Pays : /\ req' = [req EXCEPT ![w] = h] /\ h.pc = "insert"
                          /\ h.wallet = req[w].wallet /\ h.total = req[w].total
    BY <1>2, PayIs
  <2>2. /\ req[w] \in Nexts /\ req[w] # Idle /\ req[w] \notin Answers
        /\ UNCHANGED <<tx, wallet, others, told, failures, overlap>>
    BY <1>2, PayIs, IdleIs DEF tables, history, Nexts, Answers
  <2>3. Earned' = Earned /\ h \notin Answers /\ h # Idle
    BY <2>1, <2>2, EarnedStays, IdleIs DEF Answers
  <2>4. /\ Unbooked(req[w]) = 0 /\ Uncounted(req[w]) = 0
        /\ Unbooked(h)' = 0 /\ Uncounted(h)' = 0
    BY <2>1, <2>2 DEF Nexts, Unbooked, Uncounted, InTx
  <2>5. ASSUME ~overlap PROVE BookOK(h)'
    <3>1. BookOK(req[w])
      BY <2>2, <2>5, BookFacts
    <3>2. QED
      BY <2>1, <2>2, <2>3, <2>4, <3>1 DEF BookOK
  <2>6. QED
    BY <2>1, <2>2, <2>3, <2>5, BooksAfterMove
<1>3. CASE Insert(w)
  <2>1. PICK h \in Pays : /\ req' = [req EXCEPT ![w] = h] /\ h.pc = "wallet"
                          /\ SamePayment(h, req[w]) /\ h.wallet = req[w].wallet
    BY <1>3, InsertIs
  <2>2. PICK i \in Invoices : i = req[w].cur
    BY <1>3, InsertIs DEF Pays
  <2>3. /\ req[w] \in Pays /\ req[w].pc = "insert" /\ req[w] # Idle
        /\ req[w] \notin Answers
        /\ tx' = [tx EXCEPT ![i] = @ + 1]
        /\ UNCHANGED <<wallet, others, told, failures, overlap>>
    BY <1>3, <2>2, InsertIs, IdleIs DEF history, Answers
  <2>4. h \notin Answers /\ h # Idle
    BY <2>1, IdleIs DEF Answers
  <2>5. Earned' = Earned + PointsOf(i) /\ PointsOf(i) \in Nat
    <3>1. Earned' = Earned + 1 * PointsOf(i)
      BY <2>3, EarnedChanges
    <3>2. QED
      BY <3>1, PointsAreNat
  <2>6. /\ Unbooked(req[w]) = 0 /\ Uncounted(req[w]) = 0
        /\ Unbooked(h)' = PointsOf(i) /\ Uncounted(h)' = PointsOf(i)
    BY <2>1, <2>2, <2>3 DEF Unbooked, Uncounted, InTx, SamePayment
  <2>7. ASSUME ~overlap PROVE BookOK(h)'
    <3>1. /\ BookOK(req[w]) /\ req[w].wallet \in Int /\ req[w].total \in Nat
          /\ wallet \in Int /\ others \in Int /\ told \in Int
      BY <2>3, <2>7, BookFacts
    <3>2. h.total = req[w].total
      BY <2>1 DEF SamePayment
    <3>3. QED
      BY <1>0, <2>1, <2>3, <2>4, <2>5, <2>6, <3>1, <3>2 DEF BookOK
  <2>8. QED
    BY <2>1, <2>3, <2>4, <2>7, BooksAfterMove
<1>4. CASE SaveWallet(w)
  <2>1. PICK h \in Pays : /\ req' = [req EXCEPT ![w] = h] /\ h.pc = "row"
                          /\ SamePayment(h, req[w]) /\ h.wallet = Raised(req[w])
    BY <1>4, SaveWalletIs
  <2>2. PICK i \in Invoices : i = req[w].cur
    BY <1>4, SaveWalletIs DEF Pays
  <2>3. /\ req[w] \in Pays /\ req[w].pc = "wallet" /\ req[w] # Idle
        /\ req[w] \notin Answers /\ wallet' = Raised(req[w])
        /\ UNCHANGED <<tx, others, told, failures, overlap>>
    BY <1>4, SaveWalletIs, IdleIs DEF history, Answers
  <2>4. h \notin Answers /\ h # Idle /\ Earned' = Earned
    BY <2>1, <2>3, IdleIs, EarnedStays DEF Answers
  <2>5. /\ Unbooked(req[w]) = PointsOf(i) /\ Uncounted(req[w]) = PointsOf(i)
        /\ Unbooked(h)' = 0 /\ Uncounted(h)' = PointsOf(i)
        /\ Raised(req[w]) = req[w].wallet + PointsOf(i) /\ PointsOf(i) \in Nat
    BY <2>1, <2>2, <2>3, PointsAreNat DEF Unbooked, Uncounted, InTx, SamePayment, Raised
  <2>6. ASSUME ~overlap PROVE BookOK(h)'
    <3>1. /\ BookOK(req[w]) /\ req[w].wallet \in Int /\ req[w].total \in Nat
          /\ wallet \in Int /\ others \in Int /\ told \in Int
      BY <2>3, <2>6, BookFacts
    <3>2. h.total = req[w].total
      BY <2>1 DEF SamePayment
    <3>3. QED
      BY <1>0, <2>1, <2>3, <2>4, <2>5, <3>1, <3>2 DEF BookOK
  <2>7. QED
    BY <2>1, <2>3, <2>4, <2>6, BooksAfterMove
<1>5. CASE SaveRow(w) \/ SaveFails(w)
  <2>1. PICK h, total :
           /\ h \in Handlers \ Pays
           /\ req' = [req EXCEPT ![w] = h]
           /\ LeftTo(h, req[w], req[w].cur, req[w].wallet, total)
           /\ total = IF req[w].pc = "row" THEN Counted(req[w]) ELSE req[w].total
    <3>1. CASE SaveRow(w)
      BY <3>1, SaveRowIs
    <3>2. CASE SaveFails(w)
      BY <3>2, SaveFailsIs
    <3>3. QED
      BY <1>5, <3>1, <3>2
  <2>2. PICK i \in Invoices : i = req[w].cur
    BY <1>5, SaveRowIs, SaveFailsIs DEF Pays
  <2>3. /\ req[w] \in Pays /\ req[w].pc \in {"insert", "row"} /\ req[w] # Idle
        /\ req[w] \notin Answers /\ failures' \in {failures, failures + 1}
        /\ UNCHANGED <<tx, wallet, others, told, overlap>>
    BY <1>5, SaveRowIs, SaveFailsIs, IdleIs DEF tables, history, Answers
  <2>4. Earned' = Earned /\ req[w].wallet \in Int /\ req[w].total \in Nat
    BY <2>3, EarnedStays DEF Pays
  <2>5. /\ Unbooked(req[w]) = 0 /\ total \in Nat
        /\ total = req[w].total + Uncounted(req[w])
    BY <2>1, <2>2, <2>3, <2>4, PointsAreNat DEF Unbooked, Uncounted, InTx, Counted
  <2>6. ASSUME ~overlap
        PROVE  /\ wallet <= others + Earned /\ req[w].wallet <= others + Earned
               /\ told + total <= Earned
               /\ failures' = 0 => wallet = others + Earned /\ req[w].wallet = wallet
    <3>1. /\ BookOK(req[w]) /\ Uncounted(req[w]) \in Nat /\ failures \in Nat
          /\ wallet \in Int /\ others \in Int /\ told \in Int
      BY <2>3, <2>6, BookFacts
    <3>2. QED
      BY <1>0, <2>3, <2>4, <2>5, <3>1 DEF BookOK
  <2>7. QED
    BY <1>0, <2>1, <2>3, <2>4, <2>5, <2>6, BooksAfterLeaving
<1>6. CASE WalletFails(w)
  <2>1. PICK i \in Invoices : i = req[w].cur
    BY <1>6, WalletFailsIs DEF Pays
  <2>2. /\ req[w] \in Pays /\ req[w].pc = "wallet" /\ req[w] # Idle
        /\ req[w] \notin Answers /\ failures' = failures + 1
        /\ UNCHANGED <<tx, wallet, others, told, overlap>>
    BY <1>6, WalletFailsIs, IdleIs DEF tables, Answers
  <2>3. /\ Earned' = Earned /\ req[w].wallet \in Int /\ req[w].total \in Nat
        /\ failures' # 0
    BY <2>2, EarnedStays DEF Pays, Types
  <2>4. /\ Unbooked(req[w]) = PointsOf(i) /\ Uncounted(req[w]) = PointsOf(i)
        /\ Raised(req[w]) = req[w].wallet + PointsOf(i) /\ PointsOf(i) \in Nat
    BY <2>1, <2>2, PointsAreNat DEF Unbooked, Uncounted, InTx, Raised
  <2>5. ASSUME ~overlap
        PROVE  /\ BookOK(req[w])
               /\ wallet \in Int /\ others \in Int /\ told \in Int
    BY <2>2, <2>5, BookFacts
  <2>6. ASSUME NEW h \in Pays, req' = [req EXCEPT ![w] = h], h.pc = "undo",
               SamePayment(h, req[w]), h.wallet = req[w].wallet
        PROVE  Books'
    <3>1. h \notin Answers /\ h # Idle
      BY <2>6, IdleIs DEF Answers
    <3>2. /\ Unbooked(h)' = PointsOf(i) /\ Uncounted(h)' = PointsOf(i)
          /\ h.total = req[w].total
      BY <2>1, <2>6 DEF Unbooked, Uncounted, InTx, SamePayment
    <3>3. ASSUME ~overlap PROVE BookOK(h)'
      BY <1>0, <2>2, <2>3, <2>4, <2>5, <2>6, <3>1, <3>2, <3>3 DEF BookOK
    <3>4. QED
      BY <2>2, <2>6, <3>1, <3>3, BooksAfterMove
  <2>7. ASSUME NEW h \in Handlers \ Pays, req' = [req EXCEPT ![w] = h],
               LeftTo(h, req[w], req[w].cur, Raised(req[w]), req[w].total)
        PROVE  Books'
    <3>1. ASSUME ~overlap
          PROVE  /\ wallet <= others + Earned /\ Raised(req[w]) <= others + Earned
                 /\ told + req[w].total <= Earned
      BY <1>0, <2>2, <2>3, <2>4, <2>5, <3>1 DEF BookOK
    <3>2. Raised(req[w]) \in Int
      BY <2>3, <2>4
    <3>3. QED
      BY <1>0, <2>2, <2>3, <2>7, <3>1, <3>2, BooksAfterLeaving
  <2>8. QED
    BY <1>6, <2>6, <2>7, WalletFailsIs
<1>7. CASE Undo(w) \/ UndoFails(w)
  <2>1. PICK h \in Handlers \ Pays :
           /\ req' = [req EXCEPT ![w] = h]
           /\ LeftTo(h, req[w], req[w].cur, req[w].wallet, req[w].total)
    BY <1>7, UndoIs
  <2>2. PICK i \in Invoices : i = req[w].cur
    BY <1>7, UndoIs DEF Pays
  <2>3. /\ req[w] \in Pays /\ req[w].pc = "undo" /\ req[w] # Idle
        /\ req[w] \notin Answers /\ failures' # 0
        /\ tx' = tx \/ tx' = [tx EXCEPT ![i] = @ - 1]
        /\ UNCHANGED <<wallet, others, told, overlap>>
    BY <1>7, <2>2, UndoIs, IdleIs DEF history, Answers
  <2>4. /\ Unbooked(req[w]) = PointsOf(i) /\ Uncounted(req[w]) = PointsOf(i)
        /\ PointsOf(i) \in Nat /\ req[w].wallet \in Int /\ req[w].total \in Nat
    BY <2>2, <2>3, PointsAreNat DEF Unbooked, Uncounted, InTx, Pays
  <2>5. Earned' \in {Earned, Earned - PointsOf(i)} /\ Earned' \in Int
    <3>1. CASE tx' = tx
      BY <1>0, <3>1, EarnedStays
    <3>2. CASE tx' = [tx EXCEPT ![i] = @ - 1]
      <4>1. tx' = [tx EXCEPT ![i] = @ + (-1)] /\ -1 \in {-1, 1}
        BY <3>2 DEF Types
      <4>2. Earned' = Earned + (-1) * PointsOf(i)
        BY <4>1, EarnedChanges
      <4>3. QED
        BY <1>0, <2>4, <4>2
    <3>3. QED
      BY <2>3, <3>1, <3>2
  <2>6. ASSUME ~overlap
        PROVE  /\ wallet <= others + Earned' /\ req[w].wallet <= others + Earned'
               /\ told + req[w].total <= Earned'
    <3>1. /\ BookOK(req[w])
          /\ wallet \in Int /\ others \in Int /\ told \in Int
      BY <2>3, <2>6, BookFacts
    <3>2. /\ wallet + PointsOf(i) <= others + Earned
          /\ req[w].wallet + PointsOf(i) <= others + Earned
          /\ told + req[w].total + PointsOf(i) <= Earned
      BY <2>3, <2>4, <3>1 DEF BookOK
    <3>3. CASE Earned' = Earned
      BY <1>0, <2>4, <3>1, <3>2, <3>3
    <3>4. CASE Earned' = Earned - PointsOf(i)
      BY <1>0, <2>4, <3>1, <3>2, <3>4
    <3>5. QED
      BY <2>5, <3>3, <3>4
  <2>7. QED
    BY <2>1, <2>3, <2>4, <2>5, <2>6, BooksAfterLeaving
<1>8. CASE Answer(w)
  <2>1. /\ req[w] \in Answers /\ req[w] # Idle /\ told' = told + req[w].total
        /\ req' = [req EXCEPT ![w] = Idle]
        /\ UNCHANGED <<tx, wallet, others, failures, overlap>>
    BY <1>8, AnswerIs, IdleIs DEF tables
  <2>2. Earned' = Earned /\ Unbooked(req[w]) = 0 /\ Uncounted(req[w]) = 0
    BY <2>1, EarnedStays DEF Answers, Unbooked, Uncounted, InTx
  <2>3. ASSUME ~overlap PROVE Explained'
    <3>1. /\ BookOK(req[w]) /\ req[w].total \in Nat
          /\ wallet \in Int /\ others \in Int /\ told \in Int
      BY <2>1, <2>3, BookFacts
    <3>2. QED
      BY <1>0, <2>1, <2>2, <3>1 DEF BookOK, Explained
  <2>4. QED
    BY <2>1, <2>3, BooksAfterMove
<1>9. CASE Die(w)
  <2>1. /\ req[w] # Idle /\ failures' = failures + 1 /\ failures' # 0
        /\ req' = [req EXCEPT ![w] = Idle]
        /\ UNCHANGED <<tx, wallet, others, told, overlap>>
    BY <1>9, DieIs DEF tables, Types
  <2>2. Earned' = Earned
    BY <2>1, EarnedStays
  <2>3. ASSUME ~overlap PROVE Explained'
    <3>1. /\ BookOK(req[w]) /\ req[w].total \in Nat /\ Unbooked(req[w]) \in Nat
          /\ Uncounted(req[w]) \in Nat
          /\ wallet \in Int /\ others \in Int /\ told \in Int
      BY <2>1, <2>3, BookFacts
    <3>2. QED
      BY <1>0, <2>1, <2>2, <3>1 DEF BookOK, Explained
  <2>4. QED
    BY <2>1, <2>3, BooksAfterMove
<1>10. QED
  BY <1>1, <1>2, <1>3, <1>4, <1>5, <1>6, <1>7, <1>8, <1>9 DEF Stepping, Step, Skips

LEMMA BooksKept == Types /\ Counting /\ Books /\ [Next]_vars => Books'
<1> SUFFICES ASSUME Types, Counting, Books, [Next]_vars PROVE Books'
  OBVIOUS
<1>1. ASSUME NEW w \in Workers, Claim(w) \/ Assign(w) PROVE Books'
  <2>1. PICK h \in Nexts : req' = [req EXCEPT ![w] = h] /\ h.wallet = wallet /\ h.total = 0
    BY <1>1, BeginIs
  <2>2. /\ overlap' = (overlap \/ Busy)
        /\ UNCHANGED <<tx, wallet, others, told, failures>>
    BY <1>1, BeginIs DEF tables
  <2>3. ASSUME ~overlap'
        PROVE  /\ Busy' /\ \A v \in Workers : req'[v] # Idle => BookOK(req[v])'
    <3>1. Explained /\ \A v \in Workers : req[v] = Idle
      BY <2>2, <2>3 DEF Books, Busy
    <3>2. req'[w] = h /\ \A v \in Workers \ {w} : req'[v] = Idle
      BY <2>1, <3>1 DEF Types
    <3>3. /\ Earned' = Earned /\ Unbooked(h)' = 0 /\ Uncounted(h)' = 0
          /\ h # Idle /\ h \notin Answers
      BY <2>1, <2>2, EarnedStays, IdleIs DEF Unbooked, Uncounted, InTx, Nexts, Answers
    <3>4. BookOK(h)'
      <4>1. Earned \in Int /\ wallet \in Int /\ others \in Int /\ told \in Int
        BY EarnedIsInt DEF Types
      <4>2. QED
        BY <2>1, <2>2, <3>1, <3>3, <4>1 DEF Explained, BookOK
    <3>5. BookOK(req[w])'
      BY <3>2, <3>4 DEF BookOK, Unbooked, Uncounted
    <3>6. QED
      BY <3>2, <3>3, <3>5 DEF Busy
  <2>4. QED
    BY <2>3 DEF Books
<1>2. ASSUME UNCHANGED <<tx, req, wallet, others, told>>, ~overlap' => ~overlap,
             failures' \in {failures, failures + 1}
      PROVE  Books'
  <2>1. Earned' = Earned /\ failures \in Nat
    BY <1>2, EarnedStays DEF Types
  <2>2. Explained => Explained'
    BY <1>2, <2>1 DEF Explained
  <2>3. \A q : BookOK(q) => BookOK(q)'
    BY <1>2, <2>1 DEF BookOK, Unbooked, Uncounted
  <2>4. Busy' <=> Busy
    BY <1>2 DEF Busy
  <2>5. QED
    BY <1>2, <2>2, <2>3, <2>4 DEF Books, BookOK, Unbooked, Uncounted
<1>3. CASE Aside
  <2>1. CASE UNCHANGED <<wallet, others>>
    BY <1>2, <1>3, <2>1, AsideIs, OverlapStays
  <2>2. ASSUME overlap' = (overlap \/ Busy), failures' = failures,
               NEW d \in {-1, 1}, wallet' = wallet + d, others' = others + d
        PROVE  Books'
    <3>1. UNCHANGED <<tx, req, told>> /\ Earned' = Earned /\ Earned \in Int
      BY <1>3, AsideIs, EarnedStays, EarnedIsInt
    <3>2. wallet \in Int /\ others \in Int
      BY DEF Types
    <3>3. ASSUME ~overlap' PROVE Explained' /\ \A v \in Workers : req'[v] = Idle
      <4>1. Explained /\ \A v \in Workers : req[v] = Idle
        BY <2>2, <3>3 DEF Books, Busy
      <4>2. QED
        BY <2>2, <3>1, <3>2, <4>1 DEF Explained
    <3>4. QED
      BY <3>3 DEF Books
  <2>3. QED
    BY <1>3, <2>1, <2>2, AsideIs
<1>4. CASE SyncInfo
  BY <1>2, <1>4, InfoIs DEF history
<1>5. ASSUME NEW i \in Invoices, Arrive(i) PROVE Books'
  BY <1>2, <1>5, ArriveIs DEF tables, history
<1>6. CASE UNCHANGED vars
  BY <1>2, <1>6 DEF vars, tables, history
<1>7. QED
  BY <1>1, <1>3, <1>4, <1>5, <1>6, BooksAfterStep DEF Next, Sync, Aside, Stepping

LEMMA BooksInitially == Init => Books
<1> SUFFICES ASSUME Init PROVE Books
  OBVIOUS
<1>1. \A w \in Workers : req[w] = Idle
  BY DEF Init
<1>2. Earned = 0
  <2> DEFINE f == [i \in Invoices |-> tx[i] * PointsOf(i)]
  <2>1. \A i \in Invoices : f[i] = 0
    BY PointsAreNat DEF Init
  <2> HIDE DEF f
  <2>2. SumFunctionOnSet(f, Invoices) = 0
    BY <2>1, SumOfZeros, InvoicesAssumption
  <2>3. QED
    BY <2>2 DEF Earned, f
<1>3. wallet = 0 /\ others = 0 /\ told = 0
  BY DEF Init
<1>4. Explained
  BY <1>2, <1>3 DEF Explained
<1>5. QED
  BY <1>1, <1>4 DEF Books

(* One request at a time, the balance has at most the points of stored     *)
(* transactions besides what other requests did, and exactly these if      *)
(* nothing failed, and no claim has told more than was earned: also after  *)
(* the wallet's save failed and a claim undid its transaction, or an       *)
(* assignment kept the points in memory for its next invoice.              *)
THEOREM BalanceIsExplained == Spec => []BalanceExplained
<1>1. Types /\ Counting /\ Books => BalanceExplained
  <2> SUFFICES ASSUME Types, Counting, Books, ~overlap
               PROVE  /\ wallet <= others + Earned /\ told <= Earned
                      /\ failures = 0 /\ ~Busy => wallet = others + Earned
    BY DEF BalanceExplained
  <2>1. CASE ~Busy
    BY <2>1 DEF Books, Explained
  <2>2. CASE Busy
    <3>1. PICK w \in Workers : req[w] # Idle
      BY <2>2 DEF Busy
    <3>2. /\ BookOK(req[w]) /\ Unbooked(req[w]) \in Nat /\ Uncounted(req[w]) \in Nat
          /\ req[w].total \in Nat /\ Earned \in Int
          /\ wallet \in Int /\ others \in Int /\ told \in Int
      BY <3>1, BookFacts
    <3>3. wallet <= others + Earned /\ told <= Earned
      BY <3>2 DEF BookOK
    <3>4. QED
      BY <2>2, <3>3
  <2>3. QED
    BY <2>1, <2>2
<1>2. Init => Types /\ Counting /\ Books
  BY TypesInitially, CountingInitially, BooksInitially
<1>3. Types /\ Counting /\ Books /\ [Next]_vars => (Types /\ Counting /\ Books)'
  BY TypesKept, CountingKept, BooksKept
<1>4. QED
  BY <1>1, <1>2, <1>3, PTL DEF Spec
-----------------------------------------------------------------------------
(* What is left to claim.                                                  *)

PaidStored == \A i \in Invoices : i \notin Stored => tx[i] = 0

LEMMA PaidStoredKept == Types /\ PaidStored /\ [Next]_vars => PaidStored'
<1> SUFFICES ASSUME Types, PaidStored, [Next]_vars PROVE PaidStored'
  OBVIOUS
<1>1. ASSUME UNCHANGED tx, Stored \subseteq Stored' PROVE PaidStored'
  BY <1>1 DEF PaidStored
<1>2. ASSUME NEW w \in Workers, Stepping(w) PROVE PaidStored'
  <2>1. Stored' = Stored
    BY <1>2, StepKeepsStored DEF Stepping
  <2>2. ASSUME NEW d \in Int, tx' = [tx EXCEPT ![req[w].cur] = @ + d], req[w] \in Pays
        PROVE  PaidStored'
    <3>1. req[w].cur \in Stored
      BY <2>2, ByPc DEF HandlerOK
    <3>2. \A i \in Invoices \ {req[w].cur} : tx'[i] = tx[i]
      BY <2>2 DEF Types
    <3>3. QED
      BY <2>1, <3>1, <3>2 DEF PaidStored
  <2>3. CASE Insert(w)
    <3>1. 1 \in Int
      OBVIOUS
    <3>2. QED
      BY <2>2, <2>3, <3>1, InsertIs, Zenon
  <2>4. CASE Undo(w) \/ UndoFails(w)
    <3>1. CASE tx' = tx
      BY <1>1, <2>1, <3>1
    <3>2. CASE tx' = [tx EXCEPT ![req[w].cur] = @ - 1]
      <4>1. req[w] \in Pays
        BY <2>4, UndoIs
      <4>2. PICK i \in Invoices : i = req[w].cur
        BY <4>1 DEF Pays
      <4>3. tx' = [tx EXCEPT ![i] = @ - 1]
        BY <3>2, <4>2
      <4>4. tx' = [tx EXCEPT ![i] = @ + (-1)]
        BY <4>3 DEF Types
      <4>5. -1 \in Int
        OBVIOUS
      <4>6. QED
        BY <2>2, <4>1, <4>2, <4>4, <4>5, Zenon
    <3>3. QED
      BY <2>4, <3>1, <3>2, UndoIs
  <2>5. CASE UNCHANGED tx
    BY <1>1, <2>1, <2>5
  <2>6. \A i \in Invoices : Skips(w, i) \/ Pay(w, i) => UNCHANGED tx
    BY SkipsIs, PayIs DEF tables
  <2>7. SaveWallet(w) \/ SaveRow(w) \/ Answer(w) \/ Die(w) => UNCHANGED tx
    BY SaveWalletIs, SaveRowIs, AnswerIs, DieIs DEF tables
  <2>8. SaveFails(w) \/ WalletFails(w) \/ Claim(w) \/ Assign(w) => UNCHANGED tx
    BY SaveFailsIs, WalletFailsIs, BeginIs DEF tables
  <2>9. QED
    BY <1>2, <2>3, <2>4, <2>5, <2>6, <2>7, <2>8 DEF Stepping, Step, Skips
<1>3. CASE Aside \/ UNCHANGED vars
  BY <1>1, <1>3, AsideIs DEF vars, tables, Stored
<1>4. CASE SyncInfo
  BY <1>1, <1>4, InfoIs
<1>5. ASSUME NEW i \in Invoices, Arrive(i) PROVE PaidStored'
  BY <1>1, <1>5, ArriveIs DEF tables, Stored
<1>6. QED
  BY <1>2, <1>3, <1>4, <1>5 DEF Next, Sync, Aside, Stepping

(* The rows that a request has before it, and those that the banner may    *)
(* offer.                                                                  *)
RowsOf(q) == IF q \in Nexts \cup Pays THEN DOMAIN q.rows ELSE {}
Ahead == UNION {RowsOf(req[w]) : w \in Workers}
Open == Unclaimed \ phoneless
Same(i, j) == NumberOf[i] = NumberOf[j]

(* But for the rows a request has before it, nothing on offer was paid;    *)
(* and two invoices of one number are both assigned, or none is.           *)
FairBut(S) ==
    /\ \A i \in Stored : info[i].missing => i \in phoneless
    /\ \A i \in Open \ S : Payments(NumberOf[i]) = 0
    /\ \A i, j \in Open \ S : Same(i, j) => (info[i].loyalty <=> info[j].loyalty)

(* A request has the rows as they are stored, and with one of a number all *)
(* of it that are on offer, unless it will pay none.                       *)
FairTo(q) ==
    /\ \A i \in RowsOf(q) : q.rows[i] = info[i] /\ i \in Unclaimed
    /\ \A i \in RowsOf(q) \cap Open, j \in Open :
         Same(i, j) => j \in RowsOf(q) \/ (~q.known /\ ~info[j].loyalty)

Fair == ~overlap /\ failures = 0 =>
          FairBut(Ahead) /\ \A w \in Workers : FairTo(req[w])

LEMMA NothingAhead ==
    ASSUME NEW q, q = Idle \/ q \in Answers
    PROVE  RowsOf(q) = {} /\ FairTo(q) /\ FairTo(q)'
<1>1. q \notin Nexts /\ q \notin Pays
  BY IdleIs DEF Answers, Nexts, Pays, Paying
<1>2. QED
  BY <1>1 DEF RowsOf, FairTo

(* What holds before a step of the only request, and what it has to        *)
(* establish.                                                              *)
LEMMA FairBefore ==
    ASSUME Types, Counting, Fair, ~overlap, failures = 0, NEW w \in Workers, req[w] # Idle
    PROVE  FairBut(RowsOf(req[w])) /\ FairTo(req[w])
<1>1. \A v \in Workers \ {w} : req[v] = Idle
  BY OnlyOne
<1>2. Ahead = RowsOf(req[w])
  BY <1>1, NothingAhead DEF Ahead
<1>3. QED
  BY <1>2 DEF Fair

LEMMA FairAfterMove ==
    ASSUME Types, Counting, NEW w \in Workers, NEW h, req[w] # Idle,
           UNCHANGED overlap, req' = [req EXCEPT ![w] = h],
           ~overlap /\ failures' = 0 => FairBut(RowsOf(h))' /\ FairTo(h)'
    PROVE  Fair'
<1> SUFFICES ASSUME ~overlap, failures' = 0
             PROVE  FairBut(Ahead)' /\ \A v \in Workers : FairTo(req[v])'
  BY DEF Fair
<1>1. req'[w] = h /\ \A v \in Workers \ {w} : req'[v] = Idle
  BY OnlyOne DEF Types
<1>2. RowsOf(h) = RowsOf(req'[w]) /\ \A v \in Workers \ {w} : RowsOf(req'[v]) = {}
  BY <1>1, NothingAhead
<1>3. Ahead' = RowsOf(h)
  <2>1. Ahead' = UNION {RowsOf(req'[v]) : v \in Workers}
    BY DEF Ahead, RowsOf
  <2>2. QED
    BY <1>2, <2>1
<1>4. FairBut(Ahead)'
  BY <1>3 DEF FairBut, RowsOf
<1>5. \A v \in Workers : FairTo(req[v])'
  <2>1. ASSUME NEW v \in Workers PROVE FairTo(req[v])'
    <3>1. FairTo(h)' /\ FairTo(Idle)'
      BY NothingAhead
    <3>2. req'[v] = h \/ req'[v] = Idle
      BY <1>1
    <3>3. QED
      BY <3>1, <3>2 DEF FairTo, RowsOf
  <2>2. QED
    BY <2>1
<1>6. QED
  BY <1>4, <1>5

(* The row of invoice i is written, and the request leaves it.             *)
LEMMA FairAfterRow ==
    ASSUME Types, Counting, Fair, NEW w \in Workers, req[w] \in Nexts \cup Pays,
           NEW i \in RowsOf(req[w]), NEW balance, NEW total,
           NEW h \in Handlers \ Pays, req' = [req EXCEPT ![w] = h],
           LeftTo(h, req[w], i, balance, total),
           UNCHANGED <<phoneless, tx, overlap, failures>>,
           NEW row \in Rows, info' = [info EXCEPT ![i] = row],
           \/ row.claimed /\ row.missing = req[w].rows[i].missing
           \/ i \in phoneless
           \/ /\ row.claimed = req[w].rows[i].claimed
              /\ row.processed = req[w].rows[i].processed
              /\ row.missing = req[w].rows[i].missing
              /\ ~row.loyalty /\ ~req[w].known /\ ~AlreadyPaid(i)
    PROVE  Fair'
<1>1. req[w] # Idle
  BY IdleIs
<1>2. ASSUME ~overlap, failures = 0 PROVE FairBut(RowsOf(h))' /\ FairTo(h)'
  <2>1. PICK q : q = req[w]
    OBVIOUS
  <2>2. PICK S : S = RowsOf(q)
    OBVIOUS
  <2>3. FairBut(S) /\ FairTo(q)
    BY <1>1, <1>2, <2>1, <2>2, FairBefore DEF FairBut
  <2>4. /\ RowsOf(h) = S \ {i}
        /\ h \in Nexts => h.known = q.known /\ \A j \in DOMAIN h.rows : h.rows[j] = q.rows[j]
    <3>1. S = DOMAIN q.rows
      BY <2>1, <2>2 DEF RowsOf
    <3>2. CASE h \in Nexts
      <4>1. h \notin Answers /\ h # Idle
        BY <3>2, IdleIs DEF Nexts, Answers
      <4>2. QED
        BY <2>1, <3>1, <3>2, <4>1 DEF LeftTo, RowsOf
    <3>3. CASE h \notin Nexts
      BY <2>1, <3>1, <3>3 DEF LeftTo, RowsOf
    <3>4. QED
      BY <3>2, <3>3
  <2>5. /\ i \in S /\ q.rows[i] = info[i] /\ i \in Unclaimed /\ i \in Stored
        /\ i \in Invoices
    BY <2>1, <2>2, <2>3 DEF FairTo, Unclaimed, Stored
  <2>6. /\ Stored' = Stored /\ info'[i] = row /\ Stored \subseteq Invoices
        /\ \A j \in Invoices \ {i} : info'[j] = info[j]
    BY <2>5, SameStored DEF Stored
  <2>7. \A n : Payments(n)' = Payments(n)
    BY DEF Payments
  <2>8. \A j : j # i => (j \in Unclaimed' <=> j \in Unclaimed)
    BY <2>6 DEF Unclaimed
  <2>9. phoneless' = phoneless
    OBVIOUS
  <2>10. Open \subseteq Stored /\ Open' \subseteq Stored
    BY <2>6 DEF Open, Unclaimed
  <2>11. /\ \A j : j # i => (j \in Open' <=> j \in Open)
         /\ \A j \in S \ {i} : j \in Unclaimed'
    BY <2>3, <2>2, <2>8, <2>9 DEF Open, FairTo
  <2>12. \A j \in S \ {i} : h \in Nexts => h.rows[j] = info'[j]
    <3>1. S \subseteq Invoices
      BY <2>2, <2>3 DEF FairTo, Unclaimed, Stored
    <3>2. QED
      BY <2>2, <2>3, <2>4, <2>6, <3>1 DEF FairTo, RowsOf
  <2>13. h \notin Nexts => RowsOf(h) = {}
    BY DEF RowsOf
  <2>14. ASSUME i \notin Open', row.missing => i \in phoneless
         PROVE  FairBut(RowsOf(h))' /\ FairTo(h)'
    <3>1. \A j \in Stored' : info'[j].missing => j \in phoneless'
      BY <2>3, <2>6, <2>9, <2>14 DEF FairBut
    <3>2. \A j \in Open' \ RowsOf(h) : j \in Open \ S /\ info'[j] = info[j]
      BY <2>4, <2>6, <2>10, <2>11, <2>14
    <3>3. FairBut(RowsOf(h))'
      BY <2>3, <2>7, <3>1, <3>2 DEF FairBut, RowsOf, Same
    <3>4. \A j \in RowsOf(h) : h.rows[j] = info'[j] /\ j \in Unclaimed'
      BY <2>4, <2>11, <2>12, <2>13
    <3>5. \A k \in RowsOf(h) \cap Open', j \in Open' :
            Same(k, j) => j \in RowsOf(h) \/ (~h.known /\ ~info'[j].loyalty)
      <4>1. SUFFICES ASSUME NEW k \in RowsOf(h), k \in Open', NEW j \in Open', Same(k, j)
                     PROVE  j \in RowsOf(h) \/ (~h.known /\ ~info'[j].loyalty)
        OBVIOUS
      <4>2. k \in S /\ k \in Open /\ j \in Open /\ j # i /\ info'[j] = info[j]
        BY <2>4, <2>6, <2>10, <2>11, <2>14, <4>1
      <4>3. j \in S \/ (~q.known /\ ~info[j].loyalty)
        BY <2>2, <2>3, <4>1, <4>2 DEF FairTo
      <4>4. QED
        BY <2>4, <2>13, <4>1, <4>2, <4>3
    <3>6. FairTo(h)'
      BY <3>4, <3>5 DEF FairTo, RowsOf, Same
    <3>7. QED
      BY <3>3, <3>6
  <2>15. CASE row.claimed /\ row.missing = q.rows[i].missing
    <3>1. i \notin Open' /\ (row.missing => i \in phoneless)
      BY <2>3, <2>5, <2>6, <2>15 DEF Open, Unclaimed, FairBut
    <3>2. QED
      BY <2>14, <3>1
  <2>16. CASE i \in phoneless
    BY <2>9, <2>14, <2>16 DEF Open
  <2>17. CASE /\ row.claimed = q.rows[i].claimed /\ row.processed = q.rows[i].processed
              /\ row.missing = q.rows[i].missing /\ i \notin phoneless
              /\ ~row.loyalty /\ ~q.known /\ ~AlreadyPaid(i)
    <3>1. i \in Unclaimed' /\ i \in Open /\ i \in Open'
      BY <2>5, <2>6, <2>9, <2>17 DEF Unclaimed, Open
    <3>2. Open' = Open
      BY <2>11, <3>1
    <3>3. Payments(NumberOf[i]) = 0
      BY <2>17, PaymentsAreNat DEF AlreadyPaid, Counting
    <3>4. \A j \in Stored' : info'[j].missing => j \in phoneless'
      BY <2>3, <2>5, <2>6, <2>9, <2>17 DEF FairBut
    <3>5. \A j \in Open' \ RowsOf(h) : Payments(NumberOf[j])' = 0
      BY <2>3, <2>4, <2>7, <3>2, <3>3 DEF FairBut
    <3>6. \A j \in Open \ S : Same(i, j) => ~info'[j].loyalty
      BY <2>2, <2>3, <2>5, <2>6, <2>10, <2>17, <3>1 DEF FairTo
    <3>7. \A j, k \in Open' \ RowsOf(h) :
             Same(j, k) => (info'[j].loyalty <=> info'[k].loyalty)
      <4>1. SUFFICES ASSUME NEW j \in Open \ (S \ {i}), NEW k \in Open \ (S \ {i}),
                            Same(j, k)
                     PROVE  info'[j].loyalty <=> info'[k].loyalty
        BY <2>4, <3>2
      <4>2. CASE j = i \/ k = i
        BY <2>6, <2>17, <3>6, <4>1, <4>2 DEF Same
      <4>3. CASE j # i /\ k # i
        BY <2>3, <2>6, <2>10, <4>1, <4>3 DEF FairBut
      <4>4. QED
        BY <4>2, <4>3
    <3>8. FairBut(RowsOf(h))'
      BY <3>4, <3>5, <3>7 DEF FairBut, RowsOf, Same
    <3>9. \A j \in RowsOf(h) : h.rows[j] = info'[j] /\ j \in Unclaimed'
      BY <2>4, <2>11, <2>12, <2>13
    <3>10. \A k \in RowsOf(h) \cap Open', j \in Open' :
             Same(k, j) => j \in RowsOf(h) \/ (~h.known /\ ~info'[j].loyalty)
      <4>1. SUFFICES ASSUME NEW k \in RowsOf(h), k \in Open, NEW j \in Open, Same(k, j)
                     PROVE  j \in RowsOf(h) \/ (~h.known /\ ~info'[j].loyalty)
        BY <3>2
      <4>2. k \in S /\ ~h.known
        BY <2>4, <2>13, <2>17, <4>1
      <4>3. CASE j = i
        BY <2>6, <2>17, <4>2, <4>3
      <4>4. CASE j # i
        <5>1. j \in S \/ ~info[j].loyalty
          BY <2>2, <2>3, <4>1, <4>2 DEF FairTo
        <5>2. info'[j] = info[j]
          BY <2>6, <2>10, <4>1, <4>4
        <5>3. QED
          BY <2>4, <4>2, <4>4, <5>1, <5>2
      <4>5. QED
        BY <4>3, <4>4
    <3>11. FairTo(h)'
      BY <3>9, <3>10 DEF FairTo, RowsOf, Same
    <3>12. QED
      BY <3>8, <3>11
  <2>18. QED
    BY <2>1, <2>15, <2>16, <2>17
<1>3. QED
  BY <1>1, <1>2, FairAfterMove

LEMMA FairAfterStep ==
    ASSUME Types, Counting, Fair, NEW w \in Workers, Stepping(w),
           ~(Claim(w) \/ Assign(w))
    PROVE  Fair'
<1>1. ASSUME NEW i \in Invoices, Skips(w, i) PROVE Fair'
  <2>1. /\ req[w] \in Nexts \cup Pays /\ i \in RowsOf(req[w])
        /\ UNCHANGED <<phoneless, tx, overlap, failures>>
    BY <1>1, SkipsIs DEF RowsOf, source, history
  <2>2. PICK h \in Handlers \ Pays :
           /\ req' = [req EXCEPT ![w] = h]
           /\ LeftTo(h, req[w], i, req[w].wallet, req[w].total)
    BY <1>1, SkipsIs
  <2>3. PICK row \in Rows :
           /\ info' = [info EXCEPT ![i] = row]
           /\ \/ row.claimed /\ row.missing = req[w].rows[i].missing
              \/ i \in phoneless
              \/ /\ row.claimed = req[w].rows[i].claimed
                 /\ row.processed = req[w].rows[i].processed
                 /\ row.missing = req[w].rows[i].missing
                 /\ ~row.loyalty /\ ~req[w].known /\ ~AlreadyPaid(i)
    BY <1>1, SkipsIs
  <2>4. QED
    BY <2>1, <2>2, <2>3, FairAfterRow
<1>2. CASE SaveRow(w)
  <2>1. PICK i : i = req[w].cur
    OBVIOUS
  <2>2. /\ req[w] \in Nexts \cup Pays /\ i \in RowsOf(req[w])
        /\ UNCHANGED <<phoneless, tx, overlap, failures>>
    BY <1>2, <2>1, SaveRowIs, ByPc DEF RowsOf, HandlerOK, source, history
  <2>3. PICK h \in Handlers \ Pays :
           /\ req' = [req EXCEPT ![w] = h]
           /\ LeftTo(h, req[w], i, req[w].wallet, Counted(req[w]))
    BY <1>2, <2>1, SaveRowIs
  <2>4. PICK row \in Rows : /\ info' = [info EXCEPT ![i] = row] /\ row.claimed
                            /\ row.missing = req[w].rows[i].missing
    BY <1>2, <2>1, SaveRowIs
  <2>5. QED
    BY <2>2, <2>3, <2>4, FairAfterRow
<1>3. ASSUME NEW h \in Nexts \cup Pays, req[w] \in Nexts \cup Pays, req[w] # Idle,
             req' = [req EXCEPT ![w] = h], h.rows = req[w].rows,
             h.known = req[w].known, UNCHANGED <<phoneless, info, tx, overlap, failures>>
      PROVE  Fair'
  <2>1. PICK S : S = RowsOf(h)
    OBVIOUS
  <2>2. S = RowsOf(req[w])
    BY <1>3, <2>1 DEF RowsOf
  <2>3. /\ Stored' = Stored /\ Open' = Open /\ Unclaimed' = Unclaimed
        /\ \A n : Payments(n)' = Payments(n)
    BY <1>3 DEF Stored, Open, Unclaimed, Payments
  <2>4. ASSUME ~overlap, failures = 0 PROVE FairBut(S)' /\ FairTo(h)'
    <3>1. FairBut(S) /\ FairTo(req[w])
      BY <1>3, <2>2, <2>4, FairBefore DEF FairBut
    <3>2. FairBut(S)'
      BY <1>3, <2>3, <3>1 DEF FairBut, Same
    <3>3. FairTo(h)
      BY <1>3, <2>1, <2>2, <3>1 DEF FairTo
    <3>4. FairTo(h)'
      BY <1>3, <2>3, <3>3 DEF FairTo, RowsOf, Same
    <3>5. QED
      BY <3>2, <3>4
  <2>5. ~overlap /\ failures' = 0 => FairBut(RowsOf(h))' /\ FairTo(h)'
    BY <1>3, <2>1, <2>4 DEF FairBut, RowsOf
  <2>6. QED
    BY <1>3, <2>5, FairAfterMove
<1>4. ASSUME NEW i \in Invoices, Pay(w, i) PROVE Fair'
  <2>1. PICK h \in Pays : /\ req' = [req EXCEPT ![w] = h] /\ h.known
                          /\ h.rows = req[w].rows
    BY <1>4, PayIs
  <2>2. /\ req[w] \in Nexts /\ req[w] # Idle /\ req[w].known
        /\ UNCHANGED <<phoneless, info, tx, overlap, failures>>
    BY <1>4, PayIs, IdleIs DEF source, tables, history
  <2>3. h.known = req[w].known
    BY <2>1, <2>2 DEF Nexts, Pays
  <2>4. QED
    BY <1>3, <2>1, <2>2, <2>3
<1>5. CASE SaveWallet(w)
  <2>1. PICK h \in Pays : /\ req' = [req EXCEPT ![w] = h]
                          /\ h.rows = req[w].rows /\ h.known = req[w].known
    BY <1>5, SaveWalletIs DEF SamePayment
  <2>2. /\ req[w] \in Pays /\ req[w] # Idle
        /\ UNCHANGED <<phoneless, info, tx, overlap, failures>>
    BY <1>5, SaveWalletIs, IdleIs DEF source, history
  <2>3. QED
    BY <1>3, <2>1, <2>2
<1>6. CASE Insert(w)
  <2>1. PICK h \in Pays : /\ req' = [req EXCEPT ![w] = h]
                          /\ h.rows = req[w].rows /\ h.known = req[w].known
    BY <1>6, InsertIs DEF SamePayment
  <2>2. PICK i \in Invoices : i = req[w].cur
    BY <1>6, InsertIs DEF Pays
  <2>3. /\ req[w] \in Pays /\ req[w] # Idle /\ tx' = [tx EXCEPT ![i] = @ + 1]
        /\ UNCHANGED <<phoneless, info, overlap, failures>>
    BY <1>6, <2>2, InsertIs, IdleIs DEF source, history
  <2>4. PICK S : S = RowsOf(h)
    OBVIOUS
  <2>5. S = RowsOf(req[w]) /\ i \in S /\ req[w].known /\ i \notin phoneless
    BY <2>1, <2>2, <2>3, <2>4, ByPc DEF RowsOf, HandlerOK
  <2>6. Stored' = Stored /\ Open' = Open /\ Unclaimed' = Unclaimed
    BY <2>3 DEF Stored, Open, Unclaimed
  <2>7. ASSUME NEW n, n # NumberOf[i] PROVE Payments(n)' = Payments(n)
    <3>1. 1 \in Int
      OBVIOUS
    <3>2. Payments(n)' = Payments(n) + IF NumberOf[i] = n THEN 1 ELSE 0
      BY <2>3, <3>1, PaymentsChange, Zenon
    <3>3. Payments(n) \in Nat
      BY PaymentsAreNat DEF Counting
    <3>4. QED
      BY <2>7, <3>2, <3>3
  <2>8. ASSUME ~overlap, failures = 0 PROVE FairBut(S)' /\ FairTo(h)'
    <3>1. FairBut(S) /\ FairTo(req[w])
      BY <2>3, <2>5, <2>8, FairBefore DEF FairBut
    <3>2. i \in Open
      BY <2>5, <3>1 DEF FairTo, Open
    <3>3. ASSUME NEW j \in Open \ S PROVE NumberOf[j] # NumberOf[i]
      BY <2>5, <3>1, <3>2, <3>3 DEF FairTo, Same
    <3>4. \A j \in Open \ S : Payments(NumberOf[j])' = 0
      BY <2>7, <3>1, <3>3 DEF FairBut
    <3>5. FairBut(S)'
      BY <2>3, <2>6, <3>1, <3>4 DEF FairBut, Same
    <3>6. FairTo(h)
      BY <2>1, <2>4, <2>5, <3>1 DEF FairTo
    <3>7. FairTo(h)'
      BY <2>3, <2>6, <3>6 DEF FairTo, RowsOf, Same
    <3>8. QED
      BY <3>5, <3>7
  <2>9. ~overlap /\ failures' = 0 => FairBut(RowsOf(h))' /\ FairTo(h)'
    BY <2>3, <2>4, <2>8 DEF FairBut, RowsOf
  <2>10. QED
    BY <2>1, <2>3, <2>9, FairAfterMove
<1>7. CASE Answer(w)
  <2>1. /\ req[w] \in Answers /\ req[w] # Idle /\ req' = [req EXCEPT ![w] = Idle]
        /\ UNCHANGED <<phoneless, info, tx, overlap, failures>>
    BY <1>7, AnswerIs, IdleIs DEF source, tables
  <2>2. /\ Stored' = Stored /\ Open' = Open
        /\ \A n : Payments(n)' = Payments(n)
    BY <2>1 DEF Stored, Open, Unclaimed, Payments
  <2>3. RowsOf(req[w]) = {} /\ RowsOf(Idle) = {} /\ FairTo(Idle)'
    BY <2>1, NothingAhead
  <2>4. ASSUME ~overlap, failures = 0 PROVE FairBut({})'
    <3>1. FairBut({})
      BY <2>1, <2>3, <2>4, FairBefore DEF FairBut
    <3>2. QED
      BY <2>1, <2>2, <3>1 DEF FairBut, Same
  <2>5. ~overlap /\ failures' = 0 => FairBut(RowsOf(Idle))' /\ FairTo(Idle)'
    BY <2>1, <2>3, <2>4 DEF FairBut, RowsOf
  <2>6. QED
    BY <2>1, <2>5, FairAfterMove
<1>8. ASSUME failures' # 0 PROVE Fair'
  BY <1>8 DEF Fair
<1>9. SaveFails(w) \/ WalletFails(w) \/ Die(w) => failures' # 0
  BY SaveFailsIs, WalletFailsIs, DieIs DEF Types
<1>10. Undo(w) \/ UndoFails(w) => failures' # 0
  BY UndoIs DEF history
<1>11. QED
  BY <1>1, <1>2, <1>4, <1>5, <1>6, <1>7, <1>8, <1>9, <1>10 DEF Stepping, Step, Skips

LEMMA FairKept ==
    Types /\ Counting /\ Imported /\ PaidStored /\ Fair /\ [Next]_vars => Fair'
<1> SUFFICES ASSUME Types, Counting, Imported, PaidStored, Fair, [Next]_vars PROVE Fair'
  OBVIOUS
<1>1. ASSUME NEW w \in Workers, Claim(w) \/ Assign(w) PROVE Fair'
  <2>1. PICK h \in Nexts :
           /\ req' = [req EXCEPT ![w] = h] /\ DOMAIN h.rows \subseteq Unclaimed
           /\ \A i \in DOMAIN h.rows : h.rows[i] = info[i]
           /\ \/ DOMAIN h.rows = Unclaimed \ phoneless
              \/ DOMAIN h.rows = {i \in Unclaimed : info[i].loyalty /\ ~info[i].missing}
    BY <1>1, BeginIs
  <2>2. /\ overlap' = (overlap \/ Busy) /\ UNCHANGED <<phoneless, info, tx, failures>>
    BY <1>1, BeginIs DEF source, tables
  <2>3. /\ Stored' = Stored /\ Open' = Open /\ Unclaimed' = Unclaimed
        /\ \A n : Payments(n)' = Payments(n)
    BY <2>2 DEF Stored, Open, Unclaimed, Payments
  <2>4. RowsOf(h) = DOMAIN h.rows
    BY DEF RowsOf
  <2>5. ASSUME ~overlap', failures' = 0
        PROVE  FairBut(Ahead)' /\ \A v \in Workers : FairTo(req[v])'
    <3>1. ~overlap /\ failures = 0 /\ \A v \in Workers : req[v] = Idle
      BY <2>2, <2>5 DEF Busy
    <3>2. Ahead = {}
      BY <3>1, NothingAhead DEF Ahead
    <3>3. FairBut({})
      BY <3>1, <3>2 DEF Fair, FairBut
    <3>4. req'[w] = h /\ \A v \in Workers \ {w} : req'[v] = Idle
      BY <2>1, <3>1 DEF Types
    <3>5. FairBut(Ahead)'
      BY <2>2, <2>3, <3>3 DEF FairBut, Same
    <3>6. ASSUME NEW i \in RowsOf(h), i \in Open, NEW j \in Open, Same(i, j)
          PROVE  j \in RowsOf(h)
      <4>1. CASE DOMAIN h.rows = Open
        BY <2>4, <4>1
      <4>2. CASE DOMAIN h.rows = {k \in Unclaimed : info[k].loyalty /\ ~info[k].missing}
        <5>1. info[i].loyalty /\ (info[i].loyalty <=> info[j].loyalty)
          BY <2>4, <3>3, <3>6, <4>2 DEF FairBut
        <5>2. ~info[j].missing /\ j \in Unclaimed
          BY <3>3 DEF FairBut, Open, Unclaimed
        <5>3. QED
          BY <2>4, <4>2, <5>1, <5>2
      <4>3. QED
        BY <2>1, <4>1, <4>2 DEF Open
    <3>7. FairTo(h)
      BY <2>1, <2>4, <3>6 DEF FairTo
    <3>8. FairTo(h)'
      BY <2>2, <2>3, <3>7 DEF FairTo, RowsOf, Same
    <3>9. \A v \in Workers : FairTo(req[v])'
      <4>1. ASSUME NEW v \in Workers PROVE FairTo(req[v])'
        <5>1. FairTo(Idle)'
          BY NothingAhead
        <5>2. req'[v] = h \/ req'[v] = Idle
          BY <3>4
        <5>3. QED
          BY <3>8, <5>1, <5>2 DEF FairTo, RowsOf
      <4>2. QED
        BY <4>1
    <3>10. QED
      BY <3>5, <3>9
  <2>6. QED
    BY <2>5 DEF Fair
<1>2. ASSUME UNCHANGED <<info, tx, req>>, ~overlap' => ~overlap,
             failures' \in {failures, failures + 1},
             \A i \in Stored : i \in phoneless' <=> i \in phoneless
      PROVE  Fair'
  <2>1. /\ Stored' = Stored /\ Unclaimed' = Unclaimed /\ Unclaimed \subseteq Stored
        /\ \A n : Payments(n)' = Payments(n)
    BY <1>2 DEF Stored, Unclaimed, Payments
  <2>2. Open' = Open
    BY <1>2, <2>1 DEF Open
  <2>3. Ahead' = Ahead
    BY <1>2 DEF Ahead, RowsOf
  <2>4. FairBut(Ahead) => FairBut(Ahead)'
    BY <1>2, <2>1, <2>2, <2>3 DEF FairBut, Same
  <2>5. \A v \in Workers : FairTo(req[v]) => FairTo(req[v])'
    BY <1>2, <2>1, <2>2 DEF FairTo, RowsOf, Same
  <2>6. failures' = 0 => failures = 0
    BY <1>2 DEF Types
  <2>7. QED
    BY <1>2, <2>4, <2>5, <2>6 DEF Fair
<1>3. CASE Aside
  BY <1>2, <1>3, AsideIs, OverlapStays DEF source
<1>4. CASE UNCHANGED vars
  BY <1>2, <1>4 DEF vars, source, tables, history
<1>5. ASSUME NEW k \in Invoices, Arrive(k) PROVE Fair'
  <2>1. k \notin Stored
    BY <1>5, ArriveIs DEF Types
  <2>2. \A i \in Stored : i \in phoneless' <=> i \in phoneless
    BY <1>5, <2>1, ArriveIs
  <2>3. QED
    BY <1>2, <1>5, <2>2, ArriveIs DEF tables, history
<1>6. CASE SyncInfo
  <2>1. PICK fresh : fresh = sync.fresh
    OBVIOUS
  <2>2. /\ UNCHANGED <<phoneless, tx, req, overlap, failures>>
        /\ Stored' = Stored \cup fresh
        /\ \A i \in fresh : info'[i] = NewRow
        /\ \A i \in Invoices \ fresh : info'[i] = info[i]
    BY <1>6, <2>1, InfoIs DEF source, history
  <2>3. \A i \in fresh : i \in Invoices /\ ~Covered(i)
    BY <1>6, <2>1, InfoIs DEF Imported, Types
  <2>4. ASSUME NEW i \in fresh PROVE Payments(NumberOf[i]) = 0
    <3>1. \A j \in Numbered(NumberOf[i]) : tx[j] = 0
      BY <2>3 DEF Numbered, Covered, PaidStored
    <3>2. QED
      BY <3>1, NumberedIsFinite, PaymentsIs, SumOfZeros
  <2>5. \A n : Payments(n)' = Payments(n)
    BY <2>2 DEF Payments
  <2>6. Stored \subseteq Invoices /\ fresh \cap Stored = {}
    BY <2>3 DEF Stored, Covered
  <2>7. NewRow.loyalty /\ ~NewRow.missing /\ ~NewRow.claimed /\ ~NewRow.processed
    BY DEF NewRow
  <2>8. Unclaimed' = Unclaimed \cup fresh /\ Unclaimed \subseteq Stored
    BY <2>2, <2>6, <2>7 DEF Unclaimed
  <2>9. \A i \in Open' : i \in fresh \/ (i \in Open /\ i \in Stored /\ info'[i] = info[i])
    BY <2>2, <2>6, <2>8 DEF Open
  <2>10. \A i \in fresh, j \in Stored : ~Same(i, j) /\ ~Same(j, i)
    BY <2>3 DEF Covered, Same
  <2>11. Ahead' = Ahead
    BY <2>2 DEF Ahead, RowsOf
  <2>12. ASSUME FairBut(Ahead) PROVE FairBut(Ahead)'
    <3>1. \A i \in Stored' : info'[i].missing => i \in phoneless'
      BY <2>2, <2>6, <2>7, <2>12 DEF FairBut
    <3>2. \A i \in Open' \ Ahead : Payments(NumberOf[i])' = 0
      BY <2>4, <2>5, <2>9, <2>12 DEF FairBut
    <3>3. ASSUME NEW i \in Open' \ Ahead, NEW j \in Open' \ Ahead, Same(i, j)
          PROVE  info'[i].loyalty <=> info'[j].loyalty
      <4>1. CASE i \in fresh /\ j \in fresh
        BY <2>2, <4>1
      <4>2. CASE i \in Stored /\ j \in Stored
        BY <2>6, <2>9, <2>12, <3>3, <4>2 DEF FairBut
      <4>3. QED
        BY <2>9, <2>10, <3>3, <4>1, <4>2
    <3>4. QED
      BY <2>11, <3>1, <3>2, <3>3 DEF FairBut, Same
  <2>13. ASSUME NEW w \in Workers, FairTo(req[w]) PROVE FairTo(req[w])'
    <3>1. PICK q : q = req[w] /\ q = req'[w]
      BY <2>2
    <3>2. \A i \in RowsOf(q) : i \in Unclaimed /\ i \in Stored /\ info'[i] = info[i]
      BY <2>2, <2>6, <2>8, <2>13, <3>1 DEF FairTo
    <3>3. \A i \in RowsOf(q) : q.rows[i] = info'[i] /\ i \in Unclaimed'
      BY <2>8, <2>13, <3>1, <3>2 DEF FairTo
    <3>4. ASSUME NEW i \in RowsOf(q), i \in Open', NEW j \in Open', Same(i, j)
          PROVE  j \in RowsOf(q) \/ (~q.known /\ ~info'[j].loyalty)
      <4>1. i \in Open /\ j \in Open /\ info'[j] = info[j]
        BY <2>6, <2>9, <2>10, <3>2, <3>4
      <4>2. QED
        BY <2>13, <3>1, <3>4, <4>1 DEF FairTo
    <3>5. FairTo(q)'
      BY <3>3, <3>4 DEF FairTo, RowsOf, Same
    <3>6. QED
      BY <3>1, <3>5 DEF FairTo, RowsOf
  <2>14. QED
    BY <2>2, <2>12, <2>13 DEF Fair
<1>7. QED
  BY <1>1, <1>3, <1>4, <1>5, <1>6, FairAfterStep DEF Next, Sync, Aside, Stepping

LEMMA FairInitially == Init => PaidStored /\ Fair
<1> SUFFICES ASSUME Init PROVE PaidStored /\ Fair
  OBVIOUS
<1>1. \A i \in Invoices : tx[i] = 0
  BY DEF Init
<1>2. Stored = {} /\ Unclaimed = {} /\ Open = {}
  BY DEF Init, Stored, Unclaimed, Open, Absent
<1>3. \A w \in Workers : req[w] = Idle
  BY DEF Init
<1>4. QED
  BY <1>1, <1>2, <1>3, NothingAhead DEF PaidStored, Fair, FairBut

(* The points of some invoices, summed over all of them.                   *)
LEMMA WorthIs ==
    ASSUME NEW S \in SUBSET Invoices
    PROVE  /\ Worth(S) = SumFunctionOnSet([i \in Invoices |-> PointsOf(i)], S)
           /\ IsFiniteSet(S)
<1> DEFINE f == [i \in S |-> PointsOf(i)]
           g == [i \in Invoices |-> PointsOf(i)]
<1>1. IsFiniteSet(S)
  BY FS_Subset, InvoicesAssumption
<1>2. \A i \in S : f[i] = g[i]
  OBVIOUS
<1> HIDE DEF f, g
<1>3. SumFunctionOnSet(f, S) = SumFunctionOnSet(g, S)
  BY <1>1, <1>2, SumsAgree
<1>4. QED
  BY <1>1, <1>3 DEF Worth, f, g

LEMMA WorthGrows ==
    ASSUME NEW S \in SUBSET Invoices, NEW T \in SUBSET S
    PROVE  Worth(T) <= Worth(S)
<1> DEFINE g == [i \in Invoices |-> PointsOf(i)]
<1>1. \A i \in S : g[i] \in Nat
  BY PointsAreNat
<1>2. T \in SUBSET Invoices
  OBVIOUS
<1> HIDE DEF g
<1>3. IsFiniteSet(S)
  BY WorthIs
<1>4. SumFunctionOnSet(g, T) <= SumFunctionOnSet(g, S)
  BY <1>1, <1>3, SumOfSome
<1>5. QED
  BY <1>2, <1>4, WorthIs DEF g

(* One request at a time, what is marked as claimed was paid, by the       *)
(* wallet or by Qitaf, and if nothing failed the banner offers no points   *)
(* for a number that was paid: though the invoices are marked one after    *)
(* another from rows that were read before, an assignment passes over      *)
(* those of strangers, and new invoices are stored meanwhile.              *)
THEOREM ClaimsOnlyPaid == Spec => []ClaimedIsPaid
<1> DEFINE Inv == /\ Types /\ Counting /\ Imported /\ Held /\ Settled
                  /\ PaidStored /\ Fair
<1>1. Inv => ClaimedIsPaid
  <2> SUFFICES ASSUME Types, Counting, Settled, Fair, ~overlap
               PROVE  /\ Marked
                      /\ failures = 0 /\ ~Busy =>
                           Banner.points
                             <= Worth({i \in Stored : Payments(NumberOf[i]) = 0})
    BY DEF ClaimedIsPaid, Marked
  <2>1. Marked
    BY DEF Settled
  <2>2. ASSUME failures = 0, ~Busy
        PROVE  Banner.points <= Worth({i \in Stored : Payments(NumberOf[i]) = 0})
    <3>1. PICK S : S = {i \in Stored : Payments(NumberOf[i]) = 0}
      OBVIOUS
    <3>2. PICK T : T = IF active THEN Unclaimed \ phoneless ELSE {}
      OBVIOUS
    <3>3. Ahead = {}
      BY <2>2, NothingAhead DEF Ahead, Busy
    <3>4. \A i \in Open : Payments(NumberOf[i]) = 0
      BY <2>2, <3>3 DEF Fair, FairBut
    <3>5. S \in SUBSET Invoices /\ T \in SUBSET S
      BY <3>1, <3>2, <3>4 DEF Open, Unclaimed, Stored
    <3>6. Banner.points = Worth(T)
      BY <3>2 DEF Banner
    <3>7. QED
      BY <3>1, <3>5, <3>6, WorthGrows
  <2>3. QED
    BY <2>1, <2>2
<1>2. Init => Inv
  BY TypesInitially, CountingInitially, ImportedInitially, SettledInitially, FairInitially
<1>3. Inv /\ [Next]_vars => Inv'
  BY TypesKept, CountingKept, ImportedKept, HeldKept, SettledKept, PaidStoredKept, FairKept
<1>4. QED
  BY <1>1, <1>2, <1>3, PTL DEF Spec
=============================================================================
