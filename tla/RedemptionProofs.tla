--------------------------- MODULE RedemptionProofs ---------------------------
(***************************************************************************)
(* Redemption keeps IInv, for every set of handlers, every rule, every     *)
(* tenant and every bound.  With one handler at a time it also keeps       *)
(* Serial, from which every burn has its code, and, as long as no handler  *)
(* dies half-way, Paid, from which the ledger of the checkout API balances.*)
(***************************************************************************)
EXTENDS Redemption, SharedLemmas, TLAPS

-----------------------------------------------------------------------------
(* The arithmetic of a burn: what MaxBurn returns, for every rule, balance *)
(* and invoice.                                                            *)

(* Integer division by a positive divisor rounds down.                     *)
LEMMA DivisionRoundsDown ==
    ASSUME NEW a \in Nat, NEW f \in Nat, f > 0
    PROVE  /\ a \div f \in Nat
           /\ (a \div f) * f <= a
           /\ a < (a \div f + 1) * f
  BY SMT

(* Money never goes negative: discounts and caps are naturals.             *)
LEMMA MoneyIsNatural ==
    ASSUME NEW p \in Nat, NEW amount \in Nat
    PROVE  Discount(p) \in Nat /\ MaxDiscount(amount) \in Nat
  BY RuleAssumption, SMT DEF Discount, MaxDiscount

(* A cap only ever bites when the conversion factor is positive, so the    *)
(* division of MaxBurn never divides by zero.                              *)
LEMMA CappedMeansPositiveFactor ==
    ASSUME NEW p \in Nat, NEW amount \in Nat,
           Discount(p) > MaxDiscount(amount)
    PROVE  Factor > 0
<1>1. CASE Factor = 0
  <2>1. Discount(p) = 0
    BY <1>1, SMT DEF Discount
  <2>2. MaxDiscount(amount) >= 0
    BY MoneyIsNatural
  <2>3. QED
    BY <2>1, <2>2, MoneyIsNatural, SMT
<1>2. QED
  BY <1>1, RuleAssumption, SMT

(* The discount grows with the points.                                     *)
LEMMA DiscountMonotone ==
    ASSUME NEW p \in Nat, NEW q \in Nat, p <= q
    PROVE  Discount(p) <= Discount(q)
  BY RuleAssumption, SMT DEF Discount

(* What a factor multiplies keeps its order.                               *)
LEMMA FactorCancels ==
    ASSUME NEW a \in Int, NEW b \in Int, NEW f \in Nat, f > 0, a * f < b * f
    PROVE  a < b
<1>1. CASE b <= a
  <2>1. b * f <= a * f
    BY <1>1
  <2>2. QED
    BY <2>1
<1>2. QED
  BY <1>1

(* The share of the invoice, in whole points.                              *)
LEMMA ShareOfInvoice ==
    ASSUME NEW p \in Nat, NEW amount \in Nat,
           Discount(p) > MaxDiscount(amount)
    PROVE  LET k == (amount * Percent) \div Factor
           IN  /\ k \in Nat
               /\ Discount(100 * k) <= MaxDiscount(amount)
               /\ 100 * k < p
               /\ MaxDiscount(amount) < Discount(100 * (k + 1))
<1> DEFINE c == amount * Percent
           k == c \div Factor
<1>1. Factor \in Nat /\ Factor > 0
  BY CappedMeansPositiveFactor, RuleAssumption
<1>2. c \in Nat
  BY RuleAssumption
<1>3. MaxDiscount(amount) = 100 * c
  BY RuleAssumption, SMT DEF MaxDiscount
<1>4. p * Factor > 100 * c
  BY <1>3 DEF Discount
<1> HIDE DEF c
<1>5. k \in Nat /\ k * Factor <= c /\ c < (k + 1) * Factor
  BY <1>1, <1>2, DivisionRoundsDown
<1> HIDE DEF k
<1>6. /\ (100 * k) * Factor = 100 * (k * Factor)
      /\ (100 * (k + 1)) * Factor = 100 * ((k + 1) * Factor)
  BY <1>1, <1>5, SMT
<1>7. k * Factor \in Nat /\ (k + 1) * Factor \in Nat /\ p * Factor \in Nat
  BY <1>1, <1>5
<1>8. /\ (100 * k) * Factor <= 100 * c
      /\ 100 * c < (100 * (k + 1)) * Factor
      /\ (100 * k) * Factor < p * Factor
  BY <1>2, <1>4, <1>5, <1>6, <1>7
<1>9. 100 * k < p
  BY <1>1, <1>5, <1>8, FactorCancels
<1>10. QED
  BY <1>3, <1>5, <1>8, <1>9 DEF Discount, k, c

(* calculateMaxBurn never offers more points than any of the three caps    *)
(* allows, and never a negative number of them.                            *)
THEOREM MaxBurnIsAdmissible ==
    ASSUME NEW available \in Nat, NEW amount \in Nat
    PROVE  /\ MaxBurn(available, amount) \in Nat
           /\ Admissible(MaxBurn(available, amount), available, amount)
<1> DEFINE p == Least(available, 100 * Limit)
           k == (amount * Percent) \div Factor
<1>1. p \in Nat /\ p <= available /\ p <= 100 * Limit
  BY RuleAssumption, SMT DEF Least
<1>2. CASE Discount(p) > MaxDiscount(amount)
  <2>1. /\ k \in Nat /\ 100 * k < p
        /\ Discount(100 * k) <= MaxDiscount(amount)
    BY <1>1, <1>2, ShareOfInvoice
  <2>2. MaxBurn(available, amount) = 100 * k
    BY <1>2 DEF MaxBurn
  <2> HIDE DEF k, p
  <2>3. /\ 100 * k \in Nat
        /\ 100 * k <= available /\ 100 * k <= 100 * Limit
    BY <1>1, <2>1, RuleAssumption
  <2>4. QED
    BY <2>1, <2>2, <2>3 DEF Admissible
<1>3. CASE ~(Discount(p) > MaxDiscount(amount))
  <2>1. MaxBurn(available, amount) = p
    BY <1>3 DEF MaxBurn
  <2>2. Discount(p) <= MaxDiscount(amount)
    BY <1>1, <1>3, MoneyIsNatural, SMT
  <2>3. QED
    BY <1>1, <2>1, <2>2 DEF Admissible
<1>4. QED
  BY <1>2, <1>3

(* calculateMaxBurn leaves no whole point on the table: every admissible   *)
(* whole number of points is at most what it returns.  (Of a fraction it   *)
(* may leave some: the cap by the invoice is floored, the others are not.) *)
THEOREM MaxBurnIsGreatest ==
    ASSUME NEW available \in Nat, NEW amount \in Nat, NEW points \in Nat,
           Admissible(100 * points, available, amount)
    PROVE  100 * points <= MaxBurn(available, amount)
<1> DEFINE p == Least(available, 100 * Limit)
           k == (amount * Percent) \div Factor
<1>1. p \in Nat /\ 100 * points <= p
  BY RuleAssumption, SMT DEF Least, Admissible
<1>2. CASE Discount(p) > MaxDiscount(amount)
  <2>1. k \in Nat /\ MaxDiscount(amount) < Discount(100 * (k + 1))
    BY <1>1, <1>2, ShareOfInvoice
  <2>2. MaxBurn(available, amount) = 100 * k
    BY <1>2 DEF MaxBurn
  <2>3. Factor \in Nat /\ Factor > 0
    BY <1>1, <1>2, CappedMeansPositiveFactor, RuleAssumption
  <2>4. Discount(100 * points) <= MaxDiscount(amount)
    BY DEF Admissible
  <2> HIDE DEF k, p
  <2>5. Discount(100 * points) < Discount(100 * (k + 1))
    BY <2>1, <2>4, MoneyIsNatural
  <2>6. 100 * points < 100 * (k + 1)
    BY <2>1, <2>3, <2>5, FactorCancels DEF Discount
  <2>7. QED
    BY <2>1, <2>2, <2>6
<1>3. CASE ~(Discount(p) > MaxDiscount(amount))
  BY <1>1, <1>3 DEF MaxBurn
<1>4. QED
  BY <1>2, <1>3

(* Whole points are closed under sum and difference.                       *)
LEMMA WholeSums ==
    ASSUME NEW a \in Int, NEW b \in Int, Whole(b)
    PROVE  /\ Whole(a) <=> Whole(a + b)
           /\ Whole(a) <=> Whole(a - b)
  BY DEF Whole

LEMMA WholeHundreds ==
    ASSUME NEW k \in Int
    PROVE  Whole(100 * k)
  BY DEF Whole

(* Of a whole number of points the rule admits a whole number.             *)
LEMMA MaxBurnIsWhole ==
    ASSUME NEW available \in Nat, Whole(available), NEW amount \in Nat
    PROVE  Whole(MaxBurn(available, amount))
<1> DEFINE p == Least(available, 100 * Limit)
           k == (amount * Percent) \div Factor
<1>1. p \in Nat /\ Whole(p)
  BY RuleAssumption, WholeHundreds DEF Least
<1>2. CASE Discount(p) > MaxDiscount(amount)
  <2>1. k \in Nat
    BY <1>1, <1>2, ShareOfInvoice
  <2>2. MaxBurn(available, amount) = 100 * k
    BY <1>2 DEF MaxBurn
  <2> HIDE DEF k
  <2>3. QED
    BY <2>1, <2>2, WholeHundreds
<1>3. CASE ~(Discount(p) > MaxDiscount(amount))
  BY <1>1, <1>3 DEF MaxBurn
<1>4. QED
  BY <1>2, <1>3

-----------------------------------------------------------------------------
(* Integer columns.                                                        *)

(* An int column holds whole points, within half a point of what it is     *)
(* given, and whole points exactly.                                        *)
LEMMA StoredIsNear ==
    ASSUME NEW p \in Int
    PROVE  /\ Stored(p) \in Int /\ p - 50 <= Stored(p) /\ Stored(p) <= p + 50
           /\ p \in Nat => Stored(p) \in Nat
  BY DEF Stored

LEMMA StoredIsWhole ==
    ASSUME NEW p \in Int
    PROVE  /\ Whole(Stored(p))
           /\ Whole(p) => Stored(p) = p
  BY DEF Stored, Whole

LEMMA StoredPlusWhole ==
    ASSUME NEW b \in Int, Whole(b), NEW x \in Int
    PROVE  Stored(b + x) = b + Stored(x)
  BY DEF Stored, Whole

LEMMA StoredMonotone ==
    ASSUME NEW p \in Int, NEW q \in Int, p <= q
    PROVE  Stored(p) <= Stored(q)
  BY DEF Stored

-----------------------------------------------------------------------------
(* Tables and entities.                                                    *)

(* Inserting or updating a well-formed row keeps a table well formed.      *)
LEMMA PutType ==
    ASSUME NEW table, NEW Ids, NEW Rows, NEW id \in Ids, NEW row \in Rows,
           DOMAIN table \subseteq Ids, table \in [DOMAIN table -> Rows]
    PROVE  /\ DOMAIN Put(table, id, row) \subseteq Ids
           /\ Put(table, id, row) \in [DOMAIN Put(table, id, row) -> Rows]
<1>1. DOMAIN Put(table, id, row) = DOMAIN table \cup {id}
  BY DEF Put
<1>2. ASSUME NEW i \in DOMAIN table \cup {id}
      PROVE  Put(table, id, row)[i] \in Rows
  BY <1>2 DEF Put
<1>3. Put(table, id, row) \in [DOMAIN table \cup {id} -> Rows]
  BY <1>2 DEF Put
<1>4. QED
  BY <1>1, <1>3

LEMMA NoTxType == NoTx \in TxRows
  BY RedemptionAssumption DEF NoTx, TxRows, NoInvoice

LEMMA NoOtpType == NoOtp \in OtpRows
  BY RedemptionAssumption DEF NoOtp, OtpRows

LEMMA BurnTxType ==
    ASSUME NEW points \in Nat, NEW amount \in Nat,
           NEW invoice \in Invoices \cup {NoInvoice}
    PROVE  BurnTx(points, amount, invoice) \in TxRows
  BY NoTxType DEF BurnTx, NoTx, TxRows

(* A row holds the entity it was saved from, its points rounded.           *)
LEMMA TxRowType ==
    ASSUME NEW ent \in TxRows
    PROVE  /\ TxRow(ent) \in TxRows
           /\ TxRow(ent).points = Stored(ent.points)
           /\ TxRow(ent).type = ent.type /\ TxRow(ent).status = ent.status
           /\ TxRow(ent).invoice = ent.invoice
           /\ TxRow(ent).source = ent.source
           /\ Whole(TxRow(ent).points)
<1>1. ent.points \in Nat
  BY DEF TxRows
<1>2. Stored(ent.points) \in Nat
  BY <1>1, StoredIsNear
<1>3. TxRow(ent) \in TxRows /\ TxRow(ent).points = Stored(ent.points)
  BY <1>2 DEF TxRow, TxRows
<1>4. QED
  BY <1>1, <1>3, StoredIsWhole DEF TxRow, TxRows

LEMMA WalletRowType ==
    ASSUME NEW available \in Int, NEW burned \in Nat
    PROVE  /\ WalletRow(available, burned) \in Wallets
           /\ WalletRow(available, burned).available = available
           /\ WalletRow(available, burned).burned = Stored(burned)
  BY StoredIsNear DEF WalletRow, Wallets

(* No points at all are a whole number of points.                          *)
LEMMA ZeroIsWhole == Whole(0)
  BY DEF Whole

LEMMA IdleOK == Idle \in Handlers /\ HandlerOK(Idle)
<1>1. NoWallet \in Wallets
  BY DEF NoWallet, Wallets
<1>2. Idle \in Handlers
  BY <1>1, NoTxType, NoOtpType, RedemptionAssumption DEF Idle, Handlers
<1>3. HandlerOK(Idle)
  BY DEF HandlerOK, Idle
<1>4. QED
  BY <1>2, <1>3

(* A step of one handler that leaves that handler in order leaves all of   *)
(* them in order.                                                          *)
LEMMA OneHandlerMoves ==
    ASSUME NEW r \in Requests, NEW h \in Handlers, HandlerOK(h),
           req \in [Requests -> Handlers],
           \A q \in Requests : HandlerOK(req[q]),
           req' = [req EXCEPT ![r] = h]
    PROVE  /\ req' \in [Requests -> Handlers]
           /\ \A q \in Requests : HandlerOK(req'[q])
<1>1. req' \in [Requests -> Handlers]
  OBVIOUS
<1>2. ASSUME NEW q \in Requests
      PROVE  HandlerOK(req'[q])
  <2>1. CASE q = r
    <3>1. req'[q] = h
      BY <2>1
    <3>2. QED
      BY <3>1
  <2>2. CASE q # r
    <3>1. req'[q] = req[q]
      BY <2>2
    <3>2. QED
      BY <3>1
  <2>3. QED
    BY <2>1, <2>2
<1>3. QED
  BY <1>1, <1>2

(* A handler that returns.                                                 *)
LEMMA ReturnOK ==
    ASSUME IInv, NEW r \in Requests, Return(r)
    PROVE  /\ req' \in [Requests -> Handlers]
           /\ \A q \in Requests : HandlerOK(req'[q])
  BY IdleOK, OneHandlerMoves DEF IInv, TypeOK, Return

(* A handler that goes on as h.                                            *)
LEMMA ContinueOK ==
    ASSUME IInv, NEW r \in Requests, NEW h \in Handlers, HandlerOK(h),
           Continue(r, h)
    PROVE  /\ req' \in [Requests -> Handlers]
           /\ \A q \in Requests : HandlerOK(req'[q])
  BY OneHandlerMoves DEF IInv, TypeOK, Continue

(* What IInv says of one handler.                                          *)
LEMMA HandlerFacts ==
    ASSUME IInv, NEW r \in Requests
    PROVE  req[r] \in Handlers /\ HandlerOK(req[r])
  BY DEF IInv, TypeOK

(* What a handler comes to hold: a new place, a code, a deduction.         *)
LEMMA HoldOtp ==
    ASSUME NEW h \in Handlers, NEW pc \in Steps, NEW o \in 0 .. MaxOtp,
           NEW row \in OtpRows
    PROVE  [h EXCEPT !.pc = pc, !.otp = o, !.row = row] \in Handlers
<1>1. [h EXCEPT !.pc = pc, !.otp = o] \in Handlers
  BY DEF Handlers
<1>2. \A g \in Handlers : [g EXCEPT !.row = row] \in Handlers
  BY DEF Handlers
<1>3. QED
  BY <1>1, <1>2

LEMMA HoldDeduction ==
    ASSUME NEW h \in Handlers, NEW pts \in Nat, NEW wal \in Wallets,
           NEW ent \in TxRows
    PROVE  /\ [h EXCEPT !.pc = "saveTx", !.pts = pts, !.wal = wal,
                        !.ent = ent] \in Handlers
           /\ [h EXCEPT !.pc = "saveTx", !.pts = pts, !.ent = ent]
                \in Handlers
<1>1. [h EXCEPT !.pc = "saveTx", !.pts = pts] \in Handlers
  BY DEF Handlers, Steps
<1>2. \A g \in Handlers : /\ [g EXCEPT !.wal = wal] \in Handlers
                          /\ [g EXCEPT !.ent = ent] \in Handlers
  BY DEF Handlers
<1>3. QED
  BY <1>1, <1>2

-----------------------------------------------------------------------------
(* Steps that read the database, decide, and change only the handler.      *)

(* What is left to show of such a step is that the handler is in order.    *)
LEMMA ReadOnlyStep ==
    ASSUME IInv,
           req' \in [Requests -> Handlers],
           \A q \in Requests : HandlerOK(req'[q]),
           UNCHANGED <<tenant, wallet, txs, otps, now, failures>>
    PROVE  IInv'
<1>1. TypeOK'
  BY DEF IInv, TypeOK
<1>2. GoodWallet(wallet)'
  BY DEF IInv, GoodWallet, Whole, Stored
<1>3. (\A q \in Requests : HandlerOK(req[q]))'
  BY DEF HandlerOK, GoodWallet, Admissible, Discount, MaxDiscount, Whole,
         Stored
<1>4. (\A t \in DOMAIN txs : Whole(txs[t].points))'
  BY DEF IInv, Whole
<1>5. QED
  BY <1>1, <1>2, <1>3, <1>4 DEF IInv

LEMMA BurningRequestOK ==
    ASSUME IInv, NEW r \in Requests, BurningRequest(r)
    PROVE  IInv'
<1>1. PICK amount \in Amounts, invoice \in Invoices \cup {NoInvoice} :
        Continue(r, [Idle EXCEPT !.pc = "addTx", !.api = "burning",
                       !.ent = BurnTx(MaxBurn(wallet.available, amount),
                                      amount, invoice)])
  BY DEF BurningRequest
<1> DEFINE ent == BurnTx(MaxBurn(wallet.available, amount), amount, invoice)
           h == [Idle EXCEPT !.pc = "addTx", !.api = "burning", !.ent = ent]
<1>2. wallet.available \in Nat /\ amount \in Nat
  BY RedemptionAssumption DEF IInv, TypeOK, GoodWallet, Wallets
<1>3. ent \in TxRows
  BY <1>2, MaxBurnIsAdmissible, BurnTxType
<1>4. h \in Handlers
  BY <1>3, IdleOK DEF Handlers, Steps
<1>5. HandlerOK(h)
  BY DEF HandlerOK, Idle
<1>6. QED
  BY <1>1, <1>4, <1>5, ContinueOK, ReadOnlyStep DEF BurningRequest

LEMMA FindOtpOK ==
    ASSUME IInv, NEW r \in Requests, FindOtp(r)
    PROVE  IInv'
<1>1. CASE \E o \in DOMAIN otps :
             Continue(r, [req[r] EXCEPT !.pc = "relink", !.otp = o,
                                        !.row = otps[o]])
  <2>1. PICK o \in DOMAIN otps :
          Continue(r, [req[r] EXCEPT !.pc = "relink", !.otp = o,
                                     !.row = otps[o]])
    BY <1>1
  <2> DEFINE h == [req[r] EXCEPT !.pc = "relink", !.otp = o, !.row = otps[o]]
  <2>2. o \in 0 .. MaxOtp /\ otps[o] \in OtpRows /\ o # 0
    BY RedemptionAssumption DEF IInv, TypeOK, OtpIds
  <2>3. h \in Handlers
    BY <2>2, HandlerFacts, HoldOtp DEF Steps
  <2>4. HandlerOK(h)
    BY <2>2, HandlerFacts DEF HandlerOK, Handlers
  <2>5. QED
    BY <2>1, <2>3, <2>4, ContinueOK, ReadOnlyStep DEF FindOtp
<1>2. CASE Continue(r, [req[r] EXCEPT !.pc = "newOtp"])
  <2> DEFINE h == [req[r] EXCEPT !.pc = "newOtp"]
  <2>1. h \in Handlers
    BY HandlerFacts DEF Handlers, Steps
  <2>2. HandlerOK(h)
    BY HandlerFacts DEF HandlerOK, Handlers
  <2>3. QED
    BY <1>2, <2>1, <2>2, ContinueOK, ReadOnlyStep DEF FindOtp
<1>3. QED
  BY <1>1, <1>2 DEF FindOtp

LEMMA ConfirmBeginOK ==
    ASSUME IInv, NEW r \in Requests, ConfirmBegin(r)
    PROVE  IInv'
<1>1. PICK t \in DOMAIN txs, points \in BurnPoints, api \in tenant.apis :
        Continue(r, [Idle EXCEPT
             !.pc = IF api = "checkout" /\ tenant.otp THEN "checkOtp"
                                                      ELSE "loadWallet",
             !.api = api, !.tx = t, !.pts = 100 * points, !.ent = txs[t]])
  BY DEF ConfirmBegin
<1> DEFINE h == [Idle EXCEPT
             !.pc = IF api = "checkout" /\ tenant.otp THEN "checkOtp"
                                                      ELSE "loadWallet",
             !.api = api, !.tx = t, !.pts = 100 * points, !.ent = txs[t]]
<1>2. /\ t \in 0 .. MaxTx /\ t # 0 /\ txs[t] \in TxRows
      /\ 100 * points \in Nat /\ Whole(100 * points)
      /\ api \in {"checkout", "burning"}
  BY RedemptionAssumption, WholeHundreds DEF IInv, TypeOK, TxIds
<1>3. h \in Handlers
  BY <1>2, IdleOK DEF Handlers, Steps, Idle
<1>4. HandlerOK(h)
  BY <1>2 DEF HandlerOK, Idle
<1>5. QED
  BY <1>1, <1>3, <1>4, ContinueOK, ReadOnlyStep DEF ConfirmBegin

LEMMA CheckOtpOK ==
    ASSUME IInv, NEW r \in Requests, CheckOtp(r)
    PROVE  IInv'
<1>1. CASE Return(r)
  BY <1>1, ReturnOK, ReadOnlyStep DEF CheckOtp
<1>2. CASE \E o \in DOMAIN otps :
             Continue(r, [req[r] EXCEPT !.pc = "consume", !.otp = o,
                                        !.row = otps[o]])
  <2>1. PICK o \in DOMAIN otps :
          Continue(r, [req[r] EXCEPT !.pc = "consume", !.otp = o,
                                     !.row = otps[o]])
    BY <1>2
  <2> DEFINE h == [req[r] EXCEPT !.pc = "consume", !.otp = o, !.row = otps[o]]
  <2>2. o \in 0 .. MaxOtp /\ otps[o] \in OtpRows /\ o # 0
    BY RedemptionAssumption DEF IInv, TypeOK, OtpIds
  <2>3. h \in Handlers
    BY <2>2, HandlerFacts, HoldOtp DEF Steps
  <2>4. req[r].pc = "checkOtp"
    BY DEF CheckOtp, At
  <2>5. HandlerOK(h)
    BY <2>2, <2>4, HandlerFacts DEF HandlerOK, Handlers
  <2>6. QED
    BY <2>1, <2>3, <2>5, ContinueOK, ReadOnlyStep DEF CheckOtp
<1>3. QED
  BY <1>1, <1>2 DEF CheckOtp

LEMMA CheckoutLoadWalletOK ==
    ASSUME IInv, NEW r \in Requests, CheckoutLoadWallet(r)
    PROVE  IInv'
<1> DEFINE points == Least(req[r].pts, wallet.available)
           ent == [req[r].ent EXCEPT !.points = points, !.status = "active"]
           h == [req[r] EXCEPT !.pc = "saveTx", !.pts = points,
                               !.wal = wallet, !.ent = ent]
<1>1. CASE Return(r)
  BY <1>1, ReturnOK, ReadOnlyStep DEF CheckoutLoadWallet
<1>2. CASE Continue(r, h)
  <2>1. /\ req[r] \in Handlers
        /\ wallet \in Wallets
        /\ GoodWallet(wallet)
        /\ req[r].api = "checkout"
    BY HandlerFacts DEF IInv, TypeOK, CheckoutLoadWallet
  <2>2. points \in Nat /\ points <= wallet.available
    BY <2>1 DEF Least, GoodWallet, Wallets, Handlers
  <2>w. Whole(points) \/ points = wallet.available
    BY HandlerFacts DEF HandlerOK, CheckoutLoadWallet, At, Least
  <2>3. ent \in TxRows
    <3>1. req[r].ent \in TxRows
      BY <2>1 DEF Handlers
    <3>2. QED
      BY <2>2, <3>1 DEF TxRows
  <2>4. h \in Handlers
    BY <2>1, <2>2, <2>3, HoldDeduction
  <2>5. HandlerOK(h)
    <3>1. /\ h.pc = "saveTx" /\ h.pts = points /\ h.wal = wallet
          /\ h.api = "checkout" /\ h.tx = req[r].tx
      BY <2>1 DEF Handlers
    <3>2. req[r].tx # 0
      BY HandlerFacts DEF HandlerOK, CheckoutLoadWallet, At
    <3> HIDE DEF h
    <3>3. QED
      BY <2>1, <2>2, <2>w, <3>1, <3>2 DEF HandlerOK
  <2>6. QED
    BY <1>2, <2>4, <2>5, ContinueOK, ReadOnlyStep DEF CheckoutLoadWallet
<1>3. QED
  BY <1>1, <1>2 DEF CheckoutLoadWallet

LEMMA BurningLoadWalletOK ==
    ASSUME IInv, NEW r \in Requests, BurningLoadWallet(r)
    PROVE  IInv'
<1> DEFINE h == [req[r] EXCEPT !.wal = wallet,
                   !.pc = IF tenant.otp THEN "checkOtp" ELSE "apply"]
<1>1. /\ req[r] \in Handlers
      /\ wallet \in Wallets
      /\ GoodWallet(wallet)
  BY HandlerFacts DEF IInv, TypeOK
<1>2. h \in Handlers
  BY <1>1 DEF Handlers, Steps
<1>3. req[r].tx # 0 /\ Whole(req[r].pts)
  BY HandlerFacts DEF HandlerOK, BurningLoadWallet, At
<1>4. HandlerOK(h)
  BY <1>1, <1>3 DEF HandlerOK, Handlers
<1>5. QED
  BY <1>2, <1>4, ContinueOK, ReadOnlyStep DEF BurningLoadWallet

LEMMA BurningApplyOK ==
    ASSUME IInv, NEW r \in Requests, BurningApply(r)
    PROVE  IInv'
<1> DEFINE applied == Least(req[r].wal.available, req[r].pts)
           pts == MaxBurn(applied, req[r].ent.amount)
           ent == [req[r].ent EXCEPT !.points = applied, !.status = "active"]
           h == [req[r] EXCEPT !.pc = "saveTx", !.pts = pts, !.ent = ent]
<1>1. CASE Return(r)
  BY <1>1, ReturnOK, ReadOnlyStep DEF BurningApply
<1>2. CASE ~(req[r].wal.available < req[r].pts) /\ Continue(r, h)
  <2>1. /\ req[r] \in Handlers
        /\ req[r].wal \in Wallets
        /\ GoodWallet(req[r].wal)
        /\ req[r].tx # 0 /\ Whole(req[r].pts)
        /\ ~(req[r].wal.available < req[r].pts)
    BY <1>2, HandlerFacts DEF HandlerOK, Handlers, BurningApply, At
  <2>2. applied \in Nat /\ applied <= req[r].wal.available
    BY <2>1 DEF Least, GoodWallet, Wallets, Handlers
  <2>3. req[r].ent \in TxRows /\ req[r].ent.amount \in Nat
    BY <2>1 DEF Handlers, TxRows
  <2>4. pts \in Nat /\ Admissible(pts, applied, req[r].ent.amount)
    BY <2>2, <2>3, MaxBurnIsAdmissible
  <2>w. Whole(pts)
    <3>1. applied = req[r].pts
      BY <2>1 DEF Least, Wallets, Handlers
    <3>2. QED
      BY <2>1, <2>2, <2>3, <3>1, MaxBurnIsWhole
  <2>5. /\ pts <= req[r].wal.available
        /\ Admissible(pts, req[r].wal.available, req[r].ent.amount)
    <3> HIDE DEF pts, applied
    <3>1. QED
      BY <2>1, <2>2, <2>4, SMT DEF Admissible, Wallets
  <2>6. ent \in TxRows /\ ent.amount = req[r].ent.amount
    BY <2>2, <2>3 DEF TxRows
  <2>7. h \in Handlers
    BY <2>1, <2>4, <2>6, HoldDeduction
  <2>8. HandlerOK(h)
    <3>1. /\ h.pc = "saveTx" /\ h.pts = pts /\ h.wal = req[r].wal
          /\ h.tx = req[r].tx /\ h.ent = ent
      BY <2>1 DEF Handlers
    <3> HIDE DEF h, pts, ent
    <3>2. QED
      BY <2>1, <2>5, <2>6, <2>w, <3>1 DEF HandlerOK
  <2>9. QED
    BY <1>2, <2>7, <2>8, ContinueOK, ReadOnlyStep DEF BurningApply
<1>3. QED
  BY <1>1, <1>2 DEF BurningApply

LEMMA RefundBeginOK ==
    ASSUME IInv, NEW r \in Requests, RefundBegin(r)
    PROVE  IInv'
<1>1. PICK t \in DOMAIN txs :
        Continue(r, [Idle EXCEPT !.pc = "addRefund", !.tx = t,
             !.pts = txs[t].points,
             !.ent = [txs[t] EXCEPT !.type = "adjustment", !.source = t]])
  BY DEF RefundBegin
<1> DEFINE ent == [txs[t] EXCEPT !.type = "adjustment", !.source = t]
           h == [Idle EXCEPT !.pc = "addRefund", !.tx = t,
                             !.pts = txs[t].points, !.ent = ent]
<1>2. t \in 0 .. MaxTx /\ txs[t] \in TxRows
  BY RedemptionAssumption DEF IInv, TypeOK, TxIds
<1>3. ent \in TxRows /\ txs[t].points \in Nat
  BY <1>2 DEF TxRows
<1>4. h \in Handlers
  BY <1>2, <1>3, IdleOK DEF Handlers, Steps, Idle
<1>5. Whole(txs[t].points)
  BY DEF IInv
<1>6. HandlerOK(h)
  BY <1>5 DEF HandlerOK, Idle
<1>7. QED
  BY <1>1, <1>4, <1>6, ContinueOK, ReadOnlyStep DEF RefundBegin

LEMMA RefundLoadWalletOK ==
    ASSUME IInv, NEW r \in Requests, RefundLoadWallet(r)
    PROVE  IInv'
<1> DEFINE h == [req[r] EXCEPT !.pc = "saveRefund", !.wal = wallet]
<1>1. /\ req[r] \in Handlers
      /\ wallet \in Wallets
      /\ GoodWallet(wallet)
  BY HandlerFacts DEF IInv, TypeOK
<1>2. h \in Handlers
  BY <1>1 DEF Handlers, Steps
<1>3. Whole(req[r].pts)
  BY HandlerFacts DEF HandlerOK, RefundLoadWallet, At
<1>4. HandlerOK(h)
  BY <1>1, <1>3 DEF HandlerOK, Handlers
<1>5. QED
  BY <1>2, <1>4, ContinueOK, ReadOnlyStep DEF RefundLoadWallet

(* otp/generate and otp/verify, up to the save.                            *)
LEMMA HoldOtpOnly ==
    ASSUME NEW pc \in {"touch", "consume"}, NEW o \in DOMAIN otps, IInv
    PROVE  LET h == [Idle EXCEPT !.pc = pc, !.otp = o, !.row = otps[o]]
           IN  h \in Handlers /\ HandlerOK(h)
<1>1. o \in 0 .. MaxOtp /\ otps[o] \in OtpRows /\ o # 0
  BY RedemptionAssumption DEF IInv, TypeOK, OtpIds
<1>2. [Idle EXCEPT !.pc = pc, !.otp = o, !.row = otps[o]] \in Handlers
  BY <1>1, IdleOK, HoldOtp DEF Steps
<1>3. HandlerOK([Idle EXCEPT !.pc = pc, !.otp = o, !.row = otps[o]])
  BY <1>1, ZeroIsWhole DEF HandlerOK, Idle
<1>4. QED
  BY <1>2, <1>3

LEMMA GenerateOtpOK ==
    ASSUME IInv, NEW r \in Requests, GenerateOtp(r)
    PROVE  IInv'
<1>1. CASE \E o \in DOMAIN otps :
             Continue(r, [Idle EXCEPT !.pc = "touch", !.otp = o,
                                      !.row = otps[o]])
  BY <1>1, HoldOtpOnly, ContinueOK, ReadOnlyStep DEF GenerateOtp
<1>2. CASE Continue(r, [Idle EXCEPT !.pc = "genFind"])
  <2> DEFINE h == [Idle EXCEPT !.pc = "genFind"]
  <2>1. h \in Handlers
    BY IdleOK DEF Handlers, Steps
  <2>2. HandlerOK(h)
    BY DEF HandlerOK, Idle
  <2>3. QED
    BY <1>2, <2>1, <2>2, ContinueOK, ReadOnlyStep DEF GenerateOtp
<1>3. QED
  BY <1>1, <1>2 DEF GenerateOtp

LEMMA VerifyOtpOK ==
    ASSUME IInv, NEW r \in Requests, VerifyOtp(r)
    PROVE  IInv'
  BY HoldOtpOnly, ContinueOK, ReadOnlyStep DEF VerifyOtp

LEMMA GenerateFindExpiredOK ==
    ASSUME IInv, NEW r \in Requests, GenerateFindExpired(r)
    PROVE  IInv'
<1>1. CASE \E o \in DOMAIN otps :
             Continue(r, [req[r] EXCEPT !.tx = otps[o].tx,
               !.pc = IF otps[o].tx = 0 THEN "newOtp" ELSE "genCheck"])
  <2>1. PICK o \in DOMAIN otps :
          Continue(r, [req[r] EXCEPT !.tx = otps[o].tx,
            !.pc = IF otps[o].tx = 0 THEN "newOtp" ELSE "genCheck"])
    BY <1>1
  <2> DEFINE h == [req[r] EXCEPT !.tx = otps[o].tx,
                     !.pc = IF otps[o].tx = 0 THEN "newOtp" ELSE "genCheck"]
  <2>2. otps[o].tx \in 0 .. MaxTx
    BY DEF IInv, TypeOK, OtpRows
  <2>3. h \in Handlers
    BY <2>2, HandlerFacts DEF Handlers, Steps
  <2>4. HandlerOK(h)
    BY HandlerFacts DEF HandlerOK, Handlers
  <2>5. QED
    BY <2>1, <2>3, <2>4, ContinueOK, ReadOnlyStep DEF GenerateFindExpired
<1>2. CASE Continue(r, [req[r] EXCEPT !.pc = "newOtp"])
  <2> DEFINE h == [req[r] EXCEPT !.pc = "newOtp"]
  <2>1. h \in Handlers
    BY HandlerFacts DEF Handlers, Steps
  <2>2. HandlerOK(h)
    BY HandlerFacts DEF HandlerOK, Handlers
  <2>3. QED
    BY <1>2, <2>1, <2>2, ContinueOK, ReadOnlyStep DEF GenerateFindExpired
<1>3. QED
  BY <1>1, <1>2 DEF GenerateFindExpired

LEMMA GenerateCheckPendingOK ==
    ASSUME IInv, NEW r \in Requests, GenerateCheckPending(r)
    PROVE  IInv'
<1> DEFINE tx == IF txs[req[r].tx].status = "not_confirmed"
                 THEN req[r].tx ELSE 0
           h == [req[r] EXCEPT !.pc = "newOtp", !.tx = tx]
<1>1. tx \in 0 .. MaxTx
  BY HandlerFacts, RedemptionAssumption DEF Handlers
<1>2. h \in Handlers
  BY <1>1, HandlerFacts DEF Handlers, Steps
<1>3. HandlerOK(h)
  BY HandlerFacts DEF HandlerOK, Handlers
<1>4. Continue(r, h)
  BY DEF GenerateCheckPending
<1>5. QED
  BY <1>2, <1>3, <1>4, ContinueOK, ReadOnlyStep DEF GenerateCheckPending

-----------------------------------------------------------------------------
(* Steps that write one row of one table.                                  *)

LEMMA WriteTx ==
    ASSUME IInv,
           NEW t \in TxIds, NEW row \in TxRows, Whole(row.points),
           txs' = Put(txs, t, row),
           req' \in [Requests -> Handlers],
           \A q \in Requests : HandlerOK(req'[q]),
           UNCHANGED <<tenant, wallet, otps, now, failures>>
    PROVE  IInv'
<1>1. /\ DOMAIN txs' \subseteq TxIds
      /\ txs' \in [DOMAIN txs' -> TxRows]
  BY PutType DEF IInv, TypeOK
<1>2. TypeOK'
  BY <1>1 DEF IInv, TypeOK
<1>3. GoodWallet(wallet)'
  BY DEF IInv, GoodWallet, Whole, Stored
<1>4. (\A q \in Requests : HandlerOK(req[q]))'
  BY DEF HandlerOK, GoodWallet, Admissible, Discount, MaxDiscount, Whole,
         Stored
<1>5. (\A i \in DOMAIN txs : Whole(txs[i].points))'
  <2>1. ASSUME NEW i \in DOMAIN txs'
        PROVE  Whole(txs'[i].points)
    <3>1. CASE i = t
      <4>1. txs'[i] = row
        BY <3>1 DEF Put
      <4>2. QED
        BY <4>1
    <3>2. CASE i # t
      <4>1. i \in DOMAIN txs /\ txs'[i] = txs[i]
        BY <3>2 DEF Put
      <4>2. QED
        BY <4>1 DEF IInv
    <3>3. QED
      BY <3>1, <3>2
  <2>2. QED
    BY <2>1 DEF Whole
<1>6. QED
  BY <1>2, <1>3, <1>4, <1>5 DEF IInv

LEMMA WriteOtp ==
    ASSUME IInv,
           NEW o \in OtpIds, NEW row \in OtpRows, otps' = Put(otps, o, row),
           req' \in [Requests -> Handlers],
           \A q \in Requests : HandlerOK(req'[q]),
           UNCHANGED <<tenant, wallet, txs, now, failures>>
    PROVE  IInv'
<1>1. /\ DOMAIN otps' \subseteq OtpIds
      /\ otps' \in [DOMAIN otps' -> OtpRows]
  BY PutType DEF IInv, TypeOK
<1>2. TypeOK'
  BY <1>1 DEF IInv, TypeOK
<1>3. GoodWallet(wallet)'
  BY DEF IInv, GoodWallet, Whole, Stored
<1>4. (\A q \in Requests : HandlerOK(req[q]))'
  BY DEF HandlerOK, GoodWallet, Admissible, Discount, MaxDiscount, Whole,
         Stored
<1>5. (\A t \in DOMAIN txs : Whole(txs[t].points))'
  BY DEF IInv, Whole
<1>6. QED
  BY <1>2, <1>3, <1>4, <1>5 DEF IInv

LEMMA WriteWallet ==
    ASSUME IInv,
           wallet' \in Wallets, GoodWallet(wallet'),
           req' \in [Requests -> Handlers],
           \A q \in Requests : HandlerOK(req'[q]),
           UNCHANGED <<tenant, txs, otps, now, failures>>
    PROVE  IInv'
<1>1. TypeOK'
  BY DEF IInv, TypeOK
<1>2. GoodWallet(wallet)'
  BY DEF GoodWallet, Whole, Stored
<1>3. (\A q \in Requests : HandlerOK(req[q]))'
  BY DEF HandlerOK, GoodWallet, Admissible, Discount, MaxDiscount, Whole,
         Stored
<1>4. (\A t \in DOMAIN txs : Whole(txs[t].points))'
  BY DEF IInv, Whole
<1>5. QED
  BY <1>1, <1>2, <1>3, <1>4 DEF IInv

LEMMA CheckoutRequestOK ==
    ASSUME IInv, NEW r \in Requests, CheckoutRequest(r)
    PROVE  IInv'
<1>1. PICK amount \in Amounts, invoice \in Invoices \cup {NoInvoice},
           t \in TxIds :
        /\ txs' = Put(txs, t, BurnTx(0, amount, invoice))
        /\ IF tenant.otp
           THEN Continue(r, [Idle EXCEPT !.pc = "newOtp", !.tx = t])
           ELSE UNCHANGED req
  BY DEF CheckoutRequest
<1>2. /\ BurnTx(0, amount, invoice) \in TxRows
      /\ Whole(BurnTx(0, amount, invoice).points)
  BY RedemptionAssumption, BurnTxType, ZeroIsWhole DEF BurnTx, NoTx
<1>3. /\ req' \in [Requests -> Handlers]
      /\ \A q \in Requests : HandlerOK(req'[q])
  <2>1. CASE UNCHANGED req
    BY <2>1 DEF IInv, TypeOK
  <2>2. CASE Continue(r, [Idle EXCEPT !.pc = "newOtp", !.tx = t])
    <3> DEFINE h == [Idle EXCEPT !.pc = "newOtp", !.tx = t]
    <3>1. t \in 0 .. MaxTx
      BY DEF TxIds
    <3>2. h \in Handlers
      BY <3>1, IdleOK DEF Handlers, Steps
    <3>3. HandlerOK(h)
      BY DEF HandlerOK, Idle
    <3>4. QED
      BY <2>2, <3>2, <3>3, ContinueOK
  <2>3. QED
    BY <1>1, <2>1, <2>2
<1>4. QED
  BY <1>1, <1>2, <1>3, WriteTx DEF CheckoutRequest

LEMMA AddTransactionOK ==
    ASSUME IInv, NEW r \in Requests, AddTransaction(r)
    PROVE  IInv'
<1>1. CASE Return(r) /\ UNCHANGED txs
  BY <1>1, ReturnOK, ReadOnlyStep DEF AddTransaction
<1>2. CASE \E t \in TxIds :
             /\ txs' = Put(txs, t, TxRow(req[r].ent))
             /\ IF tenant.otp
                THEN Continue(r, [req[r] EXCEPT !.pc = "findOtp", !.tx = t])
                ELSE Return(r)
  <2>1. PICK t \in TxIds :
             /\ txs' = Put(txs, t, TxRow(req[r].ent))
             /\ IF tenant.otp
                THEN Continue(r, [req[r] EXCEPT !.pc = "findOtp", !.tx = t])
                ELSE Return(r)
    BY <1>2
  <2>2. TxRow(req[r].ent) \in TxRows /\ Whole(TxRow(req[r].ent).points)
    BY HandlerFacts, TxRowType DEF Handlers
  <2>3. /\ req' \in [Requests -> Handlers]
        /\ \A q \in Requests : HandlerOK(req'[q])
    <3>1. CASE Return(r)
      BY <3>1, ReturnOK
    <3>2. CASE Continue(r, [req[r] EXCEPT !.pc = "findOtp", !.tx = t])
      <4> DEFINE h == [req[r] EXCEPT !.pc = "findOtp", !.tx = t]
      <4>1. t \in 0 .. MaxTx
        BY DEF TxIds
      <4>2. h \in Handlers
        BY <4>1, HandlerFacts DEF Handlers, Steps
      <4>3. HandlerOK(h)
        BY HandlerFacts DEF HandlerOK, Handlers
      <4>4. QED
        BY <3>2, <4>2, <4>3, ContinueOK
    <3>3. QED
      BY <2>1, <3>1, <3>2
  <2>4. QED
    BY <2>1, <2>2, <2>3, WriteTx DEF AddTransaction
<1>3. QED
  BY <1>1, <1>2 DEF AddTransaction

LEMMA SaveTxOK ==
    ASSUME IInv, NEW r \in Requests, SaveTx(r)
    PROVE  IInv'
<1> DEFINE h == [req[r] EXCEPT !.pc = "saveWallet"]
<1>1. /\ req[r] \in Handlers /\ HandlerOK(req[r]) /\ req[r].pc = "saveTx"
  BY HandlerFacts DEF SaveTx, At
<1>2. req[r].tx \in TxIds /\ req[r].ent \in TxRows
  BY <1>1, RedemptionAssumption DEF Handlers, HandlerOK, TxIds
<1>3. h \in Handlers
  BY <1>1 DEF Handlers, Steps
<1>4. HandlerOK(h)
  <2>1. /\ h.pc = "saveWallet" /\ h.wal = req[r].wal /\ h.pts = req[r].pts
        /\ h.api = req[r].api /\ h.ent = req[r].ent
    BY <1>1 DEF Handlers
  <2> HIDE DEF h
  <2>2. QED
    BY <1>1, <2>1 DEF HandlerOK
<1>5. /\ req' \in [Requests -> Handlers]
      /\ \A q \in Requests : HandlerOK(req'[q])
  BY <1>3, <1>4, ContinueOK DEF SaveTx
<1>6. TxRow(req[r].ent) \in TxRows /\ Whole(TxRow(req[r].ent).points)
  BY <1>2, TxRowType
<1>7. QED
  BY <1>2, <1>5, <1>6, WriteTx DEF SaveTx

LEMMA AddRefundOK ==
    ASSUME IInv, NEW r \in Requests, AddRefund(r)
    PROVE  IInv'
<1> DEFINE h == [req[r] EXCEPT !.pc = "refundWallet"]
<1>1. PICK t \in TxIds : txs' = Put(txs, t, TxRow(req[r].ent))
  BY DEF AddRefund
<1>2. TxRow(req[r].ent) \in TxRows /\ Whole(TxRow(req[r].ent).points)
  BY HandlerFacts, TxRowType DEF Handlers
<1>3. h \in Handlers
  BY HandlerFacts DEF Handlers, Steps
<1>4. HandlerOK(h)
  BY HandlerFacts DEF HandlerOK, Handlers, AddRefund, At
<1>5. /\ req' \in [Requests -> Handlers]
      /\ \A q \in Requests : HandlerOK(req'[q])
  BY <1>3, <1>4, ContinueOK DEF AddRefund
<1>6. QED
  BY <1>1, <1>2, <1>5, WriteTx DEF AddRefund

LEMMA RelinkOtpOK ==
    ASSUME IInv, NEW r \in Requests, RelinkOtp(r)
    PROVE  IInv'
<1>1. /\ req[r] \in Handlers /\ req[r].otp # 0
  BY HandlerFacts DEF HandlerOK, RelinkOtp, At
<1>2. /\ req[r].otp \in OtpIds
      /\ [req[r].row EXCEPT !.tx = req[r].tx] \in OtpRows
  BY <1>1, RedemptionAssumption DEF Handlers, OtpRows, OtpIds
<1>3. QED
  BY <1>2, ReturnOK, WriteOtp DEF RelinkOtp

LEMMA NewOtpOK ==
    ASSUME IInv, NEW r \in Requests, NewOtp(r)
    PROVE  IInv'
<1>1. PICK o \in OtpIds :
        otps' = Put(otps, o, [tx |-> req[r].tx, used |-> FALSE,
                              expires |-> now + TTL])
  BY DEF NewOtp
<1>2. [tx |-> req[r].tx, used |-> FALSE, expires |-> now + TTL] \in OtpRows
  <2>1. req[r].tx \in 0 .. MaxTx
    BY HandlerFacts DEF Handlers
  <2>2. now + TTL \in Nat
    BY RedemptionAssumption DEF IInv, TypeOK
  <2>3. QED
    BY <2>1, <2>2 DEF OtpRows
<1>3. QED
  BY <1>1, <1>2, ReturnOK, WriteOtp DEF NewOtp

LEMMA ConsumeOtpOK ==
    ASSUME IInv, NEW r \in Requests, ConsumeOtp(r)
    PROVE  IInv'
<1> DEFINE h == AfterOtp(req[r])
<1>1. /\ req[r] \in Handlers /\ HandlerOK(req[r]) /\ req[r].pc = "consume"
  BY HandlerFacts DEF ConsumeOtp, At
<1>2. /\ req[r].otp \in OtpIds
      /\ [req[r].row EXCEPT !.used = TRUE] \in OtpRows
  <2>1. req[r].otp \in 0 .. MaxOtp /\ req[r].row \in OtpRows
    BY <1>1 DEF Handlers
  <2>2. req[r].otp # 0
    BY <1>1 DEF HandlerOK
  <2>3. req[r].otp \in OtpIds
    BY <2>1, <2>2, RedemptionAssumption DEF OtpIds
  <2>4. [req[r].row EXCEPT !.used = TRUE] \in OtpRows
    BY <2>1 DEF OtpRows
  <2>5. QED
    BY <2>3, <2>4
<1>3. h \in Handlers /\ HandlerOK(h)
  <2>1. CASE req[r].tx = 0
    BY <2>1, IdleOK DEF AfterOtp
  <2>2. CASE req[r].tx # 0
    <3>1. h = [req[r] EXCEPT !.pc = IF req[r].api = "checkout"
                                    THEN "loadWallet" ELSE "apply"]
      BY <2>2 DEF AfterOtp
    <3>2. h \in Handlers
      BY <1>1, <3>1 DEF Handlers, Steps
    <3>3. HandlerOK(h)
      BY <1>1, <2>2, <3>1 DEF HandlerOK, Handlers
    <3>4. QED
      BY <3>2, <3>3
  <2>3. QED
    BY <2>1, <2>2
<1>4. /\ req' \in [Requests -> Handlers]
      /\ \A q \in Requests : HandlerOK(req'[q])
  BY <1>3, ContinueOK DEF ConsumeOtp
<1>5. QED
  BY <1>2, <1>4, WriteOtp DEF ConsumeOtp

LEMMA TouchOtpOK ==
    ASSUME IInv, NEW r \in Requests, TouchOtp(r)
    PROVE  IInv'
<1>1. /\ req[r] \in Handlers /\ req[r].otp # 0
  BY HandlerFacts DEF HandlerOK, TouchOtp, At
<1>2. req[r].otp \in OtpIds /\ req[r].row \in OtpRows
  BY <1>1, RedemptionAssumption DEF Handlers, OtpIds
<1>3. QED
  BY <1>2, ReturnOK, WriteOtp DEF TouchOtp

(* A wallet row is good for either reason.                                 *)
LEMMA GoodRow ==
    ASSUME NEW a \in Int, NEW b \in Nat, a >= 0, Whole(b),
           \/ Whole(a - InitialPoints) /\ a + b >= InitialPoints
           \/ Whole(a) /\ a + b >= Stored(InitialPoints)
    PROVE  LET v == WalletRow(a, b)
           IN  v \in Wallets /\ GoodWallet(v) /\ v.available = a /\ v.burned = b
<1> DEFINE v == WalletRow(a, b)
<1>1. Stored(b) = b
  BY StoredIsWhole
<1>2. v \in Wallets /\ v.available = a /\ v.burned = b
  BY <1>1, WalletRowType
<1> HIDE DEF v
<1>3. GoodWallet(v)
  BY <1>2, Zenon DEF GoodWallet
<1>4. QED
  BY <1>2, <1>3 DEF v

(* The deduction is covered by the copy of the wallet it is taken from.    *)
(* Whole points move from one column to the other; a fraction is only ever *)
(* deducted with all the rest, and the burned total rounds the whole.      *)
LEMMA GoodDeduction ==
    ASSUME NEW w \in Wallets, GoodWallet(w), NEW pts \in Nat,
           pts <= w.available, Whole(pts) \/ pts = w.available
    PROVE  LET v == WalletRow(w.available - pts, w.burned + pts)
           IN  v \in Wallets /\ GoodWallet(v)
<1> DEFINE a == w.available
           b == w.burned
<1>1. /\ a \in Int /\ b \in Nat /\ b \in Int /\ pts \in Int
      /\ InitialPoints \in Nat /\ InitialPoints \in Int
  BY RedemptionAssumption DEF Wallets
<1>2. a >= 0 /\ Whole(b) /\ pts <= a
  BY DEF GoodWallet
<1>3. /\ a - pts \in Int /\ b + pts \in Nat /\ b + pts \in Int
      /\ a - InitialPoints \in Int /\ a - pts >= 0
      /\ Stored(InitialPoints) \in Int /\ Stored(pts) \in Int
      /\ Stored(b + pts) \in Nat
  BY <1>1, <1>2, StoredIsNear
<1>4. \/ Whole(a - InitialPoints) /\ a + b >= InitialPoints
      \/ Whole(a) /\ a + b >= Stored(InitialPoints)
  BY DEF GoodWallet
<1>5. Whole(pts) \/ pts = a
  OBVIOUS
<1> HIDE DEF a, b
<1>6. CASE Whole(pts)
  <2>1. Whole(b + pts)
    BY <1>1, <1>2, <1>6, WholeSums, Zenon
  <2>2. CASE Whole(a - InitialPoints) /\ a + b >= InitialPoints
    <3>1. Whole((a - InitialPoints) - pts)
      BY <1>1, <1>3, <1>6, <2>2, WholeSums, Zenon
    <3>2. (a - InitialPoints) - pts = (a - pts) - InitialPoints
      BY <1>1
    <3>3. Whole((a - pts) - InitialPoints)
      BY <3>1, <3>2, Zenon
    <3>4. (a - pts) + (b + pts) >= InitialPoints
      BY <1>1, <2>2
    <3>5. QED
      BY <1>3, <2>1, <3>3, <3>4, GoodRow DEF a, b
  <2>3. CASE Whole(a) /\ a + b >= Stored(InitialPoints)
    <3>1. Whole(a - pts)
      BY <1>1, <1>6, <2>3, WholeSums, Zenon
    <3>2. (a - pts) + (b + pts) >= Stored(InitialPoints)
      BY <1>1, <1>3, <2>3
    <3>3. QED
      BY <1>3, <2>1, <3>1, <3>2, GoodRow DEF a, b
  <2>4. QED
    BY <1>4, <2>2, <2>3
<1>7. CASE pts = a /\ ~Whole(pts)
  <2>1. a - pts = 0
    BY <1>1, <1>7
  <2>2. a + b >= InitialPoints
    BY <1>4, <1>7
  <2>3. Stored(InitialPoints) <= Stored(b + pts)
    BY <1>1, <1>3, <1>7, <2>2, StoredMonotone
  <2>4. Whole(Stored(b + pts))
    BY <1>3, StoredIsWhole, Zenon
  <2>5. 0 + Stored(b + pts) >= Stored(InitialPoints)
    BY <1>3, <2>3
  <2>6. WalletRow(a - pts, b + pts) = WalletRow(0, Stored(b + pts))
    <3>1. Stored(Stored(b + pts)) = Stored(b + pts)
      BY <1>3, <2>4, StoredIsWhole
    <3>2. QED
      BY <2>1, <3>1 DEF WalletRow
  <2>7. QED
    BY <1>3, <2>4, <2>5, <2>6, ZeroIsWhole, GoodRow DEF a, b
<1>8. QED
  BY <1>5, <1>6, <1>7

LEMMA SaveWalletOK ==
    ASSUME IInv, NEW r \in Requests, SaveWallet(r)
    PROVE  IInv'
<1>1. /\ req[r] \in Handlers
      /\ GoodWallet(req[r].wal)
      /\ req[r].pts <= req[r].wal.available
      /\ Whole(req[r].pts) \/ req[r].pts = req[r].wal.available
  BY HandlerFacts DEF HandlerOK, SaveWallet, At
<1>2. req[r].pts \in Nat /\ req[r].wal \in Wallets
  BY <1>1 DEF Handlers
<1>3. wallet' \in Wallets /\ GoodWallet(wallet')
  BY <1>1, <1>2, GoodDeduction DEF SaveWallet
<1>4. QED
  BY <1>3, ReturnOK, WriteWallet DEF SaveWallet

(* What a refund adds to the balance it takes from total_burned_points, or *)
(* more than that column holds.                                            *)
LEMMA GoodRefund ==
    ASSUME NEW w \in Wallets, GoodWallet(w), NEW pts \in Nat, Whole(pts)
    PROVE  LET left == w.burned - pts
               v == WalletRow(w.available + pts, IF left < 0 THEN 0 ELSE left)
           IN  v \in Wallets /\ GoodWallet(v)
<1> DEFINE a == w.available
           b == w.burned
           n == IF b - pts < 0 THEN 0 ELSE b - pts
<1>1. /\ a \in Int /\ b \in Nat /\ b \in Int /\ pts \in Int
      /\ InitialPoints \in Nat /\ InitialPoints \in Int
  BY RedemptionAssumption DEF Wallets
<1>2. a >= 0 /\ Whole(b)
  BY DEF GoodWallet
<1>3. \/ Whole(a - InitialPoints) /\ a + b >= InitialPoints
      \/ Whole(a) /\ a + b >= Stored(InitialPoints)
  BY DEF GoodWallet
<1> HIDE DEF a, b
<1>4. /\ a + pts \in Int /\ a + pts >= 0 /\ a - InitialPoints \in Int
      /\ b - pts \in Int /\ n \in Nat /\ n >= b - pts
      /\ Stored(InitialPoints) \in Int
  BY <1>1, <1>2, StoredIsNear
<1>5. Whole(n)
  <2>1. Whole(b - pts)
    BY <1>1, <1>2, WholeSums, Zenon
  <2>2. QED
    BY <2>1, ZeroIsWhole
<1> HIDE DEF n
<1>6. CASE Whole(a - InitialPoints) /\ a + b >= InitialPoints
  <2>1. Whole((a - InitialPoints) + pts)
    BY <1>1, <1>4, <1>6, WholeSums, Zenon
  <2>2. (a - InitialPoints) + pts = (a + pts) - InitialPoints
    BY <1>1
  <2>3. Whole((a + pts) - InitialPoints)
    BY <2>1, <2>2, Zenon
  <2>4. (a + pts) + n >= InitialPoints
    BY <1>1, <1>4, <1>6
  <2>5. QED
    BY <1>4, <1>5, <2>3, <2>4, GoodRow DEF a, b, n
<1>7. CASE Whole(a) /\ a + b >= Stored(InitialPoints)
  <2>1. Whole(a + pts)
    BY <1>1, <1>7, WholeSums, Zenon
  <2>2. (a + pts) + n >= Stored(InitialPoints)
    BY <1>1, <1>4, <1>7
  <2>3. QED
    BY <1>4, <1>5, <2>1, <2>2, GoodRow DEF a, b, n
<1>8. QED
  BY <1>3, <1>6, <1>7

LEMMA SaveRefundOK ==
    ASSUME IInv, NEW r \in Requests, SaveRefund(r)
    PROVE  IInv'
<1>1. req[r] \in Handlers /\ GoodWallet(req[r].wal) /\ Whole(req[r].pts)
  BY HandlerFacts DEF HandlerOK, SaveRefund, At
<1>2. req[r].pts \in Nat /\ req[r].wal \in Wallets
  BY <1>1 DEF Handlers
<1>3. wallet' \in Wallets /\ GoodWallet(wallet')
  BY <1>1, <1>2, GoodRefund DEF SaveRefund
<1>4. QED
  BY <1>3, ReturnOK, WriteWallet DEF SaveRefund

LEMMA FailOK ==
    ASSUME IInv, NEW r \in Requests, Fail(r)
    PROVE  IInv'
<1>1. /\ req' \in [Requests -> Handlers]
      /\ \A q \in Requests : HandlerOK(req'[q])
  BY ReturnOK DEF Fail
<1>2. failures' \in 0 .. MaxFailures
  BY RedemptionAssumption DEF IInv, TypeOK, Fail
<1>3. TypeOK'
  BY <1>1, <1>2 DEF IInv, TypeOK, Fail
<1>4. GoodWallet(wallet)'
  BY DEF IInv, GoodWallet, Whole, Stored, Fail
<1>5. (\A q \in Requests : HandlerOK(req[q]))'
  BY <1>1 DEF HandlerOK, GoodWallet, Admissible, Discount, MaxDiscount,
              Whole, Stored
<1>6. (\A t \in DOMAIN txs : Whole(txs[t].points))'
  BY DEF IInv, Whole, Fail
<1>7. QED
  BY <1>3, <1>4, <1>5, <1>6 DEF IInv

LEMMA TickOK ==
    ASSUME IInv, Tick
    PROVE  IInv'
<1>1. now' \in 0 .. MaxTime
  BY RedemptionAssumption DEF IInv, TypeOK, Tick
<1>2. TypeOK'
  BY <1>1 DEF IInv, TypeOK, Tick
<1>3. GoodWallet(wallet)'
  BY DEF IInv, GoodWallet, Whole, Stored, Tick
<1>4. (\A q \in Requests : HandlerOK(req[q]))'
  BY DEF IInv, Tick, HandlerOK, GoodWallet, Admissible, Discount, MaxDiscount,
            Whole, Stored
<1>5. (\A t \in DOMAIN txs : Whole(txs[t].points))'
  BY DEF IInv, Whole, Tick
<1>6. QED
  BY <1>2, <1>3, <1>4, <1>5 DEF IInv

LEMMA StutterOK ==
    ASSUME IInv, UNCHANGED vars
    PROVE  IInv'
  BY ReadOnlyStep DEF vars, IInv, TypeOK

-----------------------------------------------------------------------------
(* The invariant.                                                          *)

LEMMA InitOK == Init => IInv
<1> SUFFICES ASSUME Init PROVE IInv
  OBVIOUS
<1>1. wallet \in Wallets /\ GoodWallet(wallet)
  <2>1. /\ wallet.available = InitialPoints /\ wallet.burned = 0
        /\ InitialPoints - InitialPoints = 0
        /\ InitialPoints + 0 >= InitialPoints /\ InitialPoints >= 0
    BY RedemptionAssumption DEF Init
  <2>2. wallet \in Wallets
    BY RedemptionAssumption DEF Init, Wallets
  <2>3. QED
    BY <2>1, <2>2, ZeroIsWhole DEF GoodWallet
<1>2. /\ DOMAIN txs \subseteq TxIds /\ txs \in [DOMAIN txs -> TxRows]
      /\ DOMAIN otps \subseteq OtpIds /\ otps \in [DOMAIN otps -> OtpRows]
  BY DEF Init
<1>3. /\ req \in [Requests -> Handlers]
      /\ \A r \in Requests : HandlerOK(req[r])
  BY IdleOK DEF Init
<1>4. QED
  BY <1>1, <1>2, <1>3, RedemptionAssumption DEF IInv, TypeOK, Init

LEMMA NextOK == IInv /\ [Next]_vars => IInv'
<1> SUFFICES ASSUME IInv, [Next]_vars PROVE IInv'
  OBVIOUS
<1>1. ASSUME NEW r \in Requests, Request(r) PROVE IInv'
  BY <1>1, CheckoutRequestOK, BurningRequestOK, AddTransactionOK, FindOtpOK,
     RelinkOtpOK, NewOtpOK DEF Request
<1>2. ASSUME NEW r \in Requests, Confirm(r) PROVE IInv'
  BY <1>2, ConfirmBeginOK, CheckOtpOK, ConsumeOtpOK, CheckoutLoadWalletOK,
     BurningLoadWalletOK, BurningApplyOK, SaveTxOK, SaveWalletOK, StutterOK
     DEF Confirm, ConfirmRefused
<1>3. ASSUME NEW r \in Requests, Refund(r) PROVE IInv'
  BY <1>3, RefundBeginOK, AddRefundOK, RefundLoadWalletOK, SaveRefundOK
     DEF Refund
<1>4. ASSUME NEW r \in Requests, OtpEndpoints(r) PROVE IInv'
  BY <1>4, GenerateOtpOK, TouchOtpOK, GenerateFindExpiredOK,
     GenerateCheckPendingOK, VerifyOtpOK DEF OtpEndpoints
<1>5. ASSUME NEW r \in Requests, Fail(r) PROVE IInv'
  BY <1>5, FailOK
<1>6. CASE Tick
  BY <1>6, TickOK
<1>7. CASE UNCHANGED vars
  BY <1>7, StutterOK
<1>8. QED
  BY <1>1, <1>2, <1>3, <1>4, <1>5, <1>6, <1>7 DEF Next

(* IInv is an invariant of the two redemption APIs, whatever the number of *)
(* handlers, their interleaving, and the handlers that die half-way.       *)
THEOREM Invariance == Spec => []IInv
<1>1. Init => IInv
  BY InitOK
<1>2. IInv /\ [Next]_vars => IInv'
  BY NextOK
<1>3. QED
  BY <1>1, <1>2, PTL DEF Spec

(* The tables, the wallet row and every handler stay well formed; in       *)
(* particular total_burned_points never goes below zero.                   *)
THEOREM TypeCorrectness == Spec => []TypeOK
<1>1. IInv => TypeOK
  BY DEF IInv
<1>2. QED
  BY <1>1, Invariance, PTL

(* No interleaving of confirmations, refunds and failures overdraws the    *)
(* wallet.                                                                 *)
THEOREM NoOverdraft == Spec => []AvailableNeverNegative
<1>1. IInv => AvailableNeverNegative
  BY DEF IInv, GoodWallet, AvailableNeverNegative
<1>2. QED
  BY <1>1, Invariance, PTL

(* Lost updates and half-done handlers may misplace points, but none       *)
(* leaves both the available and the burned column: not by racing, and not *)
(* by rounding, but for half a point altogether.                           *)
THEOREM NoPointVanishes == Spec => []PointsNeverVanish
<1>1. IInv => PointsNeverVanish
  <2> SUFFICES ASSUME IInv PROVE PointsNeverVanish
    OBVIOUS
  <2>1. /\ wallet.available \in Int /\ wallet.burned \in Nat
        /\ InitialPoints \in Nat
    BY RedemptionAssumption DEF IInv, TypeOK, Wallets
  <2>2. /\ Stored(InitialPoints) \in Int
        /\ InitialPoints - 50 <= Stored(InitialPoints)
    BY <2>1, StoredIsNear
  <2>3. \/ wallet.available + wallet.burned >= InitialPoints
        \/ wallet.available + wallet.burned >= Stored(InitialPoints)
    BY DEF IInv, GoodWallet
  <2>4. QED
    BY <2>1, <2>2, <2>3 DEF PointsNeverVanish
<1>2. QED
  BY <1>1, Invariance, PTL

(* What /burning deducts is admissible under the burn rule.                *)
THEOREM BurningWithinRule == Spec => []BurningRespectsRule
<1>1. IInv => BurningRespectsRule
  <2> SUFFICES ASSUME IInv, NEW r \in Requests, req[r].api = "burning",
                      req[r].pc \in {"saveTx", "saveWallet"}
               PROVE  /\ req[r].pts >= 0
                      /\ Admissible(req[r].pts, req[r].wal.available,
                                    req[r].ent.amount)
    BY DEF BurningRespectsRule
  <2>1. req[r] \in Handlers /\ HandlerOK(req[r])
    BY HandlerFacts
  <2>2. QED
    BY <2>1 DEF HandlerOK, Handlers
<1>2. QED
  BY <1>1, Invariance, PTL

-----------------------------------------------------------------------------
(* Handlers one at a time: the codes and the ledger of the checkout API.   *)

(* The deployment the rest is about: a call begins when none is in flight. *)
SerialCalls == MaxInFlight = 1

HasCode(t) == \E o \in DOMAIN otps : otps[o].used /\ otps[o].tx = t

(* Only burns await confirmation.                                          *)
RowsOK == \A t \in DOMAIN txs :
             txs[t].status = "not_confirmed" => txs[t].type = "burn"

Confirming == {"checkOtp", "consume", "loadWallet", "apply", "saveTx"}

(* Past its code: the code of the transaction has been consumed.           *)
PastCode(h) == \/ h.pc \in {"apply", "saveTx"}
               \/ h.pc = "loadWallet" /\ h.api = "checkout"

(* What a handler holds is still what the tables hold, and the code of a   *)
(* confirmation is consumed before it is applied.                          *)
SerialOK(h) ==
    /\ h.pc = "addTx" =>
         h.ent.type = "burn" /\ h.ent.status = "not_confirmed"
    /\ h.pc \in {"relink", "touch", "consume"} =>
         /\ h.otp \in DOMAIN otps
         /\ h.row = otps[h.otp] /\ ~h.row.used
    /\ h.pc \in Confirming /\ h.tx # 0 =>
         /\ h.tx \in DOMAIN txs /\ txs[h.tx].status = "not_confirmed"
         /\ h.ent.type = "burn"
    /\ h.pc = "consume" /\ h.tx # 0 => h.row.tx = h.tx
    /\ tenant.otp /\ PastCode(h) => HasCode(h.tx)
    /\ h.pc = "saveTx" => h.ent.status = "active"
    /\ h.pc = "addRefund" =>
         /\ h.ent.type = "adjustment" /\ h.ent.status = "active"
         /\ h.ent.points = h.pts

Serial == /\ \A q, r \in InFlight : q = r
          /\ RowsOK
          /\ EveryBurnHasItsCode
          /\ \A r \in Requests : SerialOK(req[r])

(* The balance the ledger of the checkout API asks for, exactly.           *)
Due == InitialPoints - PointsIn(Active("burn")) + PointsIn(Active("adjustment"))

(* The balance settles a ledger when it is what the ledger asks for, as    *)
(* long as it has the fraction it started with; the burn that spends the   *)
(* fraction is recorded rounded, and from then on the two are as far apart *)
(* as rounding the initial balance takes them.                             *)
Settles(available, due) ==
    \/ available = due /\ Whole(available - InitialPoints)
    \/ /\ available = due + (Stored(InitialPoints) - InitialPoints)
       /\ Whole(available)

Counted == tenant.apis = {"checkout"} /\ failures = 0

(* Between the row and the wallet: the balance is due once it is saved.    *)
Paying == {"saveWallet", "refundWallet", "saveRefund"}

PayingOK(h) ==
    /\ h.pc # "idle" => h.api = "checkout" /\ h.pc # "apply"
    /\ h.pc = "saveTx" => h.wal = wallet /\ h.ent.points = h.pts
    /\ h.pc = "saveWallet" => Settles(h.wal.available - h.pts, Due)
    /\ h.pc = "refundWallet" => Settles(wallet.available + h.pts, Due)
    /\ h.pc = "saveRefund" => Settles(h.wal.available + h.pts, Due)

Paid == Counted =>
          /\ (\A r \in Requests : req[r].pc \notin Paying)
                => Settles(wallet.available, Due)
          /\ \A r \in Requests : PayingOK(req[r])

(* A burn of whole points, or of the whole balance, and its row; a refund  *)
(* of whole points and its row: both settle the ledger again.              *)
LEMMA BurnSettles ==
    ASSUME NEW a \in Int, NEW due \in Int, Settles(a, due),
           NEW p \in Nat, Whole(p) \/ p = a
    PROVE  Settles(a - p, due - Stored(p))
<1> DEFINE s == Stored(InitialPoints)
<1>1. /\ InitialPoints \in Int /\ s \in Int /\ p \in Int /\ Stored(p) \in Int
      /\ a - InitialPoints \in Int /\ a - p \in Int
  BY RedemptionAssumption, StoredIsNear
<1>2. CASE Whole(p)
  <2>1. Stored(p) = p
    BY <1>1, <1>2, StoredIsWhole
  <2>2. CASE a = due /\ Whole(a - InitialPoints)
    <3>1. Whole((a - InitialPoints) - p)
      BY <1>1, <1>2, <2>2, WholeSums, Zenon
    <3>2. (a - InitialPoints) - p = (a - p) - InitialPoints
      BY <1>1
    <3>3. Whole((a - p) - InitialPoints)
      BY <3>1, <3>2, Zenon
    <3>4. a - p = due - Stored(p)
      BY <2>1, <2>2
    <3>5. QED
      BY <3>3, <3>4, Zenon DEF Settles
  <2>3. CASE a = due + (s - InitialPoints) /\ Whole(a)
    <3>1. Whole(a - p)
      BY <1>1, <1>2, <2>3, WholeSums, Zenon
    <3>2. a - p = (due - Stored(p)) + (s - InitialPoints)
      <4> HIDE DEF s
      <4>1. QED
        BY <1>1, <2>1, <2>3
    <3>3. QED
      BY <3>1, <3>2, Zenon DEF Settles
  <2>4. QED
    BY <2>2, <2>3 DEF Settles
<1>3. CASE p = a /\ ~Whole(p)
  <2>1. a = due /\ Whole(a - InitialPoints)
    BY <1>3 DEF Settles
  <2>2. Stored((a - InitialPoints) + InitialPoints) = (a - InitialPoints) + s
    BY <1>1, <2>1, StoredPlusWhole, Zenon
  <2>3. (a - InitialPoints) + InitialPoints = p
    BY <1>1, <1>3
  <2>4. Stored(p) = (a - InitialPoints) + s
    BY <2>2, <2>3, Zenon
  <2> HIDE DEF s
  <2>5. a - p = 0 /\ a - p = (due - Stored(p)) + (s - InitialPoints)
    BY <1>1, <1>3, <2>1, <2>4
  <2>6. Whole(a - p)
    BY <2>5, ZeroIsWhole, Zenon
  <2>7. QED
    BY <2>5, <2>6, Zenon DEF Settles, s
<1>4. QED
  BY <1>2, <1>3

LEMMA RefundSettles ==
    ASSUME NEW a \in Int, NEW due \in Int, Settles(a, due),
           NEW p \in Nat, Whole(p)
    PROVE  Settles(a + p, due + Stored(p))
<1> DEFINE s == Stored(InitialPoints)
<1>1. /\ InitialPoints \in Int /\ s \in Int /\ p \in Int /\ Stored(p) \in Int
      /\ a - InitialPoints \in Int
  BY RedemptionAssumption, StoredIsNear
<1>2. Stored(p) = p
  BY <1>1, StoredIsWhole
<1>3. CASE a = due /\ Whole(a - InitialPoints)
  <2>1. Whole((a - InitialPoints) + p)
    BY <1>1, <1>3, WholeSums, Zenon
  <2>2. (a - InitialPoints) + p = (a + p) - InitialPoints
    BY <1>1
  <2>3. Whole((a + p) - InitialPoints)
    BY <2>1, <2>2, Zenon
  <2>4. a + p = due + Stored(p)
    BY <1>2, <1>3
  <2>5. QED
    BY <2>3, <2>4, Zenon DEF Settles
<1>4. CASE a = due + (s - InitialPoints) /\ Whole(a)
  <2>1. Whole(a + p)
    BY <1>1, <1>4, WholeSums, Zenon
  <2>2. a + p = (due + Stored(p)) + (s - InitialPoints)
    <3> HIDE DEF s
    <3>1. QED
      BY <1>1, <1>2, <1>4
  <2>3. QED
    BY <2>1, <2>2, Zenon DEF Settles
<1>5. QED
  BY <1>3, <1>4 DEF Settles

LEMMA SettledIsNear ==
    ASSUME NEW a \in Int, NEW due \in Int, Settles(a, due)
    PROVE  due - 50 <= a /\ a <= due + 50
<1> DEFINE s == Stored(InitialPoints)
<1>1. /\ InitialPoints \in Int /\ s \in Int
      /\ InitialPoints - 50 <= s /\ s <= InitialPoints + 50
  BY RedemptionAssumption, StoredIsNear
<1>2. a = due \/ a = due + (s - InitialPoints)
  BY DEF Settles
<1> HIDE DEF s
<1>3. QED
  BY <1>1, <1>2

LEMMA OthersIdle ==
    ASSUME SerialCalls, Serial, NEW r \in Requests,
           req[r].pc # "idle" \/ Free(r)
    PROVE  \A q \in Requests \ {r} : req[q].pc = "idle"
<1> SUFFICES ASSUME NEW q \in Requests \ {r}, req[q].pc # "idle" PROVE FALSE
  OBVIOUS
<1>1. q \in InFlight
  BY DEF InFlight
<1>2. CASE req[r].pc # "idle"
  BY <1>1, <1>2 DEF Serial, InFlight
<1>3. CASE Free(r)
  <2>1. InFlight = {q}
    BY <1>1 DEF Serial
  <2>2. Cardinality(InFlight) = 1
    BY <2>1, FS_Singleton
  <2>3. QED
    BY <1>3, <2>2 DEF Free, SerialCalls
<1>4. QED
  BY <1>2, <1>3

(* What is known of the handler that moves.                                *)
LEMMA OneCallFacts ==
    ASSUME SerialCalls, IInv, Serial, Paid, NEW r \in Requests,
           req[r].pc # "idle" \/ Free(r)
    PROVE  /\ req[r] \in Handlers /\ HandlerOK(req[r]) /\ SerialOK(req[r])
           /\ Counted => /\ PayingOK(req[r])
                         /\ req[r].pc \notin Paying => Settles(wallet.available, Due)
<1>1. \A q \in Requests \ {r} : req[q].pc \notin Paying
  BY OthersIdle DEF Paying
<1>2. req[r] \in Handlers /\ HandlerOK(req[r])
  BY HandlerFacts
<1>3. QED
  BY <1>1, <1>2 DEF Serial, Paid

(* A step of the one handler in flight.                                    *)
LEMMA OneMoves ==
    ASSUME SerialCalls, IInv, Serial, NEW r \in Requests, NEW m,
           Continue(r, m), req[r].pc # "idle" \/ Free(r), tenant' = tenant,
           RowsOK', EveryBurnHasItsCode', SerialOK(m)'
    PROVE  Serial'
<1>1. /\ req'[r] = m /\ \A q \in Requests \ {r} : req'[q] = req[q]
  BY DEF IInv, TypeOK, Continue
<1>2. \A q \in Requests \ {r} : req[q].pc = "idle"
  BY OthersIdle
<1>3. \A q, s \in InFlight' : q = s
  BY <1>1, <1>2 DEF InFlight
<1>4. ASSUME NEW q \in Requests PROVE SerialOK(req[q])'
  <2>1. CASE q = r
    BY <1>1, <2>1 DEF SerialOK, HasCode, PastCode
  <2>2. CASE q # r
    BY <1>1, <1>2, <2>2 DEF SerialOK, PastCode, Confirming
  <2>3. QED
    BY <2>1, <2>2
<1>5. QED
  BY <1>3, <1>4 DEF Serial

LEMMA OneCall ==
    ASSUME SerialCalls, IInv, Serial, Paid, NEW r \in Requests, NEW m,
           Continue(r, m), req[r].pc # "idle" \/ Free(r),
           tenant' = tenant, failures' = failures,
           RowsOK', EveryBurnHasItsCode', SerialOK(m)',
           Counted => /\ PayingOK(m)'
                      /\ m.pc \notin Paying => Settles(wallet'.available, Due')
    PROVE  Serial' /\ Paid'
<1>1. /\ req'[r] = m /\ \A q \in Requests \ {r} : req'[q] = req[q]
  BY DEF IInv, TypeOK, Continue
<1>2. \A q \in Requests \ {r} : req[q].pc = "idle"
  BY OthersIdle
<1>3. Serial'
  BY OneMoves
<1>4. ASSUME Counted' PROVE Counted
  BY <1>4 DEF Counted
<1>5. ASSUME Counted, NEW q \in Requests PROVE PayingOK(req[q])'
  <2>1. CASE q = r
    BY <1>1, <1>5, <2>1 DEF PayingOK
  <2>2. CASE q # r
    BY <1>1, <1>2, <2>2 DEF PayingOK
  <2>3. QED
    BY <2>1, <2>2
<1>6. ASSUME Counted, \A q \in Requests : req'[q].pc \notin Paying
      PROVE  Settles(wallet'.available, Due')
  BY <1>1, <1>6
<1>7. QED
  BY <1>3, <1>4, <1>5, <1>6 DEF Paid, Paying

(* A step of the one handler in flight that writes nothing.                *)
LEMMA OneCallReads ==
    ASSUME SerialCalls, IInv, Serial, Paid, NEW r \in Requests, NEW m,
           Continue(r, m), req[r].pc # "idle" \/ Free(r),
           UNCHANGED <<tenant, wallet, txs, otps, failures>>,
           SerialOK(m),
           Counted => /\ PayingOK(m)
                      /\ m.pc \notin Paying => req[r].pc \notin Paying
    PROVE  Serial' /\ Paid'
<1>1. RowsOK' /\ EveryBurnHasItsCode'
  BY DEF Serial, RowsOK, EveryBurnHasItsCode, Active
<1>2. SerialOK(m)'
  BY DEF SerialOK, HasCode, PastCode
<1>3. Due' = Due
  BY DEF Due, PointsIn, Active
<1>4. Counted => /\ PayingOK(m)'
                 /\ m.pc \notin Paying => Settles(wallet'.available, Due')
  <2>1. PayingOK(m) => PayingOK(m)'
    BY <1>3 DEF PayingOK
  <2>2. Counted /\ m.pc \notin Paying => Settles(wallet.available, Due)
    BY OneCallFacts
  <2>3. QED
    BY <1>3, <2>1, <2>2
<1>5. QED
  BY <1>1, <1>2, <1>4, OneCall

(* A handler that returns without having written.                          *)
LEMMA OneCallReturns ==
    ASSUME SerialCalls, IInv, Serial, Paid, NEW r \in Requests, Return(r),
           req[r].pc # "idle", req[r].pc \notin Paying,
           UNCHANGED <<tenant, wallet, txs, otps, failures>>
    PROVE  Serial' /\ Paid'
<1>1. Continue(r, Idle)
  BY DEF Return, Continue
<1>2. SerialOK(Idle) /\ PayingOK(Idle)
  BY DEF SerialOK, PayingOK, Idle, PastCode, Confirming
<1>3. QED
  BY <1>1, <1>2, OneCallReads

-----------------------------------------------------------------------------
(* Steps that write nothing.                                               *)

LEMMA SerialBurningRequest ==
    ASSUME SerialCalls, IInv, Serial, Paid,
           NEW r \in Requests, BurningRequest(r)
    PROVE  Serial' /\ Paid'
<1>1. PICK amount \in Amounts, invoice \in Invoices \cup {NoInvoice} :
        Continue(r, [Idle EXCEPT !.pc = "addTx", !.api = "burning",
                       !.ent = BurnTx(MaxBurn(wallet.available, amount),
                                      amount, invoice)])
  BY DEF BurningRequest
<1>p. PICK points : points = MaxBurn(wallet.available, amount)
  OBVIOUS
<1>m. PICK m : m = [Idle EXCEPT !.pc = "addTx", !.api = "burning",
                                !.ent = BurnTx(points, amount, invoice)]
  OBVIOUS
<1>2. /\ Continue(r, m) /\ Free(r) /\ "burning" \in tenant.apis
      /\ UNCHANGED <<tenant, wallet, txs, otps, failures>>
  BY <1>1, <1>m, <1>p DEF BurningRequest
<1>3. /\ m.pc = "addTx" /\ m.api = "burning"
      /\ m.ent = BurnTx(points, amount, invoice)
  BY <1>m DEF Idle
<1>4. m.ent.type = "burn" /\ m.ent.status = "not_confirmed"
  BY <1>3 DEF BurnTx, NoTx
<1>5. SerialOK(m)
  BY <1>3, <1>4 DEF SerialOK, PastCode, Confirming
<1>6. ~Counted
  BY <1>2 DEF Counted
<1>7. QED
  BY <1>2, <1>5, <1>6, OneCallReads

LEMMA SerialFindOtp ==
    ASSUME SerialCalls, IInv, Serial, Paid, NEW r \in Requests, FindOtp(r)
    PROVE  Serial' /\ Paid'
<1>1. /\ req[r].pc = "findOtp"
      /\ UNCHANGED <<tenant, wallet, txs, otps, failures>>
  BY DEF FindOtp, At
<1>2. req[r] \in Handlers /\ (Counted => PayingOK(req[r]))
  BY <1>1, OneCallFacts
<1>3. CASE \E o \in DOMAIN otps :
             /\ ActiveOtp(o)
             /\ Continue(r, [req[r] EXCEPT !.pc = "relink", !.otp = o,
                                           !.row = otps[o]])
  <2>1. PICK o \in DOMAIN otps :
             /\ ActiveOtp(o)
             /\ Continue(r, [req[r] EXCEPT !.pc = "relink", !.otp = o,
                                           !.row = otps[o]])
    BY <1>3
  <2>m. PICK m : m = [req[r] EXCEPT !.pc = "relink", !.otp = o,
                                    !.row = otps[o]]
    OBVIOUS
  <2>2. /\ m.pc = "relink" /\ m.otp = o /\ m.row = otps[o]
        /\ m.api = req[r].api
    BY <2>m, <1>2 DEF Handlers
  <2>3. SerialOK(m)
    BY <2>1, <2>2 DEF SerialOK, PastCode, Confirming, ActiveOtp
  <2>4. PayingOK(req[r]) => PayingOK(m)
    BY <1>1, <2>2 DEF PayingOK
  <2>5. Continue(r, m)
    BY <2>1, <2>m
  <2>6. QED
    BY <1>1, <1>2, <2>3, <2>4, <2>5, OneCallReads DEF Paying
<1>4. CASE Continue(r, [req[r] EXCEPT !.pc = "newOtp"])
  <2>m. PICK m : m = [req[r] EXCEPT !.pc = "newOtp"]
    OBVIOUS
  <2>1. m.pc = "newOtp" /\ m.api = req[r].api
    BY <2>m, <1>2 DEF Handlers
  <2>2. SerialOK(m)
    BY <2>1 DEF SerialOK, PastCode, Confirming
  <2>3. PayingOK(req[r]) => PayingOK(m)
    BY <1>1, <2>1 DEF PayingOK
  <2>4. Continue(r, m)
    BY <1>4, <2>m
  <2>5. QED
    BY <1>1, <1>2, <2>2, <2>3, <2>4, OneCallReads DEF Paying
<1>5. QED
  BY <1>3, <1>4 DEF FindOtp

LEMMA SerialConfirmBegin ==
    ASSUME SerialCalls, IInv, Serial, Paid, NEW r \in Requests, ConfirmBegin(r)
    PROVE  Serial' /\ Paid'
<1>1. PICK t \in DOMAIN txs, points \in BurnPoints, api \in tenant.apis :
        /\ txs[t].status = "not_confirmed"
        /\ Continue(r, [Idle EXCEPT
             !.pc = IF api = "checkout" /\ tenant.otp THEN "checkOtp"
                                                      ELSE "loadWallet",
             !.api = api, !.tx = t, !.pts = 100 * points, !.ent = txs[t]])
  BY DEF ConfirmBegin
<1>m. PICK m : m = [Idle EXCEPT
             !.pc = IF api = "checkout" /\ tenant.otp THEN "checkOtp"
                                                      ELSE "loadWallet",
             !.api = api, !.tx = t, !.pts = 100 * points, !.ent = txs[t]]
  OBVIOUS
<1>2. /\ Free(r) /\ Continue(r, m)
      /\ UNCHANGED <<tenant, wallet, txs, otps, failures>>
  BY <1>1, <1>m DEF ConfirmBegin
<1>3. /\ m.pc \in {"checkOtp", "loadWallet"} /\ m.api = api
      /\ m.tx = t /\ m.ent = txs[t]
      /\ m.pc = "loadWallet" /\ api = "checkout" => ~tenant.otp
  BY <1>m DEF Idle
<1>4. txs[t].type = "burn"
  BY <1>1 DEF Serial, RowsOK
<1>5. SerialOK(m)
  BY <1>1, <1>3, <1>4 DEF SerialOK, PastCode, Confirming
<1>6. Counted => PayingOK(m)
  BY <1>3 DEF Counted, PayingOK
<1>7. req[r].pc \notin Paying
  BY <1>2 DEF Free, Paying
<1>8. QED
  BY <1>2, <1>5, <1>6, <1>7, OneCallReads

LEMMA SerialCheckOtp ==
    ASSUME SerialCalls, IInv, Serial, Paid, NEW r \in Requests, CheckOtp(r)
    PROVE  Serial' /\ Paid'
<1>1. /\ req[r].pc = "checkOtp"
      /\ UNCHANGED <<tenant, wallet, txs, otps, failures>>
  BY DEF CheckOtp, At
<1>2. /\ req[r] \in Handlers /\ SerialOK(req[r]) /\ HandlerOK(req[r])
      /\ Counted => PayingOK(req[r])
  BY <1>1, OneCallFacts
<1>3. CASE Return(r)
  BY <1>1, <1>3, OneCallReturns DEF Paying
<1>4. CASE \E o \in DOMAIN otps :
             /\ ActiveOtp(o) /\ otps[o].tx = req[r].tx
             /\ Continue(r, [req[r] EXCEPT !.pc = "consume", !.otp = o,
                                           !.row = otps[o]])
  <2>1. PICK o \in DOMAIN otps :
             /\ ActiveOtp(o) /\ otps[o].tx = req[r].tx
             /\ Continue(r, [req[r] EXCEPT !.pc = "consume", !.otp = o,
                                           !.row = otps[o]])
    BY <1>4
  <2>m. PICK m : m = [req[r] EXCEPT !.pc = "consume", !.otp = o,
                                    !.row = otps[o]]
    OBVIOUS
  <2>2. /\ m.pc = "consume" /\ m.otp = o /\ m.row = otps[o]
        /\ m.api = req[r].api /\ m.tx = req[r].tx /\ m.ent = req[r].ent
    BY <2>m, <1>2 DEF Handlers
  <2>3. SerialOK(m)
    BY <1>1, <1>2, <2>1, <2>2 DEF SerialOK, PastCode, Confirming, ActiveOtp
  <2>4. PayingOK(req[r]) => PayingOK(m)
    BY <1>1, <2>2 DEF PayingOK
  <2>5. Continue(r, m)
    BY <2>1, <2>m
  <2>6. QED
    BY <1>1, <1>2, <2>3, <2>4, <2>5, OneCallReads DEF Paying
<1>5. QED
  BY <1>3, <1>4 DEF CheckOtp

LEMMA SerialCheckoutLoadWallet ==
    ASSUME SerialCalls, IInv, Serial, Paid,
           NEW r \in Requests, CheckoutLoadWallet(r)
    PROVE  Serial' /\ Paid'
<1>1. /\ req[r].pc = "loadWallet" /\ req[r].api = "checkout"
      /\ UNCHANGED <<tenant, wallet, txs, otps, failures>>
  BY DEF CheckoutLoadWallet, At
<1>2. /\ req[r] \in Handlers /\ SerialOK(req[r]) /\ HandlerOK(req[r])
      /\ Counted => PayingOK(req[r])
  BY <1>1, OneCallFacts
<1>p. PICK points : points = Least(req[r].pts, wallet.available)
  OBVIOUS
<1>e. PICK ent : ent = [req[r].ent EXCEPT !.points = points, !.status = "active"]
  OBVIOUS
<1>m. PICK m : m = [req[r] EXCEPT !.pc = "saveTx", !.pts = points,
                                  !.wal = wallet, !.ent = ent]
  OBVIOUS
<1>3. CASE Return(r)
  BY <1>1, <1>3, OneCallReturns DEF Paying
<1>4. CASE Continue(r, m)
  <2>1. req[r].ent \in TxRows
    BY <1>2 DEF Handlers
  <2>2. /\ ent.status = "active" /\ ent.points = points
        /\ ent.type = req[r].ent.type
    BY <1>e, <2>1 DEF TxRows
  <2>3. /\ m.pc = "saveTx" /\ m.pts = points /\ m.wal = wallet /\ m.ent = ent
        /\ m.api = req[r].api /\ m.tx = req[r].tx
    BY <1>m, <1>2 DEF Handlers
  <2>4. SerialOK(m)
    BY <1>1, <1>2, <2>2, <2>3 DEF SerialOK, HandlerOK, PastCode, Confirming
  <2>5. PayingOK(m)
    BY <1>1, <2>2, <2>3 DEF PayingOK
  <2>6. QED
    BY <1>1, <1>4, <2>4, <2>5, OneCallReads DEF Paying
<1>5. Return(r) \/ Continue(r, m)
  BY <1>p, <1>e, <1>m DEF CheckoutLoadWallet
<1>6. QED
  BY <1>3, <1>4, <1>5

LEMMA SerialBurningLoadWallet ==
    ASSUME SerialCalls, IInv, Serial, Paid,
           NEW r \in Requests, BurningLoadWallet(r)
    PROVE  Serial' /\ Paid'
<1>1. /\ req[r].pc = "loadWallet" /\ req[r].api = "burning"
      /\ UNCHANGED <<tenant, wallet, txs, otps, failures>>
  BY DEF BurningLoadWallet, At
<1>2. /\ req[r] \in Handlers /\ SerialOK(req[r])
      /\ Counted => PayingOK(req[r])
  BY <1>1, OneCallFacts
<1>m. PICK m : m = [req[r] EXCEPT !.wal = wallet,
                      !.pc = IF tenant.otp THEN "checkOtp" ELSE "apply"]
  OBVIOUS
<1>3. /\ m.pc \in {"checkOtp", "apply"} /\ (tenant.otp => m.pc = "checkOtp")
      /\ m.api = "burning" /\ m.tx = req[r].tx /\ m.ent = req[r].ent
  BY <1>m, <1>1, <1>2 DEF Handlers
<1>4. Continue(r, m)
  BY <1>m DEF BurningLoadWallet
<1>5. SerialOK(m)
  BY <1>1, <1>2, <1>3 DEF SerialOK, PastCode, Confirming
<1>6. ~Counted
  BY <1>1, <1>2 DEF PayingOK
<1>7. QED
  BY <1>1, <1>4, <1>5, <1>6, OneCallReads

LEMMA SerialBurningApply ==
    ASSUME SerialCalls, IInv, Serial, Paid, NEW r \in Requests, BurningApply(r)
    PROVE  Serial' /\ Paid'
<1>1. /\ req[r].pc = "apply"
      /\ UNCHANGED <<tenant, wallet, txs, otps, failures>>
  BY DEF BurningApply, At
<1>2. /\ req[r] \in Handlers /\ SerialOK(req[r]) /\ HandlerOK(req[r])
      /\ Counted => PayingOK(req[r])
  BY <1>1, OneCallFacts
<1>a. PICK applied : applied = Least(req[r].wal.available, req[r].pts)
  OBVIOUS
<1>p. PICK pts : pts = MaxBurn(applied, req[r].ent.amount)
  OBVIOUS
<1>e. PICK ent : ent = [req[r].ent EXCEPT !.points = applied,
                                          !.status = "active"]
  OBVIOUS
<1>m. PICK m : m = [req[r] EXCEPT !.pc = "saveTx", !.pts = pts, !.ent = ent]
  OBVIOUS
<1>3. CASE Return(r)
  BY <1>1, <1>3, OneCallReturns DEF Paying
<1>4. CASE Continue(r, m)
  <2>1. req[r].ent \in TxRows
    BY <1>2 DEF Handlers
  <2>2. ent.status = "active" /\ ent.type = req[r].ent.type
    BY <1>e, <2>1 DEF TxRows
  <2>3. m.pc = "saveTx" /\ m.ent = ent /\ m.tx = req[r].tx
    BY <1>m, <1>2 DEF Handlers
  <2>4. SerialOK(m)
    BY <1>1, <1>2, <2>2, <2>3 DEF SerialOK, HandlerOK, PastCode, Confirming
  <2>5. ~Counted
    BY <1>1, <1>2 DEF PayingOK
  <2>6. QED
    BY <1>1, <1>4, <2>4, <2>5, OneCallReads
<1>5. Return(r) \/ Continue(r, m)
  BY <1>a, <1>p, <1>e, <1>m DEF BurningApply
<1>6. QED
  BY <1>3, <1>4, <1>5

LEMMA SerialRefundBegin ==
    ASSUME SerialCalls, IInv, Serial, Paid, NEW r \in Requests, RefundBegin(r)
    PROVE  Serial' /\ Paid'
<1>1. PICK t \in DOMAIN txs :
        /\ txs[t].status = "active"
        /\ Continue(r, [Idle EXCEPT !.pc = "addRefund", !.tx = t,
             !.pts = txs[t].points,
             !.ent = [txs[t] EXCEPT !.type = "adjustment", !.source = t]])
  BY DEF RefundBegin
<1>e. PICK ent : ent = [txs[t] EXCEPT !.type = "adjustment", !.source = t]
  OBVIOUS
<1>m. PICK m : m = [Idle EXCEPT !.pc = "addRefund", !.tx = t,
                                !.pts = txs[t].points, !.ent = ent]
  OBVIOUS
<1>2. /\ Continue(r, m) /\ Free(r)
      /\ UNCHANGED <<tenant, wallet, txs, otps, failures>>
  BY <1>1, <1>m, <1>e DEF RefundBegin
<1>3. txs[t] \in TxRows
  BY DEF IInv, TypeOK
<1>4. /\ ent.type = "adjustment" /\ ent.status = "active"
      /\ ent.points = txs[t].points
  BY <1>1, <1>3, <1>e DEF TxRows
<1>5. /\ m.pc = "addRefund" /\ m.ent = ent /\ m.pts = txs[t].points
      /\ m.api = "checkout"
  BY <1>m DEF Idle
<1>6. SerialOK(m)
  BY <1>4, <1>5 DEF SerialOK, PastCode, Confirming
<1>7. PayingOK(m)
  BY <1>5 DEF PayingOK
<1>8. QED
  BY <1>2, <1>6, <1>7, OneCallReads DEF Free, Paying

LEMMA SerialRefundLoadWallet ==
    ASSUME SerialCalls, IInv, Serial, Paid,
           NEW r \in Requests, RefundLoadWallet(r)
    PROVE  Serial' /\ Paid'
<1>1. /\ req[r].pc = "refundWallet"
      /\ UNCHANGED <<tenant, wallet, txs, otps, failures>>
  BY DEF RefundLoadWallet, At
<1>2. req[r] \in Handlers /\ (Counted => PayingOK(req[r]))
  BY <1>1, OneCallFacts
<1>m. PICK m : m = [req[r] EXCEPT !.pc = "saveRefund", !.wal = wallet]
  OBVIOUS
<1>3. /\ m.pc = "saveRefund" /\ m.wal = wallet /\ m.pts = req[r].pts
      /\ m.api = req[r].api
  BY <1>m, <1>2 DEF Handlers
<1>4. Continue(r, m)
  BY <1>m DEF RefundLoadWallet
<1>5. SerialOK(m)
  BY <1>3 DEF SerialOK, PastCode, Confirming
<1>6. PayingOK(req[r]) => PayingOK(m)
  BY <1>1, <1>3 DEF PayingOK
<1>7. QED
  BY <1>1, <1>2, <1>3, <1>4, <1>5, <1>6, OneCallReads DEF Paying

LEMMA SerialGenerate ==
    ASSUME SerialCalls, IInv, Serial, Paid, NEW r \in Requests,
           GenerateOtp(r) \/ VerifyOtp(r)
    PROVE  Serial' /\ Paid'
<1>1. /\ Free(r) /\ UNCHANGED <<tenant, wallet, txs, otps, failures>>
  BY DEF GenerateOtp, VerifyOtp
<1>2. CASE \E o \in DOMAIN otps, pc \in {"touch", "consume"} :
             /\ ActiveOtp(o)
             /\ Continue(r, [Idle EXCEPT !.pc = pc, !.otp = o,
                                         !.row = otps[o]])
  <2>1. PICK o \in DOMAIN otps, pc \in {"touch", "consume"} :
             /\ ActiveOtp(o)
             /\ Continue(r, [Idle EXCEPT !.pc = pc, !.otp = o,
                                         !.row = otps[o]])
    BY <1>2
  <2>m. PICK m : m = [Idle EXCEPT !.pc = pc, !.otp = o, !.row = otps[o]]
    OBVIOUS
  <2>2. /\ m.pc \in {"touch", "consume"} /\ m.otp = o /\ m.row = otps[o]
        /\ m.tx = 0 /\ m.api = "checkout"
    BY <2>m DEF Idle
  <2>3. SerialOK(m)
    BY <2>1, <2>2 DEF SerialOK, PastCode, Confirming, ActiveOtp
  <2>4. PayingOK(m)
    BY <2>2 DEF PayingOK
  <2>5. Continue(r, m)
    BY <2>1, <2>m
  <2>6. QED
    BY <1>1, <2>3, <2>4, <2>5, OneCallReads DEF Free, Paying
<1>3. CASE Continue(r, [Idle EXCEPT !.pc = "genFind"])
  <2>m. PICK m : m = [Idle EXCEPT !.pc = "genFind"]
    OBVIOUS
  <2>1. m.pc = "genFind" /\ m.api = "checkout"
    BY <2>m DEF Idle
  <2>2. SerialOK(m) /\ PayingOK(m)
    BY <2>1 DEF SerialOK, PayingOK, PastCode, Confirming
  <2>3. Continue(r, m)
    BY <1>3, <2>m
  <2>4. QED
    BY <1>1, <2>2, <2>3, OneCallReads DEF Free, Paying
<1>4. QED
  BY <1>2, <1>3 DEF GenerateOtp, VerifyOtp

LEMMA SerialGenerateFinds ==
    ASSUME SerialCalls, IInv, Serial, Paid, NEW r \in Requests,
           GenerateFindExpired(r) \/ GenerateCheckPending(r)
    PROVE  Serial' /\ Paid'
<1>1. /\ req[r].pc \in {"genFind", "genCheck"}
      /\ UNCHANGED <<tenant, wallet, txs, otps, failures>>
  BY DEF GenerateFindExpired, GenerateCheckPending, At
<1>2. req[r] \in Handlers /\ (Counted => PayingOK(req[r]))
  BY <1>1, OneCallFacts
<1>3. ASSUME NEW m, Continue(r, m), m.pc \in {"newOtp", "genCheck"},
             m.api = req[r].api
      PROVE  Serial' /\ Paid'
  <2>1. SerialOK(m)
    BY <1>3 DEF SerialOK, PastCode, Confirming
  <2>2. PayingOK(req[r]) => PayingOK(m)
    BY <1>1, <1>3 DEF PayingOK
  <2>3. QED
    BY <1>1, <1>2, <1>3, <2>1, <2>2, OneCallReads DEF Paying
<1>4. CASE \E tx, pc : /\ pc \in {"newOtp", "genCheck"}
                       /\ Continue(r, [req[r] EXCEPT !.tx = tx, !.pc = pc])
  <2>1. PICK tx, pc : /\ pc \in {"newOtp", "genCheck"}
                      /\ Continue(r, [req[r] EXCEPT !.tx = tx, !.pc = pc])
    BY <1>4
  <2>m. PICK m : m = [req[r] EXCEPT !.tx = tx, !.pc = pc]
    OBVIOUS
  <2>2. m.pc = pc /\ m.api = req[r].api
    BY <2>m, <1>2 DEF Handlers
  <2>3. QED
    BY <1>3, <2>1, <2>2, <2>m
<1>5. CASE Continue(r, [req[r] EXCEPT !.pc = "newOtp"])
  <2>m. PICK m : m = [req[r] EXCEPT !.pc = "newOtp"]
    OBVIOUS
  <2>1. m.pc = "newOtp" /\ m.api = req[r].api
    BY <2>m, <1>2 DEF Handlers
  <2>2. QED
    BY <1>3, <1>5, <2>1, <2>m
<1>6. CASE GenerateFindExpired(r)
  <2>1. CASE Continue(r, [req[r] EXCEPT !.pc = "newOtp"])
    BY <1>5, <2>1
  <2>2. CASE \E o \in DOMAIN otps :
               Continue(r, [req[r] EXCEPT !.tx = otps[o].tx,
                 !.pc = IF otps[o].tx = 0 THEN "newOtp" ELSE "genCheck"])
    BY <1>4, <2>2
  <2>3. QED
    BY <1>6, <2>1, <2>2 DEF GenerateFindExpired
<1>7. CASE GenerateCheckPending(r)
  <2>1. PICK tx, m : /\ m = [req[r] EXCEPT !.pc = "newOtp", !.tx = tx]
                     /\ Continue(r, m)
    BY <1>7 DEF GenerateCheckPending
  <2>2. m.pc = "newOtp" /\ m.api = req[r].api
    BY <2>1, <1>2 DEF Handlers
  <2>3. QED
    BY <1>3, <2>1, <2>2
<1>8. QED
  BY <1>6, <1>7

-----------------------------------------------------------------------------
(* Steps that write.                                                       *)

LEMMA FiniteTxs ==
    ASSUME TypeOK
    PROVE  /\ IsFiniteSet(DOMAIN txs)
           /\ \A t \in DOMAIN txs : txs[t].points \in Nat
<1>1. MaxTx \in Nat /\ IsFiniteSet(1 .. MaxTx)
  BY FS_Interval, RedemptionAssumption
<1>2. DOMAIN txs \subseteq 1 .. MaxTx
  BY DEF TypeOK, TxIds
<1>3. QED
  BY <1>1, <1>2, FS_Subset DEF TypeOK, TxRows

LEMMA ActivePoints ==
    ASSUME TypeOK, NEW type
    PROVE  PointsIn(Active(type)) \in Nat
<1> DEFINE f == [t \in DOMAIN txs |-> txs[t].points]
           S == Active(type)
<1>1. IsFiniteSet(S) /\ \A t \in S : f[t] \in Nat
  BY FiniteTxs, FS_Subset DEF Active
<1>2. SumFunctionOnSet(f, S) \in Nat
  <2> HIDE DEF f, S
  <2>1. QED
    BY <1>1, SumIsNat
<1>3. QED
  BY <1>2 DEF PointsIn

(* A row counts from the moment it is active.                              *)
LEMMA ActiveAdds ==
    ASSUME TypeOK, NEW t \in TxIds, NEW row \in TxRows,
           txs' = Put(txs, t, row),
           t \in DOMAIN txs => txs[t].status # "active", NEW type
    PROVE  PointsIn(Active(type))' = PointsIn(Active(type)) +
              IF row.type = type /\ row.status = "active" THEN row.points ELSE 0
<1> DEFINE f == [s \in DOMAIN txs |-> txs[s].points]
           g == [s \in DOMAIN txs' |-> txs'[s].points]
           S == Active(type)
<1>1. /\ DOMAIN txs' = DOMAIN txs \cup {t}
      /\ txs'[t] = row
      /\ \A s \in DOMAIN txs \ {t} : txs'[s] = txs[s]
  BY DEF Put
<1>2. S \subseteq DOMAIN txs /\ IsFiniteSet(S) /\ t \notin S
  BY FiniteTxs, FS_Subset DEF Active
<1>3. Active(type)' = IF row.type = type /\ row.status = "active"
                      THEN S \cup {t} ELSE S
  BY <1>1 DEF Active
<1>4. row.points \in Nat
  BY DEF TxRows
<1>5. \A s \in S : f[s] = g[s] /\ f[s] \in Int
  BY <1>1, <1>2, FiniteTxs
<1>6. g[t] = row.points
  BY <1>1
<1>7. PointsIn(S) = SumFunctionOnSet(f, S)
  BY DEF PointsIn
<1>8. PointsIn(Active(type))' = SumFunctionOnSet(g, Active(type)')
  BY DEF PointsIn
<1> HIDE DEF f, g, S
<1>9. /\ SumFunctionOnSet(f, S) = SumFunctionOnSet(g, S)
      /\ SumFunctionOnSet(g, S) \in Int
  BY <1>2, <1>5, SumsAgree, SumIsInt
<1>10. CASE row.type = type /\ row.status = "active"
  <2>1. \A s \in S \cup {t} : g[s] \in Int
    BY <1>4, <1>5, <1>6
  <2>2. SumFunctionOnSet(g, S \cup {t}) = SumFunctionOnSet(g, S) + g[t]
    BY <1>2, <2>1, SumWith
  <2>3. PointsIn(Active(type))' = SumFunctionOnSet(g, S \cup {t})
    BY <1>3, <1>8, <1>10
  <2>4. QED
    BY <2>2, <2>3, <1>6, <1>7, <1>9, <1>10 DEF S
<1>11. CASE ~(row.type = type /\ row.status = "active")
  <2>1. PointsIn(Active(type))' = SumFunctionOnSet(g, S)
    BY <1>3, <1>8, <1>11
  <2>2. QED
    BY <2>1, <1>7, <1>9, <1>11 DEF S
<1>12. QED
  BY <1>10, <1>11

(* What a row of the table that was not active does to the balance due.    *)
LEMMA DueAfter ==
    ASSUME TypeOK, NEW t \in TxIds, NEW row \in TxRows,
           txs' = Put(txs, t, row),
           t \in DOMAIN txs => txs[t].status # "active"
    PROVE  /\ Due \in Int
           /\ row.status # "active" => Due' = Due
           /\ row.status = "active" /\ row.type = "burn" =>
                Due' = Due - row.points
           /\ row.status = "active" /\ row.type = "adjustment" =>
                Due' = Due + row.points
<1>1. /\ PointsIn(Active("burn")) \in Nat
      /\ PointsIn(Active("adjustment")) \in Nat
      /\ InitialPoints \in Nat /\ row.points \in Nat
  BY ActivePoints, RedemptionAssumption DEF TxRows
<1>2. PointsIn(Active("burn"))' = PointsIn(Active("burn")) +
         IF row.type = "burn" /\ row.status = "active" THEN row.points ELSE 0
  BY ActiveAdds
<1>3. PointsIn(Active("adjustment"))' = PointsIn(Active("adjustment")) +
         IF row.type = "adjustment" /\ row.status = "active"
         THEN row.points ELSE 0
  BY ActiveAdds
<1>4. Due' = InitialPoints - PointsIn(Active("burn"))'
                           + PointsIn(Active("adjustment"))'
  BY DEF Due
<1>5. QED
  BY <1>1, <1>2, <1>3, <1>4 DEF Due

(* A row that is no confirmed burn, or has its code, keeps codes and rows. *)
LEMMA CodesAfterRow ==
    ASSUME Serial, NEW t, NEW row, txs' = Put(txs, t, row),
           UNCHANGED <<tenant, otps>>,
           row.status = "not_confirmed" => row.type = "burn",
           tenant.otp /\ row.status = "active" /\ row.type = "burn" => HasCode(t)
    PROVE  RowsOK' /\ EveryBurnHasItsCode'
<1>1. /\ DOMAIN txs' = DOMAIN txs \cup {t}
      /\ txs'[t] = row
      /\ \A s \in DOMAIN txs \ {t} : txs'[s] = txs[s]
  BY DEF Put
<1>2. RowsOK'
  BY <1>1 DEF Serial, RowsOK
<1>3. ASSUME tenant.otp, NEW s \in Active("burn")'
      PROVE  HasCode(s)
  BY <1>1, <1>3 DEF Serial, EveryBurnHasItsCode, Active, HasCode
<1>4. EveryBurnHasItsCode'
  BY <1>3 DEF EveryBurnHasItsCode, HasCode
<1>5. QED
  BY <1>2, <1>4

(* A code that was not used can be replaced; the used ones stay.           *)
LEMMA CodesAfterCode ==
    ASSUME Serial, NEW o, NEW row, otps' = Put(otps, o, row),
           UNCHANGED <<tenant, txs>>, o \in DOMAIN otps => ~otps[o].used
    PROVE  /\ RowsOK' /\ EveryBurnHasItsCode'
           /\ \A t : HasCode(t) => HasCode(t)'
<1>1. /\ DOMAIN otps' = DOMAIN otps \cup {o}
      /\ \A p \in DOMAIN otps \ {o} : otps'[p] = otps[p]
  BY DEF Put
<1>2. ASSUME NEW t, HasCode(t) PROVE HasCode(t)'
  BY <1>1, <1>2 DEF HasCode
<1>3. RowsOK'
  BY DEF Serial, RowsOK
<1>4. EveryBurnHasItsCode'
  BY <1>1 DEF Serial, EveryBurnHasItsCode, Active
<1>5. QED
  BY <1>2, <1>3, <1>4

LEMMA SerialCheckoutRequest ==
    ASSUME SerialCalls, IInv, Serial, Paid,
           NEW r \in Requests, CheckoutRequest(r)
    PROVE  Serial' /\ Paid'
<1>1. PICK amount \in Amounts, invoice \in Invoices \cup {NoInvoice},
           t \in TxIds :
        /\ IsNextId(t, txs, TxIds)
        /\ txs' = Put(txs, t, BurnTx(0, amount, invoice))
        /\ IF tenant.otp
           THEN Continue(r, [Idle EXCEPT !.pc = "newOtp", !.tx = t])
           ELSE UNCHANGED req
  BY DEF CheckoutRequest
<1>2. /\ Free(r) /\ req[r].pc = "idle"
      /\ UNCHANGED <<tenant, wallet, otps, now, failures>>
  BY DEF CheckoutRequest, Free
<1>w. PICK row : row = BurnTx(0, amount, invoice)
  OBVIOUS
<1>3. /\ row \in TxRows /\ row.type = "burn" /\ row.status = "not_confirmed"
  <2>1. amount \in Nat
    BY RedemptionAssumption
  <2>2. row \in TxRows
    BY <1>w, <2>1, BurnTxType
  <2>3. QED
    BY <2>2, <1>w DEF BurnTx, NoTx
<1>4. txs' = Put(txs, t, row) /\ t \notin DOMAIN txs
  BY <1>1, <1>w DEF IsNextId
<1>5. RowsOK' /\ EveryBurnHasItsCode'
  BY <1>2, <1>3, <1>4, CodesAfterRow
<1>6. Due' = Due
  BY <1>3, <1>4, DueAfter DEF IInv
<1>7. Counted => Settles(wallet.available, Due)
  BY <1>2, OneCallFacts DEF Paying
<1>m. PICK m : m = IF tenant.otp THEN [Idle EXCEPT !.pc = "newOtp", !.tx = t]
                                 ELSE req[r]
  OBVIOUS
<1>8. Continue(r, m)
  <2>1. CASE tenant.otp
    BY <2>1, <1>1, <1>m
  <2>2. CASE ~tenant.otp
    BY <2>2, <1>1, <1>m DEF Continue, IInv, TypeOK
  <2>3. QED
    BY <2>1, <2>2
<1>9. m.pc \in {"newOtp", "idle"} /\ (m.pc = "newOtp" => m.api = "checkout")
  <2>1. CASE tenant.otp
    BY <2>1, <1>m DEF Idle
  <2>2. CASE ~tenant.otp
    BY <2>2, <1>m, <1>2
  <2>3. QED
    BY <2>1, <2>2
<1>10. SerialOK(m)'
  BY <1>9 DEF SerialOK, PastCode, Confirming
<1>11. PayingOK(m)'
  BY <1>9 DEF PayingOK
<1>12. Counted => PayingOK(m)' /\ (m.pc \notin Paying => Settles(wallet'.available, Due'))
  BY <1>2, <1>6, <1>7, <1>11
<1>13. QED
  BY <1>2, <1>5, <1>8, <1>10, <1>12, OneCall

LEMMA SerialAddTransaction ==
    ASSUME SerialCalls, IInv, Serial, Paid,
           NEW r \in Requests, AddTransaction(r)
    PROVE  Serial' /\ Paid'
<1>1. req[r].pc = "addTx" /\ UNCHANGED <<tenant, wallet, otps, now, failures>>
  BY DEF AddTransaction, At
<1>2. /\ req[r] \in Handlers /\ SerialOK(req[r])
      /\ Counted => PayingOK(req[r]) /\ Settles(wallet.available, Due)
  BY <1>1, OneCallFacts DEF Paying
<1>3. CASE Return(r) /\ txs' = txs
  BY <1>1, <1>3, OneCallReturns DEF Paying
<1>4. CASE \E t \in TxIds :
             /\ IsNextId(t, txs, TxIds)
             /\ txs' = Put(txs, t, TxRow(req[r].ent))
             /\ IF tenant.otp
                THEN Continue(r, [req[r] EXCEPT !.pc = "findOtp", !.tx = t])
                ELSE Return(r)
  <2>1. PICK t \in TxIds :
             /\ IsNextId(t, txs, TxIds)
             /\ txs' = Put(txs, t, TxRow(req[r].ent))
             /\ IF tenant.otp
                THEN Continue(r, [req[r] EXCEPT !.pc = "findOtp", !.tx = t])
                ELSE Return(r)
    BY <1>4
  <2>w. PICK row : row = TxRow(req[r].ent)
    OBVIOUS
  <2>2. row \in TxRows /\ row.type = "burn" /\ row.status = "not_confirmed"
    BY <2>w, <1>1, <1>2, TxRowType DEF Handlers, SerialOK
  <2>3. txs' = Put(txs, t, row) /\ t \notin DOMAIN txs
    BY <2>1, <2>w DEF IsNextId
  <2>4. RowsOK' /\ EveryBurnHasItsCode'
    BY <1>1, <2>2, <2>3, CodesAfterRow
  <2>5. Due' = Due
    BY <2>2, <2>3, DueAfter DEF IInv
  <2>m. PICK m : m = IF tenant.otp
                     THEN [req[r] EXCEPT !.pc = "findOtp", !.tx = t] ELSE Idle
    OBVIOUS
  <2>6. Continue(r, m)
    BY <2>1, <2>m DEF Return, Continue
  <2>7. m.pc \in {"findOtp", "idle"} /\ (m.pc = "findOtp" => m.api = req[r].api)
    BY <2>m, <1>2 DEF Handlers, Idle
  <2>8. SerialOK(m)'
    BY <2>7 DEF SerialOK, PastCode, Confirming
  <2>9. PayingOK(req[r]) => PayingOK(m)'
    BY <1>1, <2>7 DEF PayingOK
  <2>10. Counted => PayingOK(m)' /\ (m.pc \notin Paying => Settles(wallet'.available, Due'))
    BY <1>1, <1>2, <2>5, <2>9
  <2>11. QED
    BY <1>1, <2>4, <2>6, <2>8, <2>10, OneCall
<1>5. QED
  BY <1>3, <1>4 DEF AddTransaction

(* A handler that writes a code that was not used, and goes on as m.       *)
LEMMA SerialWritesCode ==
    ASSUME SerialCalls, IInv, Serial, Paid, NEW r \in Requests, NEW m,
           Continue(r, m), req[r].pc \notin Paying \cup {"idle"},
           NEW o, NEW row, otps' = Put(otps, o, row),
           o \in DOMAIN otps => ~otps[o].used,
           UNCHANGED <<tenant, wallet, txs, failures>>,
           SerialOK(m)', m.pc \notin Paying, Counted => PayingOK(m)
    PROVE  Serial' /\ Paid'
<1>1. RowsOK' /\ EveryBurnHasItsCode'
  BY CodesAfterCode
<1>2. Due' = Due
  BY DEF Due, PointsIn, Active
<1>3. Counted => Settles(wallet.available, Due)
  BY OneCallFacts
<1>4. PayingOK(m) => PayingOK(m)'
  BY <1>2 DEF PayingOK
<1>5. Counted => PayingOK(m)' /\ (m.pc \notin Paying => Settles(wallet'.available, Due'))
  BY <1>2, <1>3, <1>4
<1>6. QED
  BY <1>1, <1>5, OneCall

LEMMA SerialWritesOtp ==
    ASSUME SerialCalls, IInv, Serial, Paid, NEW r \in Requests,
           RelinkOtp(r) \/ NewOtp(r) \/ TouchOtp(r)
    PROVE  Serial' /\ Paid'
<1>1. /\ req[r].pc \in {"relink", "newOtp", "touch"}
      /\ UNCHANGED <<tenant, wallet, txs, failures>> /\ Continue(r, Idle)
  BY DEF RelinkOtp, NewOtp, TouchOtp, At, Return, Continue
<1>2. SerialOK(req[r])
  BY <1>1, OneCallFacts
<1>3. SerialOK(Idle)' /\ PayingOK(Idle) /\ Idle.pc = "idle"
  BY DEF SerialOK, PayingOK, Idle, PastCode, Confirming
<1>4. \E o, row : /\ otps' = Put(otps, o, row)
                  /\ o \in DOMAIN otps => ~otps[o].used
  <2>1. CASE RelinkOtp(r)
    <3>1. /\ otps' = Put(otps, req[r].otp, [req[r].row EXCEPT !.tx = req[r].tx])
          /\ req[r].pc = "relink"
      BY <2>1 DEF RelinkOtp, At
    <3>2. ~otps[req[r].otp].used
      BY <1>2, <3>1 DEF SerialOK
    <3>3. QED
      BY <3>1, <3>2
  <2>2. CASE TouchOtp(r)
    <3>1. otps' = Put(otps, req[r].otp, req[r].row) /\ req[r].pc = "touch"
      BY <2>2 DEF TouchOtp, At
    <3>2. ~otps[req[r].otp].used
      BY <1>2, <3>1 DEF SerialOK
    <3>3. QED
      BY <3>1, <3>2
  <2>3. CASE NewOtp(r)
    BY <2>3 DEF NewOtp, IsNextId
  <2>4. QED
    BY <2>1, <2>2, <2>3
<1>5. PICK o, row : /\ otps' = Put(otps, o, row)
                    /\ o \in DOMAIN otps => ~otps[o].used
  BY <1>4
<1>6. /\ req[r].pc \notin Paying \cup {"idle"} /\ Idle.pc \notin Paying
  BY <1>1, <1>3 DEF Paying
<1>7. QED
  BY <1>1, <1>3, <1>5, <1>6, SerialWritesCode

LEMMA SerialConsumeOtp ==
    ASSUME SerialCalls, IInv, Serial, Paid, NEW r \in Requests, ConsumeOtp(r)
    PROVE  Serial' /\ Paid'
<1>1. /\ req[r].pc = "consume"
      /\ otps' = Put(otps, req[r].otp, [req[r].row EXCEPT !.used = TRUE])
      /\ Continue(r, AfterOtp(req[r]))
      /\ UNCHANGED <<tenant, wallet, txs, failures>>
  BY DEF ConsumeOtp, At
<1>2. /\ req[r] \in Handlers /\ SerialOK(req[r])
      /\ Counted => PayingOK(req[r])
  BY <1>1, OneCallFacts
<1>o. PICK o, row : o = req[r].otp /\ row = [req[r].row EXCEPT !.used = TRUE]
  OBVIOUS
<1>3. /\ otps' = Put(otps, o, row) /\ ~otps[o].used
      /\ req[r].row \in OtpRows
  BY <1>1, <1>2, <1>o DEF SerialOK, Handlers
<1>4. row.used /\ row.tx = req[r].row.tx
  BY <1>3, <1>o DEF OtpRows
<1>5. otps'[o] = row /\ o \in DOMAIN otps'
  BY <1>3 DEF Put
<1>m. PICK m : m = AfterOtp(req[r])
  OBVIOUS
<1>6. CASE req[r].tx = 0
  <2>1. m = Idle
    BY <1>6, <1>m DEF AfterOtp
  <2>2. SerialOK(m)' /\ PayingOK(m) /\ m.pc = "idle"
    BY <2>1 DEF SerialOK, PayingOK, Idle, PastCode, Confirming
  <2>3. /\ req[r].pc \notin Paying \cup {"idle"} /\ m.pc \notin Paying
    BY <1>1, <2>2 DEF Paying
  <2>4. QED
    BY <1>1, <1>3, <1>m, <2>2, <2>3, SerialWritesCode
<1>7. CASE req[r].tx # 0
  <2>1. /\ m.pc = IF req[r].api = "checkout" THEN "loadWallet" ELSE "apply"
        /\ m.tx = req[r].tx /\ m.api = req[r].api /\ m.ent = req[r].ent
    BY <1>2, <1>7, <1>m DEF AfterOtp, Handlers
  <2>2. row.tx = m.tx
    BY <1>1, <1>2, <1>4, <1>7, <2>1 DEF SerialOK
  <2>3. HasCode(m.tx)'
    BY <1>4, <1>5, <2>2 DEF HasCode
  <2>4. /\ m.tx \in DOMAIN txs /\ txs[m.tx].status = "not_confirmed"
        /\ m.ent.type = "burn"
    BY <1>1, <1>2, <1>7, <2>1 DEF SerialOK, Confirming
  <2>5. SerialOK(m)'
    BY <1>1, <2>1, <2>3, <2>4 DEF SerialOK
  <2>6. PayingOK(req[r]) => PayingOK(m)
    BY <1>1, <2>1 DEF PayingOK
  <2>7. /\ req[r].pc \notin Paying \cup {"idle"} /\ m.pc \notin Paying
    BY <1>1, <2>1 DEF Paying
  <2>8. QED
    BY <1>1, <1>2, <1>3, <1>m, <2>5, <2>6, <2>7, SerialWritesCode
<1>8. QED
  BY <1>6, <1>7

LEMMA SerialSaveTx ==
    ASSUME SerialCalls, IInv, Serial, Paid, NEW r \in Requests, SaveTx(r)
    PROVE  Serial' /\ Paid'
<1>1. /\ req[r].pc = "saveTx" /\ txs' = Put(txs, req[r].tx, TxRow(req[r].ent))
      /\ Continue(r, [req[r] EXCEPT !.pc = "saveWallet"])
      /\ UNCHANGED <<tenant, wallet, otps, failures>>
  BY DEF SaveTx, At
<1>2. /\ req[r] \in Handlers /\ SerialOK(req[r]) /\ HandlerOK(req[r])
      /\ Counted => PayingOK(req[r]) /\ Settles(wallet.available, Due)
  BY <1>1, OneCallFacts DEF Paying
<1>o. PICK t, row : t = req[r].tx /\ row = TxRow(req[r].ent)
  OBVIOUS
<1>3. /\ t \in DOMAIN txs /\ txs[t].status = "not_confirmed"
      /\ row.type = "burn" /\ row.status = "active" /\ row \in TxRows
      /\ tenant.otp => HasCode(t)
  <2>1. /\ req[r].tx \in DOMAIN txs
        /\ txs[req[r].tx].status = "not_confirmed"
        /\ req[r].ent.type = "burn" /\ req[r].ent.status = "active"
        /\ req[r].ent \in TxRows
        /\ tenant.otp => HasCode(req[r].tx)
    BY <1>1, <1>2 DEF SerialOK, HandlerOK, Handlers, Confirming, PastCode
  <2>2. QED
    BY <2>1, <1>o, TxRowType
<1>4. txs' = Put(txs, t, row) /\ t \in TxIds
  BY <1>1, <1>3, <1>o DEF IInv, TypeOK
<1>5. RowsOK' /\ EveryBurnHasItsCode'
  BY <1>1, <1>3, <1>4, CodesAfterRow
<1>6. Due' = Due - row.points
  BY <1>3, <1>4, DueAfter DEF IInv
<1>m. PICK m : m = [req[r] EXCEPT !.pc = "saveWallet"]
  OBVIOUS
<1>7. /\ m.pc = "saveWallet" /\ m.wal = req[r].wal /\ m.pts = req[r].pts
      /\ m.api = req[r].api
  BY <1>m, <1>2 DEF Handlers
<1>8. SerialOK(m)'
  BY <1>7 DEF SerialOK, PastCode, Confirming
<1>9. Counted => PayingOK(m)'
  <2> SUFFICES ASSUME Counted PROVE PayingOK(m)'
    OBVIOUS
  <2>1. /\ req[r].wal = wallet /\ req[r].ent.points = req[r].pts
        /\ req[r].api = "checkout" /\ Settles(wallet.available, Due)
    BY <1>1, <1>2 DEF PayingOK
  <2>2. row.points = Stored(req[r].pts)
    BY <1>2, <1>o, <2>1, TxRowType DEF Handlers
  <2>3. /\ req[r].pts \in Nat /\ wallet.available \in Int /\ Due \in Int
        /\ Whole(req[r].pts) \/ req[r].pts = wallet.available
    BY <1>1, <1>2, <1>3, <1>4, <2>1, DueAfter
       DEF HandlerOK, Handlers, IInv, TypeOK, Wallets
  <2>4. Settles(wallet.available - req[r].pts, Due - Stored(req[r].pts))
    BY <2>1, <2>3, BurnSettles
  <2>5. Settles(m.wal.available - m.pts, Due')
    BY <1>6, <1>7, <2>1, <2>2, <2>4, Zenon
  <2>6. QED
    BY <1>7, <2>1, <2>5 DEF PayingOK
<1>10. m.pc \in Paying
  BY <1>7 DEF Paying
<1>11. QED
  BY <1>1, <1>5, <1>8, <1>9, <1>10, <1>m, OneCall

LEMMA SerialAddRefund ==
    ASSUME SerialCalls, IInv, Serial, Paid, NEW r \in Requests, AddRefund(r)
    PROVE  Serial' /\ Paid'
<1>1. PICK t \in TxIds : /\ IsNextId(t, txs, TxIds)
                         /\ txs' = Put(txs, t, TxRow(req[r].ent))
  BY DEF AddRefund
<1>2. /\ req[r].pc = "addRefund"
      /\ Continue(r, [req[r] EXCEPT !.pc = "refundWallet"])
      /\ UNCHANGED <<tenant, wallet, otps, failures>>
  BY DEF AddRefund, At
<1>3. /\ req[r] \in Handlers /\ SerialOK(req[r]) /\ HandlerOK(req[r])
      /\ Counted => PayingOK(req[r]) /\ Settles(wallet.available, Due)
  BY <1>2, OneCallFacts DEF Paying
<1>o. PICK row : row = TxRow(req[r].ent)
  OBVIOUS
<1>4. /\ row.type = "adjustment" /\ row.status = "active" /\ row \in TxRows
      /\ row.points = Stored(req[r].pts)
  <2>1. /\ req[r].ent.type = "adjustment" /\ req[r].ent.status = "active"
        /\ req[r].ent.points = req[r].pts /\ req[r].ent \in TxRows
    BY <1>2, <1>3 DEF SerialOK, Handlers
  <2>2. QED
    BY <2>1, <1>o, TxRowType
<1>5. txs' = Put(txs, t, row) /\ t \notin DOMAIN txs
  BY <1>1, <1>o DEF IsNextId
<1>6. RowsOK' /\ EveryBurnHasItsCode'
  BY <1>2, <1>4, <1>5, CodesAfterRow
<1>7. Due' = Due + row.points
  BY <1>4, <1>5, DueAfter DEF IInv
<1>m. PICK m : m = [req[r] EXCEPT !.pc = "refundWallet"]
  OBVIOUS
<1>8. m.pc = "refundWallet" /\ m.pts = req[r].pts /\ m.api = req[r].api
  BY <1>m, <1>3 DEF Handlers
<1>9. SerialOK(m)'
  BY <1>8 DEF SerialOK, PastCode, Confirming
<1>10. Counted => PayingOK(m)'
  <2> SUFFICES ASSUME Counted PROVE PayingOK(m)'
    OBVIOUS
  <2>1. req[r].api = "checkout"
    BY <1>2, <1>3 DEF PayingOK
  <2>2. /\ req[r].pts \in Nat /\ wallet.available \in Int /\ Due \in Int
        /\ Whole(req[r].pts) /\ Settles(wallet.available, Due)
    BY <1>2, <1>3, <1>4, <1>5, DueAfter
       DEF HandlerOK, Handlers, IInv, TypeOK, Wallets
  <2>3. Settles(wallet.available + req[r].pts, Due + Stored(req[r].pts))
    BY <2>2, RefundSettles
  <2>4. Settles(wallet'.available + m.pts, Due')
    <3>1. wallet' = wallet
      BY <1>2
    <3>2. QED
      BY <1>4, <1>7, <1>8, <2>3, <3>1, Zenon
  <2>5. QED
    BY <1>8, <2>1, <2>4 DEF PayingOK
<1>11. m.pc \in Paying
  BY <1>8 DEF Paying
<1>12. QED
  BY <1>2, <1>6, <1>9, <1>10, <1>11, <1>m, OneCall

LEMMA SerialSaves ==
    ASSUME SerialCalls, IInv, Serial, Paid, NEW r \in Requests,
           SaveWallet(r) \/ SaveRefund(r)
    PROVE  Serial' /\ Paid'
<1>1. /\ req[r].pc \in {"saveWallet", "saveRefund"} /\ Continue(r, Idle)
      /\ UNCHANGED <<tenant, txs, otps, failures>>
  BY DEF SaveWallet, SaveRefund, At, Return, Continue
<1>2. Counted => PayingOK(req[r])
  BY <1>1, OneCallFacts
<1>3. RowsOK' /\ EveryBurnHasItsCode' /\ Due' = Due
  BY <1>1 DEF Serial, RowsOK, EveryBurnHasItsCode, Due, PointsIn, Active
<1>4. SerialOK(Idle)' /\ PayingOK(Idle)'
  BY DEF SerialOK, PayingOK, Idle, PastCode, Confirming
<1>5. Counted => Settles(wallet'.available, Due)
  BY <1>2 DEF SaveWallet, SaveRefund, At, PayingOK, WalletRow
<1>6. QED
  BY <1>1, <1>3, <1>4, <1>5, OneCall

LEMMA SerialFail ==
    ASSUME SerialCalls, IInv, Serial, NEW r \in Requests, Fail(r)
    PROVE  Serial' /\ Paid'
<1>1. /\ Continue(r, Idle) /\ req[r].pc # "idle"
      /\ UNCHANGED <<tenant, wallet, txs, otps>> /\ failures' = failures + 1
  BY DEF Fail, Return, Continue
<1>2. RowsOK' /\ EveryBurnHasItsCode'
  BY <1>1 DEF Serial, RowsOK, EveryBurnHasItsCode, Active
<1>3. SerialOK(Idle)'
  BY DEF SerialOK, Idle, PastCode, Confirming
<1>4. Serial'
  BY <1>1, <1>2, <1>3, OneMoves
<1>5. failures' # 0
  BY <1>1, RedemptionAssumption DEF IInv, TypeOK
<1>6. QED
  BY <1>4, <1>5 DEF Paid, Counted

LEMMA SerialUnmoved ==
    ASSUME Serial, Paid, UNCHANGED <<tenant, wallet, txs, otps, req, failures>>
    PROVE  Serial' /\ Paid'
<1>1. Serial'
  BY DEF Serial, RowsOK, EveryBurnHasItsCode, Active, InFlight, SerialOK,
         HasCode, PastCode
<1>2. Due' = Due
  BY DEF Due, PointsIn, Active
<1>3. Paid'
  BY <1>2 DEF Paid, Counted, PayingOK
<1>4. QED
  BY <1>1, <1>3

LEMMA SerialStarts == Init => Serial /\ Paid
<1> SUFFICES ASSUME Init PROVE Serial /\ Paid
  OBVIOUS
<1>1. DOMAIN txs = {} /\ \A r \in Requests : req[r] = Idle /\ req[r].pc = "idle"
  BY DEF Init, Idle
<1>2. SerialOK(Idle) /\ PayingOK(Idle)
  BY DEF SerialOK, PayingOK, Idle, PastCode, Confirming
<1>3. Active("burn") = {} /\ Active("adjustment") = {}
  BY <1>1 DEF Active
<1>4. PointsIn({}) = 0
  BY SumOfNone DEF PointsIn
<1>5. Settles(wallet.available, Due)
  <2>1. InitialPoints \in Nat /\ wallet.available = InitialPoints
    BY RedemptionAssumption DEF Init
  <2>2. PointsIn(Active("burn")) = 0 /\ PointsIn(Active("adjustment")) = 0
    BY <1>3, <1>4
  <2>3. /\ wallet.available = Due
        /\ wallet.available - InitialPoints = 0
    BY <2>1, <2>2 DEF Due
  <2>4. QED
    BY <2>3, ZeroIsWhole, Zenon DEF Settles
<1>6. QED
  BY <1>1, <1>2, <1>3, <1>5 DEF Serial, Paid, InFlight, RowsOK,
                                EveryBurnHasItsCode

LEMMA SerialKept ==
    ASSUME SerialCalls, IInv, Serial, Paid, [Next]_vars
    PROVE  Serial' /\ Paid'
<1>1. ASSUME NEW r \in Requests, Request(r) PROVE Serial' /\ Paid'
  BY <1>1, SerialCheckoutRequest, SerialBurningRequest, SerialAddTransaction,
     SerialFindOtp, SerialWritesOtp DEF Request
<1>2. ASSUME NEW r \in Requests, Confirm(r) PROVE Serial' /\ Paid'
  <2>1. CASE ConfirmRefused(r)
    BY <2>1, SerialUnmoved DEF ConfirmRefused, vars
  <2>2. QED
    BY <1>2, <2>1, SerialConfirmBegin, SerialCheckOtp, SerialConsumeOtp,
       SerialCheckoutLoadWallet, SerialBurningLoadWallet, SerialBurningApply,
       SerialSaveTx, SerialSaves DEF Confirm
<1>3. ASSUME NEW r \in Requests, Refund(r) PROVE Serial' /\ Paid'
  BY <1>3, SerialRefundBegin, SerialAddRefund, SerialRefundLoadWallet,
     SerialSaves DEF Refund
<1>4. ASSUME NEW r \in Requests, OtpEndpoints(r) PROVE Serial' /\ Paid'
  BY <1>4, SerialGenerate, SerialWritesOtp, SerialGenerateFinds
     DEF OtpEndpoints
<1>5. ASSUME NEW r \in Requests, Fail(r) PROVE Serial' /\ Paid'
  BY <1>5, SerialFail
<1>6. CASE Tick
  BY <1>6, SerialUnmoved DEF Tick
<1>7. CASE UNCHANGED vars
  BY <1>7, SerialUnmoved DEF vars
<1>8. QED
  BY <1>1, <1>2, <1>3, <1>4, <1>5, <1>6, <1>7 DEF Next

(* Both invariants hold together in every state of serial handlers.        *)
THEOREM SerialAlways == ASSUME SerialCalls PROVE Spec => [](Serial /\ Paid)
<1>1. Init => IInv /\ Serial /\ Paid
  BY InitOK, SerialStarts
<1>2. IInv /\ Serial /\ Paid /\ [Next]_vars => (IInv /\ Serial /\ Paid)'
  BY NextOK, SerialKept
<1>3. QED
  BY <1>1, <1>2, PTL DEF Spec

(* Handlers one at a time, dying half-way or not: every confirmed burn of  *)
(* a tenant that requires codes has a consumed code of its own.  The code  *)
(* is consumed before the burn is saved, and no consumed code is linked to *)
(* another burn, because only active codes are re-linked.                  *)
THEOREM BurnsHaveCodes == ASSUME SerialCalls PROVE Spec => []EveryBurnHasItsCode
<1>1. Serial => EveryBurnHasItsCode
  BY DEF Serial
<1>2. QED
  BY <1>1, SerialAlways, PTL

(* Handlers one at a time, none dying half-way: the balance is the points  *)
(* at the start less the confirmed burns plus the refunds on the ledger of *)
(* the checkout API, whatever was asked for, capped, rounded, refused or   *)
(* refunded: to half a point, which no number of burns adds up.            *)
THEOREM CheckoutLedgerBalances ==
    ASSUME SerialCalls PROVE Spec => []CheckoutLedgerBalanced
<1>1. IInv /\ Paid => CheckoutLedgerBalanced
  <2> SUFFICES ASSUME IInv, Paid, CheckoutAtRest
               PROVE  Due - 50 <= wallet.available /\ wallet.available <= Due + 50
    BY DEF CheckoutLedgerBalanced, Due
  <2>1. Counted /\ \A r \in Requests : req[r].pc \notin Paying
    BY DEF CheckoutAtRest, Counted, InFlight, Paying
  <2>2. Settles(wallet.available, Due)
    BY <2>1 DEF Paid
  <2>3. wallet.available \in Int
    BY DEF IInv, TypeOK, Wallets
  <2>4. Due \in Int
    <3>1. /\ PointsIn(Active("burn")) \in Nat
          /\ PointsIn(Active("adjustment")) \in Nat
      BY ActivePoints DEF IInv
    <3>2. QED
      BY <3>1, RedemptionAssumption DEF Due
  <2>5. QED
    BY <2>2, <2>3, <2>4, SettledIsNear
<1>2. QED
  BY <1>1, Invariance, SerialAlways, PTL

=============================================================================
