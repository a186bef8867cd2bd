------------------------- MODULE PointsLifecycleProofs -------------------------
(***************************************************************************)
(* What holds of the crons of one instance, for any number of requests,    *)
(* any settings, any failures and every bound.                             *)
(***************************************************************************)
EXTENDS PointsLifecycle, SharedLemmas

(* The deployment these theorems are about: nobody else runs the crons.    *)
SingleInstance == \A i, j \in Instances : i = j

-----------------------------------------------------------------------------
(* The inductive invariant.                                                *)

Entities == {"pc", "wal", "row", "queue", "snap", "tx"}
Columns == {"type", "status", "points", "unlock", "expiry", "dated", "source"}
Statuses == {"pending", "active", "expired"}

Formed ==
    /\ DOMAIN run = Handlers
    /\ \A h \in Handlers : DOMAIN run[h] = Entities
    /\ DOMAIN txs \subseteq TxIds
    /\ \A t \in DOMAIN txs : /\ DOMAIN txs[t] = Columns
                             /\ txs[t].status \in Statuses
    /\ failures \in Nat

(* A row about to be inserted.                                             *)
NewRow(row) == DOMAIN row = Columns /\ row.status \in {"pending", "active"}

RequestOK(m) ==
    /\ m.pc \in {"idle", "insert", "save", "credit", "creditSave", "creditTx"}
    /\ m.pc \in {"insert", "credit", "creditSave", "creditTx"} =>
          NewRow(m.row) /\ m.row.type # "expire"

(* The rows of a batch are as the query of the cron found them, until it   *)
(* marks them itself; the transaction in hand is one of them.              *)
BatchOK(m, status) ==
    /\ m.pc # "idle" =>
          /\ m.queue \subseteq DOMAIN txs
          /\ \A t \in m.queue : txs[t].type = "earn" /\ txs[t].status = status
    /\ m.pc \notin {"idle", "next"} => m.tx \in m.queue

UnlockOK(m) ==
    /\ m.pc \in {"idle", "next", "save", "mark"}
    /\ BatchOK(m, "pending")

ExpiryOK(m) ==
    /\ m.pc \in {"idle", "next", "load", "insert", "save", "mark"}
    /\ BatchOK(m, "active")
    /\ m.pc \in {"load", "insert"} =>
          NewRow(m.row) /\ m.row.type = "expire" /\ m.row.source = m.tx

HandlersOK == /\ \A r \in Requests : RequestOK(run[r])
              /\ \A c \in Unlocks : UnlockOK(run[c])
              /\ \A c \in Expiries : ExpiryOK(run[c])

(* A transaction has an EXPIRE row only if it has expired, or the cron     *)
(* that inserted the row has yet to mark it.                               *)
Marking(t) == \E c \in Expiries : run[c].pc \in {"save", "mark"} /\ run[c].tx = t

ExpiryRowsOK ==
    \A e \in DOMAIN txs : txs[e].type = "expire" =>
       /\ txs[e].source \in DOMAIN txs
       /\ txs[txs[e].source].status = "expired" \/ Marking(txs[e].source)
       /\ \A f \in DOMAIN txs :
            txs[f].type = "expire" /\ txs[f].source = txs[e].source => f = e

LInv == Formed /\ HandlersOK /\ (failures = 0 => ExpiryRowsOK)

-----------------------------------------------------------------------------
(* Handlers.                                                               *)

(* A request is no cron, and one instance has one cron of each kind.       *)
LEMMA Kinds ==
    /\ Requests \cap Crons = {}
    /\ Unlocks \cap Expiries = {}
    /\ SingleInstance => /\ \A c, d \in Unlocks : c = d
                         /\ \A c, d \in Expiries : c = d
<1>1. Requests \cap Crons = {}
  BY LifecycleAssumption DEF Crons, Unlocks, Expiries
<1>2. Unlocks \cap Expiries = {}
  BY DEF Unlocks, Expiries
<1>3. ASSUME SingleInstance
      PROVE  /\ \A c, d \in Unlocks : c = d
             /\ \A c, d \in Expiries : c = d
  BY <1>3 DEF SingleInstance, Unlocks, Expiries
<1>4. QED
  BY <1>1, <1>2, <1>3

LEMMA IdleForm == DOMAIN Idle = Entities /\ Idle.pc = "idle"
  BY DEF Idle, Entities

LEMMA NoTxForm == DOMAIN NoTx = Columns
  BY DEF NoTx, Columns

LEMMA Started == Init => LInv
<1> SUFFICES ASSUME Init PROVE LInv
  OBVIOUS
<1>1. Formed
  BY IdleForm DEF Init, Formed
<1>2. \A h \in Handlers : run[h].pc = "idle"
  BY IdleForm DEF Init
<1>3. HandlersOK
  BY <1>2 DEF HandlersOK, RequestOK, UnlockOK, ExpiryOK, BatchOK, Handlers,
              Crons
<1>4. ExpiryRowsOK
  BY DEF Init, ExpiryRowsOK
<1>5. QED
  BY <1>1, <1>3, <1>4 DEF LInv

(* A step that leaves the table alone and one handler in order.            *)
LEMMA Moves ==
    ASSUME LInv, NEW h \in Handlers, NEW m, Continue(h, m),
           DOMAIN m = Entities,
           h \in Requests => RequestOK(m),
           h \in Unlocks => UnlockOK(m),
           h \in Expiries => ExpiryOK(m),
           h \in Expiries /\ run[h].pc \in {"save", "mark"} =>
              m.pc \in {"save", "mark"} /\ m.tx = run[h].tx,
           UNCHANGED <<txs, failures>>
    PROVE  LInv'
<1>1. /\ DOMAIN run' = Handlers
      /\ run'[h] = m
      /\ \A g \in Handlers \ {h} : run'[g] = run[g]
  BY DEF LInv, Formed, Continue
<1>2. Formed'
  BY <1>1 DEF LInv, Formed
<1>3. HandlersOK'
  <2>1. ASSUME NEW r \in Requests PROVE RequestOK(run'[r])
    BY <2>1, <1>1 DEF LInv, HandlersOK, Handlers
  <2>2. ASSUME NEW c \in Unlocks PROVE UnlockOK(run[c])'
    BY <2>2, <1>1 DEF LInv, HandlersOK, Handlers, Crons, UnlockOK, BatchOK
  <2>3. ASSUME NEW c \in Expiries PROVE ExpiryOK(run[c])'
    BY <2>3, <1>1 DEF LInv, HandlersOK, Handlers, Crons, ExpiryOK, BatchOK
  <2>4. QED
    BY <2>1, <2>2, <2>3 DEF HandlersOK, RequestOK
<1>4. ASSUME NEW t, Marking(t) PROVE Marking(t)'
  BY <1>4, <1>1 DEF Marking, Handlers, Crons
<1>5. ExpiryRowsOK => ExpiryRowsOK'
  BY <1>4 DEF ExpiryRowsOK
<1>6. QED
  BY <1>2, <1>3, <1>5 DEF LInv

LEMMA Unmoved == ASSUME LInv, UNCHANGED vars PROVE LInv'
  BY DEF LInv, Formed, HandlersOK, RequestOK, UnlockOK, ExpiryOK, BatchOK,
         ExpiryRowsOK, Marking, NewRow, vars

(* Likewise, for a handler that returns before it has anything to mark.    *)
LEMMA Returns ==
    ASSUME LInv, NEW h \in Handlers, Return(h),
           h \in Expiries => run[h].pc \notin {"save", "mark"},
           UNCHANGED <<txs, failures>>
    PROVE  LInv'
  BY Moves, IdleForm
     DEF Return, RequestOK, UnlockOK, ExpiryOK, BatchOK

-----------------------------------------------------------------------------
(* The table.                                                              *)

(* Storing a row rounds its points, and only them.                         *)
LEMMA InTableForm ==
    ASSUME NEW row, DOMAIN row = Columns
    PROVE  /\ DOMAIN InTable(row) = Columns
           /\ InTable(row).status = row.status /\ InTable(row).type = row.type
           /\ InTable(row).source = row.source
           /\ InTable(row).points = Stored(row.points)
  BY DEF InTable, Columns

LEMMA InsertAdds ==
    ASSUME Formed, NEW row, Insert(row)
    PROVE  \E t \in TxIds \ DOMAIN txs :
              /\ DOMAIN txs' = DOMAIN txs \cup {t}
              /\ txs'[t] = row
              /\ \A s \in DOMAIN txs : txs'[s] = txs[s]
  BY DEF Insert

(* Inserting a row moves no other row.                                     *)
LEMMA InsertForms ==
    ASSUME LInv, NEW row, NewRow(row), Insert(row), failures' = failures,
           DOMAIN run' = Handlers, \A h \in Handlers : DOMAIN run'[h] = Entities
    PROVE  Formed'
<1>1. PICK t \in TxIds \ DOMAIN txs :
              /\ DOMAIN txs' = DOMAIN txs \cup {t}
              /\ txs'[t] = row
              /\ \A s \in DOMAIN txs : txs'[s] = txs[s]
  BY InsertAdds DEF LInv
<1>2. QED
  BY <1>1 DEF LInv, Formed, NewRow, Statuses

LEMMA BatchesKept ==
    ASSUME Formed, NEW row, Insert(row), NEW m, NEW status, BatchOK(m, status)
    PROVE  /\ m.pc # "idle" =>
                /\ m.queue \subseteq DOMAIN txs'
                /\ \A t \in m.queue : /\ txs'[t].type = "earn"
                                      /\ txs'[t].status = status
           /\ m.pc \notin {"idle", "next"} => m.tx \in m.queue
  BY InsertAdds DEF BatchOK

(* A step that inserts a row that is no EXPIRE.                            *)
LEMMA RequestInserts ==
    ASSUME LInv, NEW r \in Requests, NEW m, Continue(r, m),
           DOMAIN m = Entities, RequestOK(m),
           NEW row, NewRow(row), row.type # "expire", Insert(row),
           failures' = failures
    PROVE  LInv'
<1>1. /\ DOMAIN run' = Handlers
      /\ run'[r] = m
      /\ \A g \in Handlers \ {r} : run'[g] = run[g]
  BY DEF LInv, Formed, Continue, Handlers
<1>2. Formed'
  BY <1>1, InsertForms DEF LInv, Formed, Handlers
<1>3. \A c \in Crons : run'[c] = run[c]
  BY <1>1, Kinds DEF Handlers
<1>4. HandlersOK'
  <2>1. ASSUME NEW q \in Requests PROVE RequestOK(run'[q])
    BY <2>1, <1>1 DEF LInv, HandlersOK, Handlers
  <2>2. ASSUME NEW c \in Unlocks PROVE UnlockOK(run[c])'
    BY <2>2, <1>3, BatchesKept
       DEF LInv, HandlersOK, Crons, UnlockOK, BatchOK
  <2>3. ASSUME NEW c \in Expiries PROVE ExpiryOK(run[c])'
    BY <2>3, <1>3, BatchesKept
       DEF LInv, HandlersOK, Crons, ExpiryOK, BatchOK
  <2>4. QED
    BY <2>1, <2>2, <2>3 DEF HandlersOK, RequestOK
<1>5. ASSUME NEW t, Marking(t) PROVE Marking(t)'
  BY <1>5, <1>3 DEF Marking, Crons
<1>6. ExpiryRowsOK => ExpiryRowsOK'
  <2>1. PICK t \in TxIds \ DOMAIN txs :
              /\ DOMAIN txs' = DOMAIN txs \cup {t}
              /\ txs'[t] = row
              /\ \A s \in DOMAIN txs : txs'[s] = txs[s]
    BY InsertAdds DEF LInv
  <2>2. QED
    BY <2>1, <1>5 DEF ExpiryRowsOK
<1>7. QED
  BY <1>2, <1>4, <1>6 DEF LInv

(* The expiry cron inserts the EXPIRE row of the transaction in hand, of   *)
(* which there is none yet.                                                *)
LEMMA CronInserts ==
    ASSUME SingleInstance, LInv, NEW c \in Expiries, InsertTx(c)
    PROVE  LInv'
<1> DEFINE row == InTable(run[c].row)
           m == [run[c] EXCEPT !.pc = "save", !.wal = Booked(@, run[c].row)]
<1>1. /\ c \in Crons /\ c \in Handlers
      /\ Formed /\ HandlersOK /\ ExpiryOK(run[c])
      /\ run[c].pc = "insert"
      /\ Insert(row) /\ Continue(c, m) /\ failures' = failures
  BY DEF LInv, HandlersOK, InsertTx, At, Handlers, Crons
<1>2. /\ NewRow(row) /\ row.type = "expire" /\ row.source = run[c].tx
      /\ run[c].tx \in run[c].queue /\ run[c].queue \subseteq DOMAIN txs
      /\ \A t \in run[c].queue : txs[t].type = "earn" /\ txs[t].status = "active"
  <2>1. NewRow(run[c].row) /\ run[c].row.type = "expire" /\ run[c].row.source = run[c].tx
    BY <1>1 DEF ExpiryOK
  <2>2. NewRow(row) /\ row.type = "expire" /\ row.source = run[c].tx
    BY <2>1, InTableForm DEF NewRow
  <2>3. QED
    BY <1>1, <2>2 DEF ExpiryOK, BatchOK
<1>3. /\ DOMAIN m = Entities /\ m.pc = "save"
      /\ m.queue = run[c].queue /\ m.tx = run[c].tx
  BY <1>1 DEF Formed, Entities
<1> HIDE DEF m, row
<1>4. /\ DOMAIN run' = Handlers
      /\ run'[c] = m
      /\ \A g \in Handlers \ {c} : run'[g] = run[g]
  BY <1>1 DEF Formed, Continue
<1>5. Formed'
  <2>1. \A h \in Handlers : DOMAIN run'[h] = Entities
    BY <1>1, <1>3, <1>4 DEF Formed
  <2>2. QED
    BY <1>1, <1>2, <1>4, <2>1, InsertForms
<1>6. HandlersOK'
  <2>1. ASSUME NEW q \in Requests PROVE RequestOK(run'[q])
    BY <2>1, <1>1, <1>4, Kinds DEF HandlersOK, Handlers
  <2>2. ASSUME NEW d \in Unlocks PROVE UnlockOK(run[d])'
    <3>1. run'[d] = run[d] /\ UnlockOK(run[d])
      BY <2>2, <1>1, <1>4, Kinds DEF HandlersOK, Handlers, Crons
    <3>2. QED
      BY <3>1, <1>1, BatchesKept DEF UnlockOK, BatchOK
  <2>3. ASSUME NEW d \in Expiries PROVE ExpiryOK(run[d])'
    <3>1. run'[d] = m
      BY <2>3, <1>4, Kinds
    <3>2. ExpiryOK(run[c]) /\ BatchOK(run[c], "active")
      BY <1>1 DEF ExpiryOK
    <3>3. QED
      BY <3>1, <3>2, <1>1, <1>3, BatchesKept DEF ExpiryOK, BatchOK
  <2>4. QED
    BY <2>1, <2>2, <2>3 DEF HandlersOK, RequestOK
<1>7. ExpiryRowsOK => ExpiryRowsOK'
  <2> SUFFICES ASSUME ExpiryRowsOK PROVE ExpiryRowsOK'
    OBVIOUS
  <2>1. PICK t \in TxIds \ DOMAIN txs :
              /\ DOMAIN txs' = DOMAIN txs \cup {t}
              /\ txs'[t] = row
              /\ \A s \in DOMAIN txs : txs'[s] = txs[s]
    BY <1>1, InsertAdds
  <2>2. \A s : ~Marking(s)
    BY <1>1, Kinds DEF Marking
  <2>3. \A e \in DOMAIN txs : txs[e].type = "expire" =>
             txs[e].source # run[c].tx
    BY <1>2, <2>2 DEF ExpiryRowsOK
  <2>4. \A s : s = run[c].tx => Marking(s)'
    BY <1>3, <1>4 DEF Marking
  <2>5. ASSUME NEW e \in DOMAIN txs', txs'[e].type = "expire"
        PROVE  /\ txs'[e].source \in DOMAIN txs'
               /\ txs'[txs'[e].source].status = "expired"
                     \/ Marking(txs[e].source)'
               /\ \A f \in DOMAIN txs' :
                    txs'[f].type = "expire" /\ txs'[f].source = txs'[e].source
                      => f = e
    <3>1. CASE e = t
      <4>1. txs'[e].source = run[c].tx /\ run[c].tx \in DOMAIN txs'
        BY <3>1, <2>1, <1>2
      <4>2. QED
        BY <4>1, <3>1, <2>1, <2>3, <2>4
    <3>2. CASE e # t
      <4>1. e \in DOMAIN txs /\ txs'[e] = txs[e]
        BY <2>5, <3>2, <2>1
      <4>2. /\ txs[e].source \in DOMAIN txs
            /\ txs[txs[e].source].status = "expired"
        BY <4>1, <2>5, <2>2 DEF ExpiryRowsOK
      <4>3. \A f \in DOMAIN txs :
              txs[f].type = "expire" /\ txs[f].source = txs[e].source => f = e
        BY <4>1, <2>5 DEF ExpiryRowsOK
      <4>4. txs[e].source # run[c].tx
        BY <4>1, <2>5, <2>3
      <4>5. QED
        BY <4>1, <4>2, <4>3, <4>4, <2>1, <1>2
    <3>3. QED
      BY <3>1, <3>2
  <2>6. QED
    BY <2>5 DEF ExpiryRowsOK
<1>8. QED
  BY <1>1, <1>5, <1>6, <1>7 DEF LInv

(* A cron marks the transaction in hand: no other row, and nothing but its *)
(* status.                                                                 *)
LEMMA MarkSets ==
    ASSUME Formed, NEW c, Mark(c), run[c].tx \in DOMAIN txs
    PROVE  /\ DOMAIN txs' = DOMAIN txs
           /\ \A t \in DOMAIN txs :
                /\ DOMAIN txs'[t] = Columns
                /\ txs'[t].type = txs[t].type /\ txs'[t].source = txs[t].source
                /\ txs'[t].status =
                      IF t # run[c].tx THEN txs[t].status
                      ELSE IF c \in Unlocks THEN "active" ELSE "expired"
<1> DEFINE status == IF c \in Unlocks THEN "active" ELSE "expired"
           tx == run[c].tx
<1>1. txs' = [txs EXCEPT ![tx].status = status]
  BY DEF Mark
<1> HIDE DEF status
<1>2. /\ DOMAIN txs' = DOMAIN txs
      /\ \A t \in DOMAIN txs : txs'[t] = IF t = tx
             THEN [txs[t] EXCEPT !.status = status] ELSE txs[t]
  BY <1>1
<1>3. ASSUME NEW t \in DOMAIN txs
      PROVE  LET new == [txs[t] EXCEPT !.status = status]
             IN  /\ DOMAIN new = Columns
                 /\ new.type = txs[t].type /\ new.source = txs[t].source
                 /\ new.status = status
  BY <1>3 DEF Formed, Columns
<1>4. QED
  BY <1>2, <1>3 DEF Formed, status

LEMMA Marks ==
    ASSUME SingleInstance, LInv, NEW c \in Crons, Mark(c)
    PROVE  LInv'
<1> DEFINE tx == run[c].tx
           left == run[c].queue \ {tx}
           m == IF left = {} THEN Idle
                ELSE [run[c] EXCEPT !.pc = "next", !.queue = left]
<1>1. /\ c \in Handlers /\ c \notin Requests
      /\ Formed /\ HandlersOK /\ run[c].pc = "mark"
      /\ Continue(c, m) /\ failures' = failures
  BY Kinds DEF LInv, Mark, At, Handlers, Return
<1>2. /\ tx \in run[c].queue /\ run[c].queue \subseteq DOMAIN txs
      /\ \A t \in run[c].queue : txs[t].type = "earn"
      /\ c \in Unlocks => \A t \in run[c].queue : txs[t].status = "pending"
      /\ c \in Expiries => \A t \in run[c].queue : txs[t].status = "active"
  BY <1>1 DEF HandlersOK, Crons, UnlockOK, ExpiryOK, BatchOK
<1>3. /\ DOMAIN m = Entities
      /\ m.pc # "idle" => m.pc = "next" /\ m.queue = left
  BY <1>1, IdleForm DEF Formed, Entities
<1>4. /\ DOMAIN txs' = DOMAIN txs
      /\ \A t \in DOMAIN txs :
           /\ DOMAIN txs'[t] = Columns
           /\ txs'[t].type = txs[t].type /\ txs'[t].source = txs[t].source
           /\ txs'[t].status =
                 IF t # tx THEN txs[t].status
                 ELSE IF c \in Unlocks THEN "active" ELSE "expired"
  BY <1>1, <1>2, MarkSets
<1> HIDE DEF m
<1>5. /\ DOMAIN run' = Handlers
      /\ run'[c] = m
      /\ \A g \in Handlers \ {c} : run'[g] = run[g]
  BY <1>1 DEF Formed, Continue
<1>6. Formed'
  BY <1>1, <1>3, <1>4, <1>5 DEF Formed, Statuses
<1>7. HandlersOK'
  <2>1. ASSUME NEW q \in Requests PROVE RequestOK(run'[q])
    BY <2>1, <1>1, <1>5 DEF HandlersOK, Handlers
  <2>2. ASSUME NEW d \in Unlocks PROVE UnlockOK(run[d])'
    <3>1. CASE d = c
      <4>1. run'[d] = m
        BY <3>1, <1>5
      <4>2. QED
        BY <4>1, <3>1, <2>2, <1>2, <1>3, <1>4 DEF UnlockOK, BatchOK
    <3>2. CASE d # c
      <4>1. c \in Expiries
        BY <3>2, <2>2, Kinds DEF Crons
      <4>2. run'[d] = run[d] /\ UnlockOK(run[d]) /\ tx \in DOMAIN txs
        BY <3>2, <2>2, <1>1, <1>2, <1>5 DEF HandlersOK, Handlers, Crons
      <4>3. txs[tx].status = "active"
        BY <4>1, <1>2
      <4>4. QED
        BY <4>2, <4>3, <1>4 DEF UnlockOK, BatchOK
    <3>3. QED
      BY <3>1, <3>2
  <2>3. ASSUME NEW d \in Expiries PROVE ExpiryOK(run[d])'
    <3>1. CASE d = c
      <4>1. run'[d] = m
        BY <3>1, <1>5
      <4>2. QED
        BY <4>1, <3>1, <2>3, <1>2, <1>3, <1>4 DEF ExpiryOK, BatchOK
    <3>2. CASE d # c
      <4>1. c \in Unlocks
        BY <3>2, <2>3, Kinds DEF Crons
      <4>2. run'[d] = run[d] /\ ExpiryOK(run[d]) /\ tx \in DOMAIN txs
        BY <3>2, <2>3, <1>1, <1>2, <1>5 DEF HandlersOK, Handlers, Crons
      <4>3. txs[tx].status = "pending"
        BY <4>1, <1>2
      <4>4. QED
        BY <4>2, <4>3, <1>4 DEF ExpiryOK, BatchOK
    <3>3. QED
      BY <3>1, <3>2
  <2>4. QED
    BY <2>1, <2>2, <2>3 DEF HandlersOK, RequestOK
<1>8. ExpiryRowsOK => ExpiryRowsOK'
  <2>1. ASSUME NEW t \in DOMAIN txs, txs[t].status = "expired" \/ Marking(t)
        PROVE  txs'[t].status = "expired" \/ Marking(t)'
    <3>1. CASE txs[t].status = "expired"
      BY <3>1, <1>2, <1>4 DEF Crons
    <3>2. CASE t = tx /\ c \in Expiries
      BY <3>2, <1>4, <2>1, Kinds
    <3>3. CASE Marking(t) /\ ~(t = tx /\ c \in Expiries)
      <4>1. PICK d \in Expiries :
                run[d].pc \in {"save", "mark"} /\ run[d].tx = t
        BY <3>3 DEF Marking
      <4>2. d # c
        BY <3>3, <4>1
      <4>3. run'[d] = run[d]
        BY <4>1, <4>2, <1>5 DEF Handlers, Crons
      <4>4. QED
        BY <4>1, <4>3 DEF Marking
    <3>4. QED
      BY <2>1, <3>1, <3>2, <3>3
  <2>2. QED
    BY <2>1, <1>4 DEF ExpiryRowsOK
<1>9. QED
  BY <1>1, <1>6, <1>7, <1>8 DEF LInv

-----------------------------------------------------------------------------
(* Steps.                                                                  *)

LEMMA RequestSteps ==
    ASSUME LInv, NEW r \in Requests, Request(r)
    PROVE  LInv'
<1>1. /\ r \in Handlers /\ r \notin Unlocks /\ r \notin Expiries
      /\ RequestOK(run[r]) /\ DOMAIN run[r] = Entities
  BY Kinds DEF LInv, HandlersOK, Formed, Handlers, Crons
<1>2. CASE EarnWithEvent(r)
  <2>1. PICK points \in EarnPoints, validity \in Validities :
          Continue(r, [Idle EXCEPT !.pc = "insert", !.wal = wallet,
            !.row = [NoTx EXCEPT !.type = "earn", !.status = EarnStatus,
                       !.points = points, !.unlock = EventUnlock,
                       !.expiry = EventExpiry(validity)]])
    BY <1>2 DEF EarnWithEvent
  <2>2. UNCHANGED <<txs, failures>>
    BY <1>2 DEF EarnWithEvent
  <2>3. EarnStatus \in {"pending", "active"}
    BY DEF EarnStatus
  <2>4. QED
    BY <1>1, <2>1, <2>2, <2>3, Moves, IdleForm, NoTxForm
       DEF RequestOK, NewRow, Entities, Columns
<1>3. CASE Burn(r)
  <2>1. PICK points \in BurnPoints :
          Continue(r, [Idle EXCEPT !.pc = "insert", !.wal = wallet,
            !.row = [NoTx EXCEPT !.type = "burn", !.status = "active",
                                 !.points = points]])
    BY <1>3 DEF Burn
  <2>2. UNCHANGED <<txs, failures>>
    BY <1>3 DEF Burn
  <2>3. QED
    BY <1>1, <2>1, <2>2, Moves, IdleForm, NoTxForm
       DEF RequestOK, NewRow, Entities, Columns
<1>4. CASE BurnRefused(r)
  BY <1>4, Unmoved DEF BurnRefused
<1>5. CASE CreditWallet(r)
  <2>1. PICK points \in EarnPoints, validity \in Validities :
          Continue(r, [Idle EXCEPT !.pc = "credit",
            !.wal = IF setting.method = "none"
                    THEN [wallet EXCEPT !.total = @ + points,
                                        !.available = @ + points]
                    ELSE [wallet EXCEPT !.total = @ + points,
                                        !.locked = @ + points],
            !.row = [NoTx EXCEPT !.type = "earn", !.status = EarnStatus,
                       !.unlock = CampaignUnlock, !.dated = FALSE,
                       !.expiry = CampaignExpiry(validity)]])
    BY <1>5 DEF CreditWallet
  <2>2. UNCHANGED <<txs, failures>>
    BY <1>5 DEF CreditWallet
  <2>3. EarnStatus \in {"pending", "active"}
    BY DEF EarnStatus
  <2>4. QED
    BY <1>1, <2>1, <2>2, <2>3, Moves, IdleForm, NoTxForm
       DEF RequestOK, NewRow, Entities, Columns
<1>6. CASE CreditLoad(r)
  <2>1. PICK w : Continue(r, [run[r] EXCEPT !.pc = "creditSave", !.wal = w])
    BY <1>6 DEF CreditLoad
  <2>2. run[r].pc = "credit" /\ UNCHANGED <<txs, failures>>
    BY <1>6 DEF CreditLoad, At
  <2>3. QED
    BY <1>1, <2>1, <2>2, Moves DEF RequestOK, Entities
<1>7. CASE CreditSave(r)
  <2>1. /\ Continue(r, [run[r] EXCEPT !.pc = "creditTx"])
        /\ run[r].pc = "creditSave" /\ UNCHANGED <<txs, failures>>
    BY <1>7 DEF CreditSave, At
  <2>2. QED
    BY <1>1, <2>1, Moves DEF RequestOK, Entities
<1>8. CASE CreditInsert(r)
  <2>1. /\ Continue(r, Idle) /\ Insert(run[r].row)
        /\ run[r].pc = "creditTx" /\ failures' = failures
    BY <1>8 DEF CreditInsert, Return, At
  <2>2. NewRow(run[r].row) /\ run[r].row.type # "expire"
    BY <1>1, <2>1 DEF RequestOK
  <2>3. RequestOK(Idle)
    BY IdleForm DEF RequestOK
  <2>4. QED
    BY <2>1, <2>2, <2>3, RequestInserts, IdleForm
<1>9. CASE InsertTx(r)
  <2>1. PICK w : Continue(r, [run[r] EXCEPT !.pc = "save", !.wal = w])
    BY <1>9 DEF InsertTx
  <2>2. /\ Insert(InTable(run[r].row))
        /\ run[r].pc = "insert" /\ failures' = failures
    BY <1>9 DEF InsertTx, At
  <2>3. NewRow(InTable(run[r].row)) /\ InTable(run[r].row).type # "expire"
    BY <1>1, <2>2, InTableForm DEF RequestOK, NewRow
  <2> DEFINE m == [run[r] EXCEPT !.pc = "save", !.wal = w]
  <2>4. DOMAIN m = Entities /\ RequestOK(m)
    BY <1>1 DEF RequestOK, Entities
  <2> HIDE DEF m
  <2>5. QED
    BY <2>1, <2>2, <2>3, <2>4, RequestInserts DEF m
<1>10. CASE SaveWallet(r)
  BY <1>1, <1>10, Returns DEF SaveWallet
<1>11. QED
  BY <1>2, <1>3, <1>4, <1>5, <1>6, <1>7, <1>8, <1>9, <1>10 DEF Request

(* A cron begins with the batch its query returns.                         *)
LEMMA Starts ==
    ASSUME LInv, NEW c \in Crons, NEW batch, Start(c, batch),
           batch \subseteq DOMAIN txs,
           \A t \in batch :
              /\ txs[t].type = "earn"
              /\ c \in Unlocks => txs[t].status = "pending"
              /\ c \in Expiries => txs[t].status = "active"
    PROVE  LInv'
<1>1. c \in Handlers /\ c \notin Requests /\ run[c].pc = "idle"
  BY Kinds DEF Handlers, Start, At
<1>2. CASE batch = {}
  BY <1>1, <1>2, Returns DEF Start
<1>3. CASE batch # {}
  <2> DEFINE m == [Idle EXCEPT !.pc = "next", !.queue = batch, !.snap = wallet]
  <2>1. DOMAIN m = Entities /\ m.pc = "next" /\ m.queue = batch
    BY IdleForm DEF Entities
  <2>2. Continue(c, m) /\ UNCHANGED <<txs, failures>>
    BY <1>3 DEF Start
  <2> HIDE DEF m
  <2>3. QED
    BY <1>1, <2>1, <2>2, Moves DEF UnlockOK, ExpiryOK, BatchOK
<1>4. QED
  BY <1>2, <1>3

LEMMA UnlockSteps ==
    ASSUME SingleInstance, LInv, NEW c \in Unlocks, Cron(c)
    PROVE  LInv'
<1>1. /\ c \in Crons /\ c \in Handlers /\ c \notin Requests
      /\ c \notin Expiries
      /\ UnlockOK(run[c]) /\ DOMAIN run[c] = Entities
  BY Kinds DEF LInv, HandlersOK, Formed, Handlers, Crons
<1>2. CASE UnlockStart(c)
  <2> DEFINE batch == {t \in DOMAIN txs : ToUnlock(t)}
  <2>1. Start(c, batch)
    BY <1>2 DEF UnlockStart
  <2>2. \A t \in batch : txs[t].type = "earn" /\ txs[t].status = "pending"
    BY DEF ToUnlock
  <2>3. batch \subseteq DOMAIN txs
    OBVIOUS
  <2> HIDE DEF batch
  <2>4. QED
    BY <1>1, <2>1, <2>2, <2>3, Starts
<1>3. CASE UnlockNext(c)
  <2>0. PICK t \in run[c].queue : \E w :
          Continue(c, [run[c] EXCEPT !.pc = "save", !.tx = t, !.wal = w])
    BY <1>3 DEF UnlockNext
  <2>1. PICK w :
          Continue(c, [run[c] EXCEPT !.pc = "save", !.tx = t, !.wal = w])
    BY <2>0
  <2>2. run[c].pc = "next" /\ UNCHANGED <<txs, failures>>
    BY <1>3 DEF UnlockNext, At
  <2> DEFINE m == [run[c] EXCEPT !.pc = "save", !.tx = t, !.wal = w]
  <2>3. /\ DOMAIN m = Entities /\ m.pc = "save"
        /\ m.tx = t /\ m.queue = run[c].queue
    BY <1>1 DEF Entities
  <2> HIDE DEF m
  <2>4. UnlockOK(m)
    BY <1>1, <2>2, <2>3 DEF UnlockOK, BatchOK
  <2>5. QED
    BY <1>1, <2>1, <2>2, <2>3, <2>4, Moves DEF m
<1>4. CASE SaveWallet(c)
  <2>1. /\ Continue(c, [run[c] EXCEPT !.pc = "mark"])
        /\ run[c].pc = "save" /\ UNCHANGED <<txs, failures>>
    BY <1>1, <1>4 DEF SaveWallet, At
  <2>2. QED
    BY <1>1, <2>1, Moves DEF UnlockOK, BatchOK, Entities
<1>5. CASE Mark(c)
  BY <1>1, <1>5, Marks
<1>6. QED
  BY <1>1, <1>2, <1>3, <1>4, <1>5
     DEF Cron, ExpireStart, ExpireNext, ExpireLoad, InsertTx, At, UnlockOK

LEMMA ExpirySteps ==
    ASSUME SingleInstance, LInv, NEW c \in Expiries, Cron(c)
    PROVE  LInv'
<1>1. /\ c \in Crons /\ c \in Handlers /\ c \notin Requests
      /\ c \notin Unlocks
      /\ ExpiryOK(run[c]) /\ DOMAIN run[c] = Entities
  BY Kinds DEF LInv, HandlersOK, Formed, Handlers, Crons
<1>2. CASE ExpireStart(c)
  <2> DEFINE all == {t \in DOMAIN txs : ToExpire(t)}
             batch == IF Sortable(all) THEN all ELSE {}
  <2>1. Start(c, batch)
    BY <1>2 DEF ExpireStart
  <2>2. \A t \in batch : txs[t].type = "earn" /\ txs[t].status = "active"
    BY DEF ToExpire
  <2>3. batch \subseteq DOMAIN txs
    OBVIOUS
  <2> HIDE DEF batch
  <2>4. QED
    BY <1>1, <2>1, <2>2, <2>3, Starts
<1>3. CASE ExpireNext(c)
  <2>1. PICK t \in run[c].queue :
          LET unused == Unused(t, run[c].snap.burned)
          IN  Continue(c, [run[c] EXCEPT !.tx = t,
                !.pc = IF unused > 0 THEN "load" ELSE "mark",
                !.row = [NoTx EXCEPT !.type = "expire", !.status = "active",
                           !.points = unused, !.source = t]])
    BY <1>3 DEF ExpireNext
  <2>2. run[c].pc = "next" /\ UNCHANGED <<txs, failures>>
    BY <1>3 DEF ExpireNext, At
  <2> DEFINE unused == Unused(t, run[c].snap.burned)
             pc == IF unused > 0 THEN "load" ELSE "mark"
             row == [NoTx EXCEPT !.type = "expire", !.status = "active",
                       !.points = unused, !.source = t]
             m == [run[c] EXCEPT !.tx = t, !.pc = pc, !.row = row]
  <2>3. pc \in {"load", "mark"}
    OBVIOUS
  <2>4. NewRow(row) /\ row.type = "expire" /\ row.source = t
    BY NoTxForm DEF NewRow, Columns
  <2>5. Continue(c, m)
    BY <2>1
  <2> HIDE DEF unused, pc, row
  <2>6. /\ DOMAIN m = Entities /\ m.pc = pc
        /\ m.tx = t /\ m.row = row /\ m.queue = run[c].queue
    BY <1>1 DEF Entities
  <2> HIDE DEF m
  <2>7. ExpiryOK(m)
    BY <1>1, <2>2, <2>3, <2>4, <2>6 DEF ExpiryOK, BatchOK
  <2>8. QED
    BY <1>1, <2>2, <2>5, <2>6, <2>7, Moves
<1>4. CASE ExpireLoad(c)
  <2>1. /\ Continue(c, [run[c] EXCEPT !.pc = "insert", !.wal = wallet])
        /\ run[c].pc = "load" /\ UNCHANGED <<txs, failures>>
    BY <1>4 DEF ExpireLoad, At
  <2> DEFINE m == [run[c] EXCEPT !.pc = "insert", !.wal = wallet]
  <2>2. /\ DOMAIN m = Entities /\ m.pc = "insert"
        /\ m.tx = run[c].tx /\ m.row = run[c].row /\ m.queue = run[c].queue
    BY <1>1 DEF Entities
  <2>3. Continue(c, m)
    BY <2>1
  <2> HIDE DEF m
  <2>4. ExpiryOK(m)
    BY <1>1, <2>1, <2>2 DEF ExpiryOK, BatchOK
  <2>5. QED
    BY <1>1, <2>1, <2>2, <2>3, <2>4, Moves
<1>5. CASE InsertTx(c)
  BY <1>5, CronInserts
<1>6. CASE SaveWallet(c)
  <2>1. /\ Continue(c, [run[c] EXCEPT !.pc = "mark"])
        /\ run[c].pc = "save" /\ UNCHANGED <<txs, failures>>
    BY <1>1, <1>6 DEF SaveWallet, At
  <2> DEFINE m == [run[c] EXCEPT !.pc = "mark"]
  <2>2. /\ DOMAIN m = Entities /\ m.pc = "mark"
        /\ m.tx = run[c].tx /\ m.queue = run[c].queue
    BY <1>1 DEF Entities
  <2>3. Continue(c, m)
    BY <2>1
  <2> HIDE DEF m
  <2>4. ExpiryOK(m)
    BY <1>1, <2>1, <2>2 DEF ExpiryOK, BatchOK
  <2>5. QED
    BY <1>1, <2>1, <2>2, <2>3, <2>4, Moves
<1>7. CASE Mark(c)
  BY <1>1, <1>7, Marks
<1>8. QED
  BY <1>1, <1>2, <1>3, <1>4, <1>5, <1>6, <1>7
     DEF Cron, UnlockStart, UnlockNext

(* A handler that dies forgets its memory; from then on an EXPIRE row may  *)
(* have been left without a mark, which ExpiryRowsOK allows for.           *)
LEMMA Fails ==
    ASSUME LInv, NEW h \in Handlers, Fail(h)
    PROVE  LInv'
<1>1. /\ Continue(h, Idle) /\ txs' = txs
      /\ failures \in Nat /\ failures' = failures + 1
  BY DEF Fail, Return, LInv, Formed
<1>2. /\ DOMAIN run' = Handlers
      /\ run'[h] = Idle
      /\ \A g \in Handlers \ {h} : run'[g] = run[g]
  BY <1>1 DEF LInv, Formed, Continue
<1>3. Formed'
  BY <1>1, <1>2, IdleForm DEF LInv, Formed
<1>4. HandlersOK'
  <2>1. ASSUME NEW q \in Requests PROVE RequestOK(run'[q])
    BY <2>1, <1>2, IdleForm DEF LInv, HandlersOK, Handlers, RequestOK
  <2>2. ASSUME NEW d \in Unlocks PROVE UnlockOK(run[d])'
    BY <2>2, <1>1, <1>2, IdleForm
       DEF LInv, HandlersOK, Handlers, Crons, UnlockOK, BatchOK
  <2>3. ASSUME NEW d \in Expiries PROVE ExpiryOK(run[d])'
    BY <2>3, <1>1, <1>2, IdleForm
       DEF LInv, HandlersOK, Handlers, Crons, ExpiryOK, BatchOK
  <2>4. QED
    BY <2>1, <2>2, <2>3 DEF HandlersOK, RequestOK
<1>5. failures' # 0
  BY <1>1
<1>6. QED
  BY <1>3, <1>4, <1>5 DEF LInv

LEMMA NextKeeps == ASSUME SingleInstance, LInv, [Next]_vars PROVE LInv'
<1>1. ASSUME NEW r \in Requests, Request(r) PROVE LInv'
  BY <1>1, RequestSteps
<1>2. ASSUME NEW c \in Crons, Cron(c) PROVE LInv'
  BY <1>2, UnlockSteps, ExpirySteps DEF Crons
<1>3. ASSUME NEW h \in Handlers, Fail(h) PROVE LInv'
  BY <1>3, Fails
<1>4. CASE Midnight
  BY <1>4 DEF Midnight, LInv, Formed, HandlersOK, RequestOK, UnlockOK,
              ExpiryOK, BatchOK, ExpiryRowsOK, Marking, NewRow
<1>5. CASE UNCHANGED vars
  BY <1>5, Unmoved
<1>6. QED
  BY <1>1, <1>2, <1>3, <1>4, <1>5 DEF Next

-----------------------------------------------------------------------------
(* Theorems.                                                               *)

(* While one instance runs the crons, the batch a cron is working through  *)
(* is as its query found it, whatever requests and the other cron do.      *)
THEOREM LifecycleInvariance == ASSUME SingleInstance PROVE Spec => []LInv
<1>1. Init => LInv
  BY Started
<1>2. LInv /\ [Next]_vars => LInv'
  BY NextKeeps
<1>3. QED
  BY <1>1, <1>2, PTL DEF Spec

(* No step of any handler takes a transaction back from ACTIVE to PENDING  *)
(* or from EXPIRED to either.                                              *)
THEOREM StatusesMoveForward ==
    ASSUME SingleInstance PROVE Spec => StatusMovesForward
<1> DEFINE Forward ==
        \A t \in DOMAIN txs : Rank(txs[t].status) <= Rank(txs'[t].status)
<1>1. ASSUME LInv, [Next]_vars PROVE [Forward]_vars
  <2>1. \A t \in DOMAIN txs : Rank(txs[t].status) \in 1 .. 3
    BY <1>1 DEF LInv, Formed, Statuses, Rank
  <2>2. ASSUME \A t \in DOMAIN txs : txs'[t] = txs[t] PROVE Forward
    BY <2>1, <2>2
  <2>3. ASSUME NEW row, Insert(row) PROVE Forward
    BY <1>1, <2>2, <2>3, InsertAdds DEF LInv
  <2>4. ASSUME NEW c \in Crons, Mark(c) PROVE Forward
    <3>1. /\ run[c].tx \in DOMAIN txs
          /\ txs[run[c].tx].status = IF c \in Unlocks THEN "pending"
                                                      ELSE "active"
      BY <1>1, <2>4 DEF LInv, HandlersOK, Crons, UnlockOK, ExpiryOK, BatchOK,
                        Mark, At
    <3>2. ASSUME NEW t \in DOMAIN txs
          PROVE  Rank(txs[t].status) <= Rank(txs'[t].status)
      <4>1. CASE t = run[c].tx
        BY <1>1, <2>4, <3>1, <4>1, MarkSets DEF LInv, Rank
      <4>2. CASE t # run[c].tx
        <5>1. txs'[t].status = txs[t].status
          BY <1>1, <2>4, <3>1, <3>2, <4>2, MarkSets DEF LInv
        <5>2. QED
          BY <5>1, <2>1, <3>2
      <4>3. QED
        BY <4>1, <4>2
    <3>3. QED
      BY <3>2
  <2>5. CASE txs' = txs
    BY <2>2, <2>5
  <2>6. QED
    BY <1>1, <2>3, <2>4, <2>5
       DEF Next, Request, Cron, Fail, Midnight, vars, EarnWithEvent, Burn,
           BurnRefused, CreditWallet, CreditLoad, CreditSave, CreditInsert,
           InsertTx, SaveWallet, UnlockStart, UnlockNext, ExpireStart,
           ExpireNext, ExpireLoad, Start
<1>2. QED
  BY <1>1, LifecycleInvariance, PTL DEF Spec, StatusMovesForward

(* If no handler dies half-way, the points of a transaction expire by one  *)
(* EXPIRE row at most: no batch meets a transaction already dealt with.    *)
THEOREM ExpiredOnce == ASSUME SingleInstance PROVE Spec => []OneExpiryPerEarn
<1>1. ASSUME LInv PROVE OneExpiryPerEarn
  <2> SUFFICES ASSUME failures = 0, NEW t \in DOMAIN txs
               PROVE  Cardinality(ExpiriesOf(t)) <= 1
    BY DEF OneExpiryPerEarn
  <2>1. \A e, f \in ExpiriesOf(t) : e = f
    BY <1>1 DEF LInv, ExpiryRowsOK, ExpiriesOf
  <2>2. CASE ExpiriesOf(t) = {}
    BY <2>2, FS_EmptySet
  <2>3. CASE ExpiriesOf(t) # {}
    <3>1. PICK e : ExpiriesOf(t) = {e}
      BY <2>1, <2>3
    <3>2. Cardinality({e}) = 1
      BY FS_Singleton
    <3>3. QED
      BY <3>1, <3>2
  <2>4. QED
    BY <2>2, <2>3
<1>2. QED
  BY <1>1, LifecycleInvariance, PTL


-----------------------------------------------------------------------------
(* Types: what a handler holds in memory can be inserted, booked and       *)
(* marked.  No assumption on the instances from here on.                   *)

Bookable(row) ==
    \/ row.type = "earn" /\ row.status \in {"pending", "active"}
    \/ row.type \in {"burn", "expire"} /\ row.status = "active"

InHand(h, m) ==
    /\ m.pc \in {"load", "insert"} => Bookable(m.row) /\ h \notin Unlocks
    /\ h \in Crons /\ m.pc # "idle" => m.queue \subseteq DOMAIN txs
    /\ h \in Crons /\ m.pc \notin {"idle", "next"} => m.tx \in m.queue

Types == /\ TypeOK
         /\ IsFiniteSet(InFlight)
         /\ \A h \in Handlers : InHand(h, run[h])

LEMMA Blank == NoWallet \in Wallets /\ NoTx \in TxRows /\ Idle \in Memory
<1>1. MaxTx \in Nat
  BY LifecycleAssumption
<1>2. NoWallet \in Wallets /\ NoTx \in TxRows
  BY <1>1 DEF NoWallet, Wallets, NoTx, TxRows
<1>3. QED
  BY <1>1, <1>2 DEF Idle, Memory

(* Every transaction ever is one of finitely many.                         *)
LEMMA FiniteRows ==
    ASSUME TypeOK
    PROVE  /\ IsFiniteSet(DOMAIN txs)
           /\ \A t \in DOMAIN txs : /\ t \in Nat /\ txs[t] \in TxRows
                                    /\ txs[t].points \in Nat
<1>1. MaxTx \in Nat /\ IsFiniteSet(1 .. MaxTx)
  BY FS_Interval, LifecycleAssumption
<1>2. DOMAIN txs \subseteq 1 .. MaxTx
  BY DEF TypeOK, TxIds
<1>3. QED
  BY <1>1, <1>2, FS_Subset DEF TypeOK, TxRows

LEMMA PointsAreNat ==
    ASSUME TypeOK, NEW rows \in SUBSET DOMAIN txs
    PROVE  PointsOf(rows) \in Nat
<1> DEFINE f == [t \in DOMAIN txs |-> txs[t].points]
<1>1. IsFiniteSet(rows) /\ \A t \in rows : f[t] \in Nat
  BY FiniteRows, FS_Subset
<1>2. SumFunctionOnSet(f, rows) \in Nat
  <2> HIDE DEF f
  <2>1. QED
    BY <1>1, SumIsNat
<1>3. QED
  BY <1>2 DEF PointsOf

LEMMA TypesStart == Init => Types
<1> SUFFICES ASSUME Init PROVE Types
  OBVIOUS
<1>1. setting \in Settings /\ wallet \in Wallets /\ run \in [Handlers -> Memory]
  BY Blank DEF Init
<1>2. day \in 1 .. MaxDay /\ failures \in 0 .. MaxFailures
  BY LifecycleAssumption DEF Init
<1>3. DOMAIN txs = {} /\ txs \in [DOMAIN txs -> TxRows] /\ due = {} /\ overlapped = FALSE
  BY DEF Init
<1>4. TypeOK
  BY <1>1, <1>2, <1>3 DEF TypeOK
<1>5. \A h \in Handlers : run[h] = Idle /\ run[h].pc = "idle"
  BY IdleForm DEF Init
<1>6. InFlight = {}
  BY <1>5 DEF InFlight
<1>7. QED
  BY <1>4, <1>5, <1>6, FS_EmptySet DEF Types, InHand

(* A step of one handler, which may write the wallet, the table and the    *)
(* list of crons still due.                                                *)
LEMMA MovesTyped ==
    ASSUME Types, NEW h \in Handlers, NEW m \in Memory, Continue(h, m),
           InHand(h, m)',
           setting' = setting, wallet' \in Wallets, day' = day,
           due' \subseteq Crons, failures' \in 0 .. MaxFailures,
           DOMAIN txs \subseteq DOMAIN txs', DOMAIN txs' \subseteq TxIds,
           txs' \in [DOMAIN txs' -> TxRows]
    PROVE  Types'
<1>1. /\ TypeOK /\ IsFiniteSet(InFlight)
      /\ run' = [run EXCEPT ![h] = m] /\ run \in [Handlers -> Memory]
      /\ overlapped' = (overlapped \/ Cardinality(InFlight') > 1)
      /\ overlapped \in BOOLEAN
  BY DEF Types, TypeOK, Continue
<1>2. /\ run'[h] = m
      /\ \A g \in Handlers \ {h} : run'[g] = run[g]
      /\ run' \in [Handlers -> Memory]
  BY <1>1
<1>3. overlapped' \in BOOLEAN
  BY <1>1
<1>4. TypeOK'
  BY <1>1, <1>2, <1>3 DEF TypeOK
<1>5. IsFiniteSet(InFlight')
  <2>1. InFlight' \subseteq InFlight \cup {h}
    BY <1>2 DEF InFlight
  <2>2. IsFiniteSet(InFlight \cup {h})
    BY <1>1, FS_AddElement
  <2>3. QED
    BY <2>1, <2>2, FS_Subset
<1>6. ASSUME NEW g \in Handlers PROVE InHand(g, run[g])'
  <2>1. CASE g = h
    BY <2>1, <1>2 DEF InHand
  <2>2. CASE g # h
    BY <2>2, <1>2 DEF InHand, Types
  <2>3. QED
    BY <2>1, <2>2
<1>7. QED
  BY <1>4, <1>5, <1>6 DEF Types

(* Inserting a well formed row takes a free id and moves no other row.     *)
LEMMA InsertTyped ==
    ASSUME TypeOK, NEW row \in TxRows, Insert(row)
    PROVE  \E t \in TxIds \ DOMAIN txs :
              /\ DOMAIN txs' = DOMAIN txs \cup {t}
              /\ txs'[t] = row
              /\ \A s \in DOMAIN txs : txs'[s] = txs[s]
              /\ DOMAIN txs' \subseteq TxIds
              /\ txs' \in [DOMAIN txs' -> TxRows]
<1>1. PICK t \in TxIds \ DOMAIN txs :
              txs' = [s \in DOMAIN txs \cup {t} |->
                        IF s = t THEN row ELSE txs[s]]
  BY DEF Insert
<1>2. /\ DOMAIN txs' = DOMAIN txs \cup {t}
      /\ txs'[t] = row
      /\ \A s \in DOMAIN txs : txs'[s] = txs[s]
  BY <1>1
<1>3. txs' \in [DOMAIN txs' -> TxRows]
  BY <1>1 DEF TypeOK
<1>4. QED
  BY <1>2, <1>3 DEF TypeOK

(* The rows requests and crons are about to insert.                        *)
LEMMA DatesAreNat ==
    ASSUME TypeOK, NEW validity \in Nat
    PROVE  /\ EventUnlock \in Nat /\ CampaignUnlock \in Nat
           /\ EventExpiry(validity) \in Nat /\ CampaignExpiry(validity) \in Nat
           /\ EarnStatus \in {"pending", "active"}
<1>1. setting.pending \in Nat /\ setting.expiry \in Nat /\ day \in Nat
  BY LifecycleAssumption DEF TypeOK
<1>2. QED
  BY <1>1 DEF EventUnlock, CampaignUnlock, EventExpiry, CampaignExpiry,
              EarnStatus

(* Wallets with some of their balances overwritten.                        *)
LEMMA WalletSets ==
    ASSUME NEW w \in Wallets, NEW p \in Int, NEW q \in Int
    PROVE  /\ [w EXCEPT !.total = p, !.available = q] \in Wallets
           /\ [w EXCEPT !.total = p, !.locked = q] \in Wallets
           /\ [w EXCEPT !.available = p, !.burned = q] \in Wallets
           /\ [w EXCEPT !.available = p] \in Wallets
  BY DEF Wallets

LEMMA WalletUnlocks ==
    ASSUME NEW w \in Wallets, NEW p \in Int, NEW q \in Int, NEW b \in Int
    PROVE  [w EXCEPT !.available = p, !.locked = q, !.burned = b] \in Wallets
  BY DEF Wallets

(* A row that can be booked is booked by its own branch.                   *)
LEMMA BookedCases ==
    ASSUME NEW w, NEW row, Bookable(row)
    PROVE  \/ /\ row.type = "earn"
              /\ Booked(w, row) = [w EXCEPT !.total = @ + row.points,
                                            !.locked = @ + row.points]
           \/ /\ row.type = "earn"
              /\ Booked(w, row) = [w EXCEPT !.total = @ + row.points,
                                            !.available = @ + row.points]
           \/ /\ row.type = "burn"
              /\ Booked(w, row) = [w EXCEPT !.available = @ - row.points,
                                            !.burned = @ + row.points]
           \/ /\ row.type = "expire"
              /\ Booked(w, row) = [w EXCEPT !.available = @ - row.points]
<1>1. CASE row.status = "pending"
  BY <1>1 DEF Bookable, Booked
<1>2. CASE row.status = "active" /\ row.type = "earn"
  BY <1>2 DEF Booked
<1>3. CASE row.status = "active" /\ row.type = "burn"
  BY <1>3 DEF Booked
<1>4. CASE row.status = "active" /\ row.type = "expire"
  BY <1>4 DEF Booked
<1>5. QED
  BY <1>1, <1>2, <1>3, <1>4 DEF Bookable

(* An int column holds whole points, within half a point of what it is     *)
(* given.                                                                  *)
LEMMA StoredIsNear ==
    ASSUME NEW p \in Int
    PROVE  /\ Stored(p) \in Int /\ p - 50 <= Stored(p) /\ Stored(p) <= p + 50
           /\ p \in Nat => Stored(p) \in Nat
  BY DEF Stored

LEMMA InTableTyped ==
    ASSUME NEW row \in TxRows
    PROVE  /\ InTable(row) \in TxRows
           /\ InTable(row).points \in Nat
           /\ InTable(row).points = Stored(row.points)
           /\ InTable(row).type = row.type
<1>1. row.points \in Nat
  BY DEF TxRows
<1>2. Stored(row.points) \in Nat
  BY <1>1, StoredIsNear
<1>3. QED
  BY <1>2 DEF InTable, TxRows

LEMMA SavedTyped ==
    ASSUME NEW w \in Wallets
    PROVE  /\ Saved(w) \in Wallets
           /\ Saved(w).total = w.total /\ Saved(w).available = w.available
           /\ Saved(w).locked = w.locked
<1>1. Stored(w.burned) \in Int
  BY StoredIsNear DEF Wallets
<1>2. QED
  BY <1>1 DEF Saved, Wallets

LEMMA BookedTyped ==
    ASSUME NEW w \in Wallets, NEW row \in TxRows, Bookable(row)
    PROVE  Booked(w, row) \in Wallets
<1>1. /\ row.points \in Nat
      /\ w.total + row.points \in Int /\ w.locked + row.points \in Int
      /\ w.available + row.points \in Int /\ w.available - row.points \in Int
      /\ w.burned + row.points \in Int
  BY DEF Wallets, TxRows
<1>2. /\ [w EXCEPT !.total = @ + row.points, !.locked = @ + row.points] \in Wallets
      /\ [w EXCEPT !.total = @ + row.points, !.available = @ + row.points] \in Wallets
      /\ [w EXCEPT !.available = @ - row.points, !.burned = @ + row.points] \in Wallets
      /\ [w EXCEPT !.available = @ - row.points] \in Wallets
  BY <1>1, WalletSets
<1>3. QED
  BY <1>2, BookedCases

(* What is left of a transaction is a number of points, at most its own.   *)
LEMMA UnusedIsNat ==
    ASSUME TypeOK, NEW t \in DOMAIN txs, NEW burned \in Int
    PROVE  Unused(t, burned) \in Nat
<1> DEFINE rows == {s \in DOMAIN txs :
                      txs[s].type = "earn" /\ s < t /\ txs[t].dated}
<1>1. PointsOf(rows) \in Nat
  <2>1. rows \in SUBSET DOMAIN txs
    OBVIOUS
  <2> HIDE DEF rows
  <2>2. QED
    BY <2>1, PointsAreNat
<1>2. txs[t].points \in Nat
  BY FiniteRows
<1>3. ASSUME NEW before \in Nat, NEW points \in Nat
      PROVE  LET used == IF burned - before < points THEN burned - before
                                                     ELSE points
             IN  points - (IF used < 0 THEN 0 ELSE used) \in Nat
  OBVIOUS
<1>4. QED
  BY <1>1, <1>2, <1>3 DEF Unused

LEMMA RequestsTyped ==
    ASSUME Types, NEW r \in Requests, Request(r)
    PROVE  Types'
<1>1. /\ r \in Handlers /\ r \notin Crons /\ r \notin Unlocks
      /\ run[r] \in Memory /\ InHand(r, run[r])
      /\ TypeOK /\ wallet \in Wallets /\ setting \in Settings
      /\ DOMAIN txs \subseteq TxIds /\ txs \in [DOMAIN txs -> TxRows]
      /\ due \subseteq Crons /\ failures \in 0 .. MaxFailures
  BY Kinds DEF Types, TypeOK, Handlers, Crons
<1>2. EarnPoints \subseteq Nat /\ BurnPoints \subseteq Nat /\ Validities \subseteq Nat
  BY LifecycleAssumption
<1>3. ASSUME NEW m \in Memory, Continue(r, m), InHand(r, m)',
             UNCHANGED <<setting, wallet, txs, day, due, failures>>
      PROVE  Types'
  BY <1>1, <1>3, MovesTyped DEF Types
<1>4. CASE EarnWithEvent(r)
  <2>1. PICK points \in EarnPoints, validity \in Validities :
          Continue(r, [Idle EXCEPT !.pc = "insert", !.wal = wallet,
            !.row = [NoTx EXCEPT !.type = "earn", !.status = EarnStatus,
                       !.points = points, !.unlock = EventUnlock,
                       !.expiry = EventExpiry(validity)]])
    BY <1>4 DEF EarnWithEvent
  <2> DEFINE row == [NoTx EXCEPT !.type = "earn", !.status = EarnStatus,
                       !.points = points, !.unlock = EventUnlock,
                       !.expiry = EventExpiry(validity)]
  <2>m. PICK m : m = [Idle EXCEPT !.pc = "insert", !.wal = wallet, !.row = row]
    OBVIOUS
  <2>2. row \in TxRows /\ Bookable(row)
    BY <1>1, <1>2, Blank, DatesAreNat DEF TxRows, NoTx, Bookable
  <2> HIDE DEF row
  <2>3. m \in Memory /\ m.pc = "insert" /\ m.row = row
    BY <2>m, <1>1, <2>2, Blank DEF Memory, Idle, Steps
  <2>4. Continue(r, m)
    BY <2>m, <2>1 DEF row
  <2>5. InHand(r, m)'
    BY <1>1, <2>2, <2>3 DEF InHand
  <2>6. UNCHANGED <<setting, wallet, txs, day, due, failures>>
    BY <1>4 DEF EarnWithEvent
  <2>7. QED
    BY <1>3, <2>3, <2>4, <2>5, <2>6
<1>5. CASE Burn(r)
  <2>1. PICK points \in BurnPoints :
          Continue(r, [Idle EXCEPT !.pc = "insert", !.wal = wallet,
            !.row = [NoTx EXCEPT !.type = "burn", !.status = "active",
                                 !.points = points]])
    BY <1>5 DEF Burn
  <2> DEFINE row == [NoTx EXCEPT !.type = "burn", !.status = "active",
                                 !.points = points]
  <2>m. PICK m : m = [Idle EXCEPT !.pc = "insert", !.wal = wallet, !.row = row]
    OBVIOUS
  <2>2. row \in TxRows /\ Bookable(row)
    BY <1>1, <1>2, Blank DEF TxRows, NoTx, Bookable
  <2> HIDE DEF row
  <2>3. m \in Memory /\ m.pc = "insert" /\ m.row = row
    BY <2>m, <1>1, <2>2, Blank DEF Memory, Idle, Steps
  <2>4. Continue(r, m)
    BY <2>m, <2>1 DEF row
  <2>5. InHand(r, m)'
    BY <1>1, <2>2, <2>3 DEF InHand
  <2>6. UNCHANGED <<setting, wallet, txs, day, due, failures>>
    BY <1>5 DEF Burn
  <2>7. QED
    BY <1>3, <2>3, <2>4, <2>5, <2>6
<1>6. CASE CreditWallet(r)
  <2>1. PICK points \in EarnPoints, validity \in Validities :
          Continue(r, [Idle EXCEPT !.pc = "credit",
            !.wal = IF setting.method = "none"
                    THEN [wallet EXCEPT !.total = @ + points,
                                        !.available = @ + points]
                    ELSE [wallet EXCEPT !.total = @ + points,
                                        !.locked = @ + points],
            !.row = [NoTx EXCEPT !.type = "earn", !.status = EarnStatus,
                       !.unlock = CampaignUnlock, !.dated = FALSE,
                       !.expiry = CampaignExpiry(validity)]])
    BY <1>6 DEF CreditWallet
  <2> DEFINE row == [NoTx EXCEPT !.type = "earn", !.status = EarnStatus,
                       !.unlock = CampaignUnlock, !.dated = FALSE,
                       !.expiry = CampaignExpiry(validity)]
             w == IF setting.method = "none"
                  THEN [wallet EXCEPT !.total = @ + points,
                                      !.available = @ + points]
                  ELSE [wallet EXCEPT !.total = @ + points,
                                      !.locked = @ + points]
  <2>m. PICK m : m = [Idle EXCEPT !.pc = "credit", !.wal = w, !.row = row]
    OBVIOUS
  <2>2. row \in TxRows
    BY <1>1, <1>2, Blank, DatesAreNat DEF TxRows, NoTx
  <2>3. w \in Wallets
    <3>1. /\ wallet.total + points \in Int
          /\ wallet.available + points \in Int /\ wallet.locked + points \in Int
      BY <1>1, <1>2 DEF Wallets
    <3>2. QED
      BY <1>1, <3>1, WalletSets
  <2> HIDE DEF row, w
  <2>4. m \in Memory /\ m.pc = "credit"
    BY <2>m, <1>1, <2>2, <2>3, Blank DEF Memory, Idle, Steps
  <2>5. Continue(r, m)
    BY <2>m, <2>1 DEF row, w
  <2>6. InHand(r, m)'
    BY <1>1, <2>4 DEF InHand
  <2>7. UNCHANGED <<setting, wallet, txs, day, due, failures>>
    BY <1>6 DEF CreditWallet
  <2>8. QED
    BY <1>3, <2>4, <2>5, <2>6, <2>7
<1>7. CASE CreditLoad(r)
  <2> DEFINE w == IF setting.method = "none"
                  THEN [wallet EXCEPT !.total = run[r].wal.total,
                                      !.available = run[r].wal.available]
                  ELSE [wallet EXCEPT !.total = run[r].wal.total,
                                      !.locked = run[r].wal.locked]
  <2>m. PICK m : m = [run[r] EXCEPT !.pc = "creditSave", !.wal = w]
    OBVIOUS
  <2>1. Continue(r, m) /\ UNCHANGED <<setting, wallet, txs, day, due, failures>>
    BY <2>m, <1>7 DEF CreditLoad
  <2>2. w \in Wallets
    <3>1. run[r].wal \in Wallets /\ wallet \in Wallets
      BY <1>1 DEF Memory
    <3>2. /\ run[r].wal.total \in Int
          /\ run[r].wal.available \in Int /\ run[r].wal.locked \in Int
      BY <3>1 DEF Wallets
    <3>3. QED
      BY <3>1, <3>2, WalletSets
  <2> HIDE DEF w
  <2>3. m \in Memory /\ m.pc = "creditSave"
    BY <2>m, <1>1, <2>2 DEF Memory, Steps
  <2>4. InHand(r, m)'
    BY <1>1, <2>3 DEF InHand
  <2>5. QED
    BY <1>3, <2>1, <2>3, <2>4
<1>8. CASE CreditSave(r)
  <2>m. PICK m : m = [run[r] EXCEPT !.pc = "creditTx"]
    OBVIOUS
  <2>1. /\ Continue(r, m) /\ wallet' = Saved(run[r].wal)
        /\ UNCHANGED <<setting, txs, day, due, failures>>
    BY <2>m, <1>8 DEF CreditSave
  <2>2. m \in Memory /\ m.pc = "creditTx" /\ Saved(run[r].wal) \in Wallets
    BY <2>m, <1>1, SavedTyped DEF Memory, Steps
  <2>3. InHand(r, m)'
    BY <1>1, <2>2 DEF InHand
  <2>4. QED
    BY <1>1, <2>1, <2>2, <2>3, MovesTyped
<1>9. CASE CreditInsert(r)
  <2>1. /\ Continue(r, Idle) /\ Insert(run[r].row)
        /\ UNCHANGED <<setting, wallet, day, due, failures>>
    BY <1>9 DEF CreditInsert, Return
  <2>2. run[r].row \in TxRows
    BY <1>1 DEF Memory
  <2>3. /\ DOMAIN txs \subseteq DOMAIN txs' /\ DOMAIN txs' \subseteq TxIds
        /\ txs' \in [DOMAIN txs' -> TxRows]
    BY <1>1, <2>1, <2>2, InsertTyped
  <2>4. InHand(r, Idle)'
    BY <1>1, IdleForm DEF InHand, Idle
  <2>5. QED
    BY <1>1, <2>1, <2>3, <2>4, Blank, MovesTyped
<1>10. CASE InsertTx(r)
  <2>m. PICK m : m = [run[r] EXCEPT !.pc = "save", !.wal = Booked(@, run[r].row)]
    OBVIOUS
  <2>1. /\ Continue(r, m) /\ Insert(InTable(run[r].row)) /\ run[r].pc = "insert"
        /\ UNCHANGED <<setting, wallet, day, due, failures>>
    BY <2>m, <1>10 DEF InsertTx, At
  <2>2. /\ run[r].row \in TxRows /\ InTable(run[r].row) \in TxRows
        /\ run[r].wal \in Wallets /\ Bookable(run[r].row)
    BY <1>1, <2>1, InTableTyped DEF Memory, InHand
  <2>3. /\ DOMAIN txs \subseteq DOMAIN txs' /\ DOMAIN txs' \subseteq TxIds
        /\ txs' \in [DOMAIN txs' -> TxRows]
    BY <1>1, <2>1, <2>2, InsertTyped
  <2>4. Booked(run[r].wal, run[r].row) \in Wallets
    BY <2>2, BookedTyped
  <2>5. m \in Memory /\ m.pc = "save"
    BY <2>m, <1>1, <2>4 DEF Memory, Steps
  <2>6. InHand(r, m)'
    BY <1>1, <2>5 DEF InHand
  <2>7. QED
    BY <1>1, <2>1, <2>3, <2>5, <2>6, MovesTyped
<1>11. CASE SaveWallet(r)
  <2>1. /\ Continue(r, Idle) /\ wallet' = Saved(run[r].wal)
        /\ UNCHANGED <<setting, txs, day, due, failures>>
    BY <1>11 DEF SaveWallet, Return
  <2>2. Saved(run[r].wal) \in Wallets
    BY <1>1, SavedTyped DEF Memory
  <2>3. InHand(r, Idle)'
    BY <1>1, IdleForm DEF InHand, Idle
  <2>4. QED
    BY <1>1, <2>1, <2>2, <2>3, Blank, MovesTyped
<1>12. CASE BurnRefused(r)
  BY <1>12 DEF BurnRefused, vars, Types, TypeOK, InFlight, InHand
<1>13. QED
  BY <1>4, <1>5, <1>6, <1>7, <1>8, <1>9, <1>10, <1>11, <1>12 DEF Request

LEMMA CronsTyped ==
    ASSUME Types, NEW c \in Crons, Cron(c)
    PROVE  Types'
<1>1. /\ c \in Handlers /\ c \notin Requests
      /\ run[c] \in Memory /\ InHand(c, run[c])
      /\ TypeOK /\ wallet \in Wallets /\ setting \in Settings
      /\ DOMAIN txs \subseteq TxIds /\ txs \in [DOMAIN txs -> TxRows]
      /\ due \subseteq Crons /\ failures \in 0 .. MaxFailures
      /\ TxIds \subseteq 0 .. MaxTx
  BY Kinds, LifecycleAssumption DEF Types, TypeOK, Handlers, TxIds
<1>2. ASSUME NEW m \in Memory, Continue(c, m), InHand(c, m)',
             due' \subseteq Crons,
             UNCHANGED <<setting, wallet, txs, day, failures>>
      PROVE  Types'
  BY <1>1, <1>2, MovesTyped DEF Types
<1>3. InHand(c, Idle)'
  BY IdleForm DEF InHand, Idle
<1>4. ASSUME NEW batch, Start(c, batch), batch \subseteq DOMAIN txs
      PROVE  Types'
  <2>1. due' \subseteq Crons /\ UNCHANGED <<setting, wallet, txs, day, failures>>
    BY <1>1, <1>4 DEF Start
  <2>2. CASE batch = {}
    BY <1>2, <1>3, <1>4, <2>1, <2>2, Blank DEF Start, Return
  <2>3. CASE batch # {}
    <3>m. PICK m : m = [Idle EXCEPT !.pc = "next", !.queue = batch, !.snap = wallet]
      OBVIOUS
    <3>1. Continue(c, m)
      BY <3>m, <1>4, <2>3 DEF Start
    <3>2. m \in Memory /\ m.pc = "next" /\ m.queue = batch
      BY <3>m, <1>1, <1>4, Blank DEF Memory, Idle, Steps
    <3>3. InHand(c, m)'
      BY <1>4, <2>1, <3>2 DEF InHand
    <3>4. QED
      BY <1>2, <2>1, <3>1, <3>2, <3>3
  <2>4. QED
    BY <2>2, <2>3
<1>5. CASE UnlockStart(c)
  <2>1. {t \in DOMAIN txs : ToUnlock(t)} \subseteq DOMAIN txs
    OBVIOUS
  <2>2. QED
    BY <1>4, <1>5, <2>1 DEF UnlockStart
<1>6. CASE ExpireStart(c)
  <2> DEFINE all == {t \in DOMAIN txs : ToExpire(t)}
             batch == IF Sortable(all) THEN all ELSE {}
  <2>1. Start(c, batch) /\ batch \subseteq DOMAIN txs
    BY <1>6 DEF ExpireStart
  <2> HIDE DEF batch
  <2>2. QED
    BY <1>4, <2>1
<1>7. CASE UnlockNext(c)
  <2>1. PICK t \in run[c].queue :
         Continue(c, [run[c] EXCEPT !.pc = "save", !.tx = t,
           !.wal = [run[c].snap EXCEPT !.available = @ + txs[t].points,
                                       !.locked = @ - txs[t].points,
                                       !.burned = wallet.burned]])
    BY <1>7 DEF UnlockNext
  <2> DEFINE w == [run[c].snap EXCEPT !.available = @ + txs[t].points,
                                      !.locked = @ - txs[t].points,
                                      !.burned = wallet.burned]
  <2>m. PICK m : m = [run[c] EXCEPT !.pc = "save", !.tx = t, !.wal = w]
    OBVIOUS
  <2>2. UNCHANGED <<setting, wallet, txs, day, due, failures>> /\ run[c].pc = "next"
    BY <1>7 DEF UnlockNext, At
  <2>3. t \in DOMAIN txs /\ run[c].queue \subseteq DOMAIN txs
    BY <1>1, <2>2 DEF InHand
  <2>4. txs[t].points \in Nat /\ t \in 0 .. MaxTx
    BY <1>1, <2>3, FiniteRows
  <2>5. w \in Wallets
    <3>1. run[c].snap \in Wallets
      BY <1>1 DEF Memory
    <3>2. /\ run[c].snap.available + txs[t].points \in Int
          /\ run[c].snap.locked - txs[t].points \in Int
          /\ wallet.burned \in Int
      BY <1>1, <2>4, <3>1 DEF Wallets
    <3>3. QED
      BY <3>1, <3>2, WalletUnlocks
  <2> HIDE DEF w
  <2>6. /\ m \in Memory /\ m.pc = "save" /\ m.tx = t
        /\ m.queue = run[c].queue
    BY <2>m, <1>1, <2>4, <2>5 DEF Memory, Steps
  <2>7. Continue(c, m)
    BY <2>m, <2>1 DEF w
  <2>8. InHand(c, m)'
    BY <2>2, <2>3, <2>6 DEF InHand
  <2>9. QED
    BY <1>1, <1>2, <2>2, <2>6, <2>7, <2>8
<1>8. CASE ExpireNext(c)
  <2>1. PICK t \in run[c].queue :
          LET unused == Unused(t, run[c].snap.burned)
          IN  Continue(c, [run[c] EXCEPT !.tx = t,
                !.pc = IF unused > 0 THEN "load" ELSE "mark",
                !.row = [NoTx EXCEPT !.type = "expire", !.status = "active",
                           !.points = unused, !.source = t]])
    BY <1>8 DEF ExpireNext
  <2>2. /\ UNCHANGED <<setting, wallet, txs, day, due, failures>>
        /\ run[c].pc = "next" /\ c \notin Unlocks
    BY <1>8, Kinds DEF ExpireNext, At
  <2>3. t \in DOMAIN txs /\ run[c].queue \subseteq DOMAIN txs
    BY <1>1, <2>2 DEF InHand
  <2>u. PICK unused : unused = Unused(t, run[c].snap.burned)
    OBVIOUS
  <2>r. PICK row : row = [NoTx EXCEPT !.type = "expire", !.status = "active",
                                      !.points = unused, !.source = t]
    OBVIOUS
  <2>m. PICK m : m = [run[c] EXCEPT !.tx = t,
                         !.pc = IF unused > 0 THEN "load" ELSE "mark",
                         !.row = row]
    OBVIOUS
  <2>4. unused \in Nat /\ t \in 0 .. MaxTx
    <3>1. run[c].snap.burned \in Int
      BY <1>1 DEF Memory, Wallets
    <3>2. QED
      BY <1>1, <2>u, <2>3, <3>1, UnusedIsNat
  <2>5. row \in TxRows /\ Bookable(row)
    BY <2>r, <2>4, Blank DEF TxRows, NoTx, Bookable
  <2>6. /\ m \in Memory /\ m.pc \in {"load", "mark"} /\ m.tx = t
        /\ m.queue = run[c].queue /\ m.row = row
    BY <2>m, <1>1, <2>4, <2>5 DEF Memory, Steps
  <2>7. Continue(c, m)
    BY <2>m, <2>r, <2>u, <2>1
  <2>8. InHand(c, m)'
    BY <2>2, <2>3, <2>5, <2>6 DEF InHand
  <2>9. QED
    BY <1>1, <1>2, <2>2, <2>6, <2>7, <2>8
<1>9. CASE ExpireLoad(c)
  <2>m. PICK m : m = [run[c] EXCEPT !.pc = "insert", !.wal = wallet]
    OBVIOUS
  <2>1. /\ Continue(c, m) /\ run[c].pc = "load"
        /\ UNCHANGED <<setting, wallet, txs, day, due, failures>>
    BY <2>m, <1>9 DEF ExpireLoad, At
  <2>2. /\ m \in Memory /\ m.pc = "insert" /\ m.row = run[c].row
        /\ m.tx = run[c].tx /\ m.queue = run[c].queue
    BY <2>m, <1>1 DEF Memory, Steps
  <2>3. InHand(c, m)'
    BY <1>1, <2>1, <2>2 DEF InHand
  <2>4. QED
    BY <1>1, <1>2, <2>1, <2>2, <2>3
<1>10. CASE InsertTx(c)
  <2>m. PICK m : m = [run[c] EXCEPT !.pc = "save", !.wal = Booked(@, run[c].row)]
    OBVIOUS
  <2>1. /\ Continue(c, m) /\ Insert(InTable(run[c].row)) /\ run[c].pc = "insert"
        /\ UNCHANGED <<setting, wallet, day, due, failures>>
    BY <2>m, <1>10 DEF InsertTx, At
  <2>2. /\ run[c].row \in TxRows /\ InTable(run[c].row) \in TxRows
        /\ run[c].wal \in Wallets /\ Bookable(run[c].row)
    BY <1>1, <2>1, InTableTyped DEF Memory, InHand
  <2>3. /\ DOMAIN txs \subseteq DOMAIN txs' /\ DOMAIN txs' \subseteq TxIds
        /\ txs' \in [DOMAIN txs' -> TxRows]
    BY <1>1, <2>1, <2>2, InsertTyped
  <2>4. Booked(run[c].wal, run[c].row) \in Wallets
    BY <2>2, BookedTyped
  <2>5. /\ m \in Memory /\ m.pc = "save"
        /\ m.tx = run[c].tx /\ m.queue = run[c].queue
    BY <2>m, <1>1, <2>4 DEF Memory, Steps
  <2>6. InHand(c, m)'
    BY <1>1, <2>1, <2>3, <2>5 DEF InHand
  <2>7. QED
    BY <1>1, <2>1, <2>3, <2>5, <2>6, MovesTyped
<1>11. CASE SaveWallet(c)
  <2>m. PICK m : m = [run[c] EXCEPT !.pc = "mark"]
    OBVIOUS
  <2>1. /\ Continue(c, m) /\ wallet' = Saved(run[c].wal) /\ run[c].pc = "save"
        /\ UNCHANGED <<setting, txs, day, due, failures>>
    BY <2>m, <1>1, <1>11 DEF SaveWallet, At
  <2>2. /\ m \in Memory /\ m.pc = "mark" /\ Saved(run[c].wal) \in Wallets
        /\ m.tx = run[c].tx /\ m.queue = run[c].queue
    BY <2>m, <1>1, SavedTyped DEF Memory, Steps
  <2>3. InHand(c, m)'
    BY <1>1, <2>1, <2>2 DEF InHand
  <2>4. QED
    BY <1>1, <2>1, <2>2, <2>3, MovesTyped
<1>12. CASE Mark(c)
  <2> DEFINE tx == run[c].tx
             left == run[c].queue \ {tx}
             status == IF c \in Unlocks THEN "active" ELSE "expired"
  <2>m. PICK m : m = [run[c] EXCEPT !.pc = "next", !.queue = left]
    OBVIOUS
  <2>1. /\ txs' = [txs EXCEPT ![tx].status = status] /\ run[c].pc = "mark"
        /\ IF left = {} THEN Continue(c, Idle) ELSE Continue(c, m)
        /\ UNCHANGED <<setting, wallet, day, due, failures>>
    BY <2>m, <1>12 DEF Mark, At, Return
  <2>2. tx \in DOMAIN txs /\ left \subseteq DOMAIN txs
    BY <1>1, <2>1 DEF InHand
  <2>3. [txs[tx] EXCEPT !.status = status] \in TxRows
    BY <1>1, <2>2 DEF TxRows
  <2>4. DOMAIN txs' = DOMAIN txs /\ txs' \in [DOMAIN txs' -> TxRows]
    <3> HIDE DEF status, tx
    <3>1. QED
      BY <1>1, <2>1, <2>2, <2>3
  <2>5. m \in Memory /\ m.pc = "next" /\ m.queue = left
    BY <2>m, <1>1, <2>2 DEF Memory, Steps
  <2>6. InHand(c, m)'
    BY <2>2, <2>4, <2>5 DEF InHand
  <2>7. CASE left = {}
    BY <1>1, <1>3, <2>1, <2>4, <2>7, Blank, MovesTyped
  <2>8. CASE left # {}
    BY <1>1, <2>1, <2>4, <2>5, <2>6, <2>8, MovesTyped
  <2>9. QED
    BY <2>7, <2>8
<1>13. QED
  BY <1>5, <1>6, <1>7, <1>8, <1>9, <1>10, <1>11, <1>12 DEF Cron

LEMMA TypesKept == ASSUME Types, [Next]_vars PROVE Types'
<1>1. ASSUME NEW r \in Requests, Request(r) PROVE Types'
  BY <1>1, RequestsTyped
<1>2. ASSUME NEW c \in Crons, Cron(c) PROVE Types'
  BY <1>2, CronsTyped
<1>3. ASSUME NEW h \in Handlers, Fail(h) PROVE Types'
  <2>1. /\ Continue(h, Idle) /\ UNCHANGED <<setting, wallet, txs, day, due>>
        /\ failures < MaxFailures /\ failures' = failures + 1
    BY <1>3 DEF Fail, Return
  <2>2. /\ failures' \in 0 .. MaxFailures
        /\ wallet \in Wallets /\ due \subseteq Crons
        /\ DOMAIN txs \subseteq TxIds /\ txs \in [DOMAIN txs -> TxRows]
    BY <2>1, LifecycleAssumption DEF Types, TypeOK
  <2>3. InHand(h, Idle)'
    BY IdleForm DEF InHand, Idle
  <2>4. QED
    BY <2>1, <2>2, <2>3, Blank, MovesTyped
<1>4. CASE Midnight
  <2>1. /\ UNCHANGED <<setting, wallet, txs, run, failures, overlapped>>
        /\ due' = Crons /\ day' \in 1 .. MaxDay
    BY <1>4, LifecycleAssumption DEF Midnight, Types, TypeOK
  <2>2. QED
    BY <2>1 DEF Types, TypeOK, InFlight, InHand
<1>5. CASE UNCHANGED vars
  BY <1>5 DEF vars, Types, TypeOK, InFlight, InHand
<1>6. QED
  BY <1>1, <1>2, <1>3, <1>4, <1>5 DEF Next

(* The table, the wallet and what every handler holds in memory stay well  *)
(* formed: what the crons save is never read from a row that is not there. *)
THEOREM TypeCorrect == Spec => []TypeOK
<1>1. Init => Types
  BY TypesStart
<1>2. Types /\ [Next]_vars => Types'
  BY TypesKept
<1>3. Types => TypeOK
  BY DEF Types
<1>4. QED
  BY <1>1, <1>2, <1>3, PTL DEF Spec

-----------------------------------------------------------------------------
(* The balances and the ledger.  As long as handlers run one after the     *)
(* other, the wallet row adds up, but for half a point a row, whenever     *)
(* nobody is between inserting a row and saving the wallet, and then the   *)
(* entity to be saved adds up.                                             *)

Earned == PointsOf(OfType("earn"))
Burned == PointsOf(OfType("burn"))
Expired == PointsOf(OfType("expire"))

EarnSlack == Rounding({"earn"})
SpendSlack == Rounding({"burn", "expire"})

Adds(w, earned, burned, expired, es, ss) ==
    /\ Within(w.total, earned, es)
    /\ Within(w.available + w.locked, w.total - burned - expired, ss)

Balanced(w) == Adds(w, Earned, Burned, Expired, EarnSlack, SpendSlack)

Quiet == ~overlapped /\ failures = 0 /\ setting.sources = {"event"}

LedgerOf(h, m) ==
    /\ m.pc \notin {"credit", "creditSave", "creditTx"}
    /\ m.pc = "insert" => m.wal = wallet
    /\ m.pc = "save" => Balanced(m.wal)
    /\ h \in Unlocks /\ m.pc # "idle" => Balanced(m.snap)

Ledger ==
    Quiet =>
      /\ \A g, h \in InFlight : g = h
      /\ (\A h \in Handlers : ~At(h, "save")) => Balanced(wallet)
      /\ \A h \in Handlers : LedgerOf(h, run[h])

LEMMA TotalAdds ==
    ASSUME TypeOK, NEW row \in TxRows, Insert(row), NEW type
    PROVE  PointsOf(OfType(type))' =
              PointsOf(OfType(type)) + IF row.type = type THEN row.points ELSE 0
<1> DEFINE f == [s \in DOMAIN txs |-> txs[s].points]
           g == [s \in DOMAIN txs' |-> txs'[s].points]
           S == OfType(type)
<1>1. PICK t \in TxIds \ DOMAIN txs :
              /\ DOMAIN txs' = DOMAIN txs \cup {t}
              /\ txs'[t] = row
              /\ \A s \in DOMAIN txs : txs'[s] = txs[s]
  BY InsertTyped
<1>2. S \subseteq DOMAIN txs /\ IsFiniteSet(S) /\ t \notin S
  BY <1>1, FiniteRows, FS_Subset DEF OfType
<1>3. OfType(type)' = IF row.type = type THEN S \cup {t} ELSE S
  BY <1>1 DEF OfType
<1>4. row.points \in Nat
  BY DEF TxRows
<1>5. \A s \in S : f[s] = g[s] /\ f[s] \in Int
  BY <1>1, <1>2, FiniteRows
<1>6. g[t] = row.points
  BY <1>1
<1>7. PointsOf(S) = SumFunctionOnSet(f, S)
  BY DEF PointsOf
<1>8. PointsOf(OfType(type))' = SumFunctionOnSet(g, OfType(type)')
  BY DEF PointsOf
<1> HIDE DEF f, g, S
<1>9. /\ SumFunctionOnSet(f, S) = SumFunctionOnSet(g, S)
      /\ SumFunctionOnSet(g, S) \in Int
  BY <1>2, <1>5, SumsAgree, SumIsInt
<1>10. CASE row.type = type
  <2>1. \A s \in S \cup {t} : g[s] \in Int
    BY <1>4, <1>5, <1>6
  <2>2. SumFunctionOnSet(g, S \cup {t}) = SumFunctionOnSet(g, S) + g[t]
    BY <1>2, <2>1, SumWith
  <2>3. PointsOf(OfType(type))' = SumFunctionOnSet(g, S \cup {t})
    BY <1>3, <1>8, <1>10
  <2>4. QED
    BY <2>2, <2>3, <1>6, <1>7, <1>9, <1>10 DEF S
<1>11. CASE row.type # type
  <2>1. PointsOf(OfType(type))' = SumFunctionOnSet(g, S)
    BY <1>3, <1>8, <1>11
  <2>2. QED
    BY <2>1, <1>7, <1>9, <1>11 DEF S
<1>12. QED
  BY <1>10, <1>11

(* So does the number of rows, and with it what they may be off by.        *)
LEMMA RoundingAdds ==
    ASSUME TypeOK, NEW row \in TxRows, Insert(row), NEW types
    PROVE  /\ Rounding(types) \in Nat
           /\ Rounding(types)' = Rounding(types) + IF row.type \in types THEN 50 ELSE 0
<1> DEFINE S == {t \in DOMAIN txs : txs[t].type \in types}
<1>1. PICK t \in TxIds \ DOMAIN txs :
              /\ DOMAIN txs' = DOMAIN txs \cup {t}
              /\ txs'[t] = row
              /\ \A s \in DOMAIN txs : txs'[s] = txs[s]
  BY InsertTyped
<1>2. IsFiniteSet(S) /\ t \notin S
  BY <1>1, FiniteRows, FS_Subset
<1>3. S' = IF row.type \in types THEN S \cup {t} ELSE S
  BY <1>1
<1>4. Rounding(types) = 50 * Cardinality(S) /\ Rounding(types)' = 50 * Cardinality(S')
  BY DEF Rounding
<1> HIDE DEF S
<1>5. Cardinality(S) \in Nat /\ Cardinality(S \cup {t}) = Cardinality(S) + 1
  BY <1>2, FS_CardinalityType, FS_AddElement
<1>6. QED
  BY <1>3, <1>4, <1>5

(* Unlocking or expiring a transaction changes no total.                   *)
LEMMA TotalsKept ==
    ASSUME TypeOK, DOMAIN txs' = DOMAIN txs, NEW type,
           \A t \in DOMAIN txs : /\ txs'[t].type = txs[t].type
                                 /\ txs'[t].points = txs[t].points
    PROVE  /\ PointsOf(OfType(type))' = PointsOf(OfType(type))
           /\ \A types : Rounding(types)' = Rounding(types)
<1> DEFINE f == [s \in DOMAIN txs |-> txs[s].points]
           g == [s \in DOMAIN txs' |-> txs'[s].points]
           S == OfType(type)
<1>1. OfType(type)' = S
  BY DEF OfType
<1>2. IsFiniteSet(S) /\ \A s \in S : f[s] = g[s]
  BY FiniteRows, FS_Subset DEF OfType
<1>3. /\ PointsOf(S) = SumFunctionOnSet(f, S)
      /\ PointsOf(OfType(type))' = SumFunctionOnSet(g, OfType(type)')
  BY DEF PointsOf
<1> HIDE DEF f, g, S
<1>4. SumFunctionOnSet(f, S) = SumFunctionOnSet(g, S)
  BY <1>2, SumsAgree
<1>5. PointsOf(OfType(type))' = PointsOf(S)
  BY <1>1, <1>3, <1>4
<1>6. ASSUME NEW types PROVE Rounding(types)' = Rounding(types)
  <2>1. {t \in DOMAIN txs : txs[t].type \in types}'
           = {t \in DOMAIN txs : txs[t].type \in types}
    OBVIOUS
  <2>2. QED
    BY <2>1 DEF Rounding
<1>7. QED
  BY <1>5, <1>6 DEF S

LEMMA TotalsAreNat ==
    ASSUME TypeOK
    PROVE  Earned \in Nat /\ Burned \in Nat /\ Expired \in Nat
  BY PointsAreNat DEF Earned, Burned, Expired, OfType

(* What is booked for a row restores the balance the row has broken, but   *)
(* for what its stored points are off by.                                  *)
LEMMA BookedBalances ==
    ASSUME TypeOK, NEW w \in Wallets, Balanced(w),
           NEW row \in TxRows, Bookable(row), Insert(InTable(row))
    PROVE  Adds(Booked(w, row), Earned', Burned', Expired', EarnSlack', SpendSlack')
<1> DEFINE e == IF row.type = "earn" THEN row.points ELSE 0
           b == IF row.type = "burn" THEN row.points ELSE 0
           x == IF row.type = "expire" THEN row.points ELSE 0
           v == Booked(w, row)
           p == InTable(row).points
<1>1. /\ Earned' = Earned + IF row.type = "earn" THEN p ELSE 0
      /\ Burned' = Burned + IF row.type = "burn" THEN p ELSE 0
      /\ Expired' = Expired + IF row.type = "expire" THEN p ELSE 0
  BY TotalAdds, InTableTyped DEF Earned, Burned, Expired
<1>s. /\ EarnSlack' = EarnSlack + (IF row.type \in {"earn"} THEN 50 ELSE 0)
      /\ SpendSlack' = SpendSlack + (IF row.type \in {"burn", "expire"} THEN 50 ELSE 0)
      /\ EarnSlack \in Nat /\ SpendSlack \in Nat
  BY RoundingAdds, InTableTyped DEF EarnSlack, SpendSlack
<1>p. p \in Nat /\ row.points - 50 <= p /\ p <= row.points + 50
  <2>1. row.points \in Nat
    BY DEF TxRows
  <2>2. QED
    BY <2>1, InTableTyped, StoredIsNear
<1>2. Earned \in Nat /\ Burned \in Nat /\ Expired \in Nat /\ row.points \in Nat
  BY TotalsAreNat DEF TxRows
<1>3. /\ w.total \in Int /\ w.available \in Int /\ w.locked \in Int
      /\ Within(w.total, Earned, EarnSlack)
      /\ Within(w.available + w.locked, w.total - Burned - Expired, SpendSlack)
  BY DEF Wallets, Balanced, Adds
<1>4. v.total = w.total + e /\ v.available + v.locked = w.available + w.locked + e - b - x
  <2>1. CASE row.type = "earn"
    <3>1. \/ v = [w EXCEPT !.total = @ + row.points, !.locked = @ + row.points]
          \/ v = [w EXCEPT !.total = @ + row.points, !.available = @ + row.points]
      BY <2>1, BookedCases
    <3> HIDE DEF v
    <3>2. CASE v = [w EXCEPT !.total = @ + row.points, !.locked = @ + row.points]
      BY <2>1, <3>2, <1>2, <1>3 DEF Wallets
    <3>3. CASE v = [w EXCEPT !.total = @ + row.points, !.available = @ + row.points]
      BY <2>1, <3>3, <1>2, <1>3 DEF Wallets
    <3>4. QED
      BY <3>1, <3>2, <3>3
  <2>2. CASE row.type = "burn"
    <3>1. v = [w EXCEPT !.available = @ - row.points, !.burned = @ + row.points]
      BY <2>2, BookedCases
    <3> HIDE DEF v
    <3>2. QED
      BY <2>2, <3>1, <1>2, <1>3 DEF Wallets
  <2>3. CASE row.type = "expire"
    <3>1. v = [w EXCEPT !.available = @ - row.points]
      BY <2>3, BookedCases
    <3> HIDE DEF v
    <3>2. QED
      BY <2>3, <3>1, <1>2, <1>3 DEF Wallets
  <2>4. QED
    BY <2>1, <2>2, <2>3 DEF Bookable
<1>5. v.total \in Int /\ v.available + v.locked \in Int
  BY <1>2, <1>3, <1>4
<1> HIDE DEF v, p
<1>6. /\ Within(v.total, Earned', EarnSlack')
      /\ Within(v.available + v.locked, v.total - Burned' - Expired', SpendSlack')
  <2>1. CASE row.type = "earn"
    BY <2>1, <1>1, <1>2, <1>3, <1>4, <1>p, <1>s DEF Within
  <2>2. CASE row.type = "burn"
    BY <2>2, <1>1, <1>2, <1>3, <1>4, <1>p, <1>s DEF Within
  <2>3. CASE row.type = "expire"
    BY <2>3, <1>1, <1>2, <1>3, <1>4, <1>p, <1>s DEF Within
  <2>4. QED
    BY <2>1, <2>2, <2>3 DEF Bookable
<1>7. QED
  BY <1>6 DEF Adds, v

(* Saving a wallet changes none of its balances.                           *)
LEMMA SavedBalances ==
    ASSUME NEW w \in Wallets, Balanced(w)
    PROVE  Balanced(Saved(w))
  BY SavedTyped DEF Balanced, Adds

(* Nobody else is in flight when a handler moves.                          *)
LEMMA OnlyOne ==
    ASSUME Types, Ledger, NEW h \in Handlers, NEW m \in Memory, Continue(h, m),
           setting' = setting, failures' = failures, Quiet'
    PROVE  /\ Quiet
           /\ run'[h] = m /\ \A g \in Handlers \ {h} : run'[g] = run[g]
           /\ \A f, g \in InFlight' : f = g
           /\ ~At(h, "idle") \/ m.pc # "idle" =>
                 \A g \in Handlers \ {h} : At(g, "idle")
<1>1. /\ run' = [run EXCEPT ![h] = m] /\ run \in [Handlers -> Memory]
      /\ overlapped' = (overlapped \/ Cardinality(InFlight') > 1)
  BY DEF Types, TypeOK, Continue
<1>2. /\ run'[h] = m
      /\ \A g \in Handlers \ {h} : run'[g] = run[g]
  BY <1>1
<1>3. Quiet /\ ~(Cardinality(InFlight') > 1)
  BY <1>1 DEF Quiet
<1>4. IsFiniteSet(InFlight')
  <2>1. InFlight' \subseteq InFlight \cup {h}
    BY <1>2 DEF InFlight
  <2>2. IsFiniteSet(InFlight \cup {h})
    BY FS_AddElement DEF Types
  <2>3. QED
    BY <2>1, <2>2, FS_Subset
<1>5. ASSUME NEW f \in InFlight', NEW g \in InFlight', f # g PROVE FALSE
  <2>1. IsFiniteSet({f}) /\ Cardinality({f}) = 1
    BY FS_Singleton
  <2>2. Cardinality({f} \cup {g}) = 2
    BY <1>5, <2>1, FS_AddElement
  <2>3. {f} \cup {g} \subseteq InFlight'
    OBVIOUS
  <2>4. Cardinality({f} \cup {g}) <= Cardinality(InFlight')
    BY <1>4, <2>3, FS_Subset
  <2>5. Cardinality(InFlight') \in Nat
    BY <1>4, FS_CardinalityType
  <2>6. QED
    BY <1>3, <2>2, <2>4, <2>5
<1>6. ASSUME ~At(h, "idle"), NEW g \in Handlers \ {h} PROVE At(g, "idle")
  BY <1>3, <1>6 DEF Ledger, InFlight, At
<1>7. ASSUME m.pc # "idle", NEW g \in Handlers \ {h} PROVE At(g, "idle")
  BY <1>2, <1>5, <1>7 DEF InFlight, At
<1>8. QED
  BY <1>2, <1>3, <1>5, <1>6, <1>7

(* A handler that is alone keeps the ledger if what it holds does, given   *)
(* the balance of the wallet row unless it is about to save it.            *)
LEMMA LedgerMoves ==
    ASSUME Types, Ledger, NEW h \in Handlers, NEW m \in Memory, Continue(h, m),
           setting' = setting, failures' = failures,
           ~At(h, "idle") \/ m.pc # "idle",
           Quiet /\ LedgerOf(h, run[h]) /\ (~At(h, "save") => Balanced(wallet))
              => LedgerOf(h, m)' /\ (m.pc # "save" => Balanced(wallet)')
    PROVE  Ledger'
<1> SUFFICES ASSUME Quiet' PROVE Ledger'
  BY DEF Ledger
<1>1. /\ Quiet
      /\ run'[h] = m /\ \A g \in Handlers \ {h} : run'[g] = run[g]
      /\ \A f, g \in InFlight' : f = g
      /\ \A g \in Handlers \ {h} : At(g, "idle")
  BY OnlyOne
<1>2. LedgerOf(h, m)' /\ (m.pc # "save" => Balanced(wallet)')
  <2>1. LedgerOf(h, run[h])
    BY <1>1 DEF Ledger
  <2>2. ~At(h, "save") => \A g \in Handlers : ~At(g, "save")
    BY <1>1 DEF At
  <2>3. ~At(h, "save") => Balanced(wallet)
    BY <1>1, <2>2 DEF Ledger
  <2>4. QED
    BY <1>1, <2>1, <2>3
<1>3. ASSUME NEW g \in Handlers PROVE LedgerOf(g, run[g])'
  <2>1. CASE g = h
    BY <1>1, <1>2, <2>1 DEF LedgerOf
  <2>2. CASE g # h
    BY <1>1, <2>2 DEF LedgerOf, At
  <2>3. QED
    BY <2>1, <2>2
<1>4. (\A g \in Handlers : ~At(g, "save"))' => Balanced(wallet)'
  BY <1>1, <1>2 DEF At
<1>5. QED
  BY <1>1, <1>3, <1>4 DEF Ledger

LEMMA BalancedKept ==
    ASSUME txs' = txs, NEW w
    PROVE  Balanced(w)' <=> Balanced(w)
  BY DEF Balanced, Adds, Earned, Burned, Expired, EarnSlack, SpendSlack,
         Rounding, PointsOf, OfType

LEMMA LedgerUnmoved ==
    ASSUME Ledger, UNCHANGED <<setting, wallet, txs, run, failures, overlapped>>
    PROVE  Ledger'
<1>1. Balanced(wallet)' <=> Balanced(wallet)
  BY BalancedKept
<1>2. \A h \in Handlers : LedgerOf(h, run[h])' <=> LedgerOf(h, run[h])
  BY DEF LedgerOf, Balanced, Adds, Earned, Burned, Expired, EarnSlack, SpendSlack,
         Rounding, PointsOf, OfType
<1>3. QED
  BY <1>1, <1>2 DEF Ledger, Quiet, At, InFlight

LEMMA RequestsBalance ==
    ASSUME Types, Ledger, NEW r \in Requests, Request(r)
    PROVE  Ledger'
<1>1. /\ r \in Handlers /\ r \notin Unlocks
      /\ run[r] \in Memory /\ InHand(r, run[r]) /\ TypeOK
  BY Kinds DEF Types, TypeOK, Handlers, Crons
<1>2. ASSUME NEW m \in Memory, Continue(r, m), m.pc = "insert", m.wal = wallet,
             ~At(r, "save"), UNCHANGED <<setting, wallet, txs, failures>>
      PROVE  Ledger'
  BY <1>1, <1>2, LedgerMoves, BalancedKept DEF LedgerOf
<1>3. ASSUME "event" \notin setting.sources \/ "campaign" \in setting.sources
      PROVE  ~Quiet
  BY <1>3 DEF Quiet
<1>4. CASE EarnWithEvent(r)
  <2>1. PICK points \in EarnPoints, validity \in Validities :
          Continue(r, [Idle EXCEPT !.pc = "insert", !.wal = wallet,
            !.row = [NoTx EXCEPT !.type = "earn", !.status = EarnStatus,
                       !.points = points, !.unlock = EventUnlock,
                       !.expiry = EventExpiry(validity)]])
    BY <1>4 DEF EarnWithEvent
  <2> DEFINE row == [NoTx EXCEPT !.type = "earn", !.status = EarnStatus,
                       !.points = points, !.unlock = EventUnlock,
                       !.expiry = EventExpiry(validity)]
  <2>m. PICK m : m = [Idle EXCEPT !.pc = "insert", !.wal = wallet, !.row = row]
    OBVIOUS
  <2>2. points \in Nat /\ validity \in Nat /\ wallet \in Wallets
    BY <1>1, LifecycleAssumption DEF TypeOK
  <2>3. row \in TxRows
    BY <1>1, <2>2, Blank, DatesAreNat DEF TxRows, NoTx
  <2> HIDE DEF row
  <2>4. m \in Memory /\ m.pc = "insert" /\ m.wal = wallet
    BY <2>m, <2>2, <2>3, Blank DEF Memory, Idle, Steps
  <2>5. Continue(r, m)
    BY <2>m, <2>1 DEF row
  <2>6. UNCHANGED <<setting, wallet, txs, failures>> /\ ~At(r, "save")
    BY <1>4 DEF EarnWithEvent, At
  <2>7. QED
    BY <1>2, <2>4, <2>5, <2>6
<1>5. CASE Burn(r)
  <2>1. PICK points \in BurnPoints :
          Continue(r, [Idle EXCEPT !.pc = "insert", !.wal = wallet,
            !.row = [NoTx EXCEPT !.type = "burn", !.status = "active",
                                 !.points = points]])
    BY <1>5 DEF Burn
  <2> DEFINE row == [NoTx EXCEPT !.type = "burn", !.status = "active",
                                 !.points = points]
  <2>m. PICK m : m = [Idle EXCEPT !.pc = "insert", !.wal = wallet, !.row = row]
    OBVIOUS
  <2>2. points \in Nat /\ wallet \in Wallets
    BY <1>1, LifecycleAssumption DEF TypeOK
  <2>3. row \in TxRows
    BY <2>2, Blank DEF TxRows, NoTx
  <2> HIDE DEF row
  <2>4. m \in Memory /\ m.pc = "insert" /\ m.wal = wallet
    BY <2>m, <2>2, <2>3, Blank DEF Memory, Idle, Steps
  <2>5. Continue(r, m)
    BY <2>m, <2>1 DEF row
  <2>6. UNCHANGED <<setting, wallet, txs, failures>> /\ ~At(r, "save")
    BY <1>5 DEF Burn, At
  <2>7. QED
    BY <1>2, <2>4, <2>5, <2>6
<1>6. CASE CreditWallet(r)
  <2>1. setting' = setting /\ "campaign" \in setting.sources
    BY <1>6 DEF CreditWallet
  <2>2. ~Quiet'
    BY <2>1 DEF Quiet
  <2>3. QED
    BY <2>2 DEF Ledger
<1>7. CASE CreditLoad(r) \/ CreditSave(r) \/ CreditInsert(r)
  <2>1. run[r].pc \in {"credit", "creditSave", "creditTx"}
    BY <1>7 DEF CreditLoad, CreditSave, CreditInsert, At
  <2>2. ~Quiet
    BY <1>1, <2>1 DEF Ledger, LedgerOf
  <2>3. setting' = setting /\ failures' = failures /\ (overlapped => overlapped')
    BY <1>7 DEF CreditLoad, CreditSave, CreditInsert, Continue, Return
  <2>4. ~Quiet'
    BY <2>2, <2>3 DEF Quiet
  <2>5. QED
    BY <2>4 DEF Ledger
<1>8. CASE InsertTx(r)
  <2>m. PICK m : m = [run[r] EXCEPT !.pc = "save", !.wal = Booked(@, run[r].row)]
    OBVIOUS
  <2>1. /\ Continue(r, m) /\ Insert(InTable(run[r].row)) /\ run[r].pc = "insert"
        /\ UNCHANGED <<setting, wallet, failures>>
    BY <2>m, <1>8 DEF InsertTx, At
  <2>2. /\ run[r].row \in TxRows
        /\ run[r].wal \in Wallets /\ Bookable(run[r].row)
    BY <1>1, <2>1 DEF Memory, InHand
  <2>3. Booked(run[r].wal, run[r].row) \in Wallets
    BY <2>2, BookedTyped
  <2>4. /\ m \in Memory /\ m.pc = "save"
        /\ m.wal = Booked(run[r].wal, run[r].row)
    BY <2>m, <1>1, <2>3 DEF Memory, Steps
  <2>5. ASSUME LedgerOf(r, run[r]), Balanced(wallet) PROVE LedgerOf(r, m)'
    <3>1. Balanced(run[r].wal)
      BY <2>1, <2>5 DEF LedgerOf
    <3>2. Adds(Booked(run[r].wal, run[r].row), Earned', Burned', Expired',
               EarnSlack', SpendSlack')
      BY <1>1, <2>1, <2>2, <3>1, BookedBalances
    <3>3. Balanced(m.wal)'
      BY <2>4, <3>2 DEF Balanced
    <3>4. QED
      BY <1>1, <2>4, <3>3 DEF LedgerOf
  <2>6. ~At(r, "save") /\ ~At(r, "idle")
    BY <2>1 DEF At
  <2>7. QED
    BY <1>1, <2>1, <2>4, <2>5, <2>6, LedgerMoves
<1>9. CASE SaveWallet(r)
  <2>1. /\ Continue(r, Idle) /\ wallet' = Saved(run[r].wal) /\ run[r].pc = "save"
        /\ UNCHANGED <<setting, txs, failures>>
    BY <1>9 DEF SaveWallet, Return, At
  <2>2. ASSUME LedgerOf(r, run[r])
        PROVE  LedgerOf(r, Idle)' /\ Balanced(wallet)'
    <3>1. Balanced(Saved(run[r].wal))
      BY <1>1, <2>1, <2>2, SavedBalances DEF LedgerOf, Memory
    <3>2. Balanced(wallet)'
      BY <2>1, <3>1
         DEF Balanced, Adds, Earned, Burned, Expired, EarnSlack, SpendSlack,
         Rounding, PointsOf, OfType
    <3>3. QED
      BY <3>2, IdleForm DEF LedgerOf, Idle
  <2>3. ~At(r, "idle")
    BY <2>1 DEF At
  <2>4. QED
    BY <1>1, <2>1, <2>2, <2>3, Blank, LedgerMoves
<1>10. CASE BurnRefused(r)
  BY <1>10, LedgerUnmoved DEF BurnRefused, vars
<1>11. QED
  BY <1>4, <1>5, <1>6, <1>7, <1>8, <1>9, <1>10 DEF Request

LEMMA CronsBalance ==
    ASSUME Types, Ledger, NEW c \in Crons, Cron(c)
    PROVE  Ledger'
<1>1. /\ c \in Handlers /\ c \notin Requests
      /\ run[c] \in Memory /\ InHand(c, run[c]) /\ TypeOK
      /\ wallet \in Wallets
  BY Kinds DEF Types, TypeOK, Handlers
<1>2. ASSUME NEW batch, Start(c, batch), batch \subseteq DOMAIN txs
      PROVE  Ledger'
  <2>1. UNCHANGED <<setting, wallet, txs, failures>> /\ At(c, "idle")
    BY <1>2 DEF Start
  <2>2. CASE batch = {}
    <3>1. Continue(c, Idle)
      BY <1>2, <2>2 DEF Start, Return
    <3>2. SUFFICES ASSUME Quiet' PROVE Ledger'
      BY DEF Ledger
    <3>3. Quiet /\ \A f, g \in InFlight' : f = g
      BY <1>1, <2>1, <3>1, <3>2, Blank, OnlyOne
    <3>4. /\ run'[c] = Idle /\ \A g \in Handlers \ {c} : run'[g] = run[g]
      BY <1>1, <2>1, <3>1, <3>2, Blank, OnlyOne
    <3>5. /\ (\A g \in Handlers : ~At(g, "save")) => Balanced(wallet)
          /\ \A g \in Handlers : LedgerOf(g, run[g])
      BY <3>3 DEF Ledger
    <3>6. (\A g \in Handlers : ~At(g, "save"))' => Balanced(wallet)'
      <4>1. (\A g \in Handlers : ~At(g, "save"))' => \A g \in Handlers : ~At(g, "save")
        BY <2>1, <3>4 DEF At
      <4>2. Balanced(wallet) => Balanced(wallet)'
        BY <2>1 DEF Balanced, Adds, Earned, Burned, Expired, EarnSlack, SpendSlack,
         Rounding, PointsOf, OfType
      <4>3. QED
        BY <3>5, <4>1, <4>2
    <3>7. ASSUME NEW g \in Handlers PROVE LedgerOf(g, run[g])'
      <4>1. CASE g = c
        BY <3>4, <4>1, IdleForm DEF LedgerOf
      <4>2. CASE g # c
        <5>1. run'[g] = run[g] /\ LedgerOf(g, run[g])
          BY <3>4, <3>5, <4>2
        <5>2. QED
          BY <2>1, <5>1
             DEF LedgerOf, Balanced, Adds, Earned, Burned, Expired, EarnSlack, SpendSlack,
         Rounding, PointsOf, OfType
      <4>3. QED
        BY <4>1, <4>2
    <3>8. QED
      BY <3>3, <3>6, <3>7 DEF Ledger
  <2>3. CASE batch # {}
    <3>m. PICK m : m = [Idle EXCEPT !.pc = "next", !.queue = batch, !.snap = wallet]
      OBVIOUS
    <3>1. Continue(c, m)
      BY <3>m, <1>2, <2>3 DEF Start
    <3>2. batch \subseteq TxIds
      BY <1>1, <1>2 DEF TypeOK
    <3>3. m \in Memory /\ m.pc = "next" /\ m.snap = wallet
      BY <3>m, <1>1, <3>2, Blank DEF Memory, Idle, Steps
    <3>4. ASSUME Balanced(wallet)
          PROVE  LedgerOf(c, m)' /\ Balanced(wallet)'
      BY <2>1, <3>3, <3>4
         DEF LedgerOf, Balanced, Adds, Earned, Burned, Expired, EarnSlack, SpendSlack,
         Rounding, PointsOf, OfType
    <3>5. QED
      BY <1>1, <2>1, <3>1, <3>3, <3>4, LedgerMoves DEF At
  <2>4. QED
    BY <2>2, <2>3
<1>3. CASE UnlockStart(c)
  <2>1. {t \in DOMAIN txs : ToUnlock(t)} \subseteq DOMAIN txs
    OBVIOUS
  <2>2. QED
    BY <1>2, <1>3, <2>1 DEF UnlockStart
<1>4. CASE ExpireStart(c)
  <2> DEFINE all == {t \in DOMAIN txs : ToExpire(t)}
             batch == IF Sortable(all) THEN all ELSE {}
  <2>1. Start(c, batch) /\ batch \subseteq DOMAIN txs
    BY <1>4 DEF ExpireStart
  <2> HIDE DEF batch
  <2>2. QED
    BY <1>2, <2>1
<1>5. CASE UnlockNext(c)
  <2>1. PICK t \in run[c].queue :
         Continue(c, [run[c] EXCEPT !.pc = "save", !.tx = t,
           !.wal = [run[c].snap EXCEPT !.available = @ + txs[t].points,
                                       !.locked = @ - txs[t].points,
                                       !.burned = wallet.burned]])
    BY <1>5 DEF UnlockNext
  <2> DEFINE w == [run[c].snap EXCEPT !.available = @ + txs[t].points,
                                      !.locked = @ - txs[t].points,
                                      !.burned = wallet.burned]
  <2>m. PICK m : m = [run[c] EXCEPT !.pc = "save", !.tx = t, !.wal = w]
    OBVIOUS
  <2>2. /\ UNCHANGED <<setting, wallet, txs, failures>>
        /\ run[c].pc = "next" /\ c \in Unlocks
    BY <1>5 DEF UnlockNext, At
  <2>3. t \in DOMAIN txs
    BY <1>1, <2>2 DEF InHand
  <2>4. txs[t].points \in Nat /\ t \in 0 .. MaxTx
    BY <1>1, <2>3, FiniteRows, LifecycleAssumption DEF TypeOK, TxIds
  <2>5. run[c].snap \in Wallets
    BY <1>1 DEF Memory
  <2>6. /\ w \in Wallets /\ w.total = run[c].snap.total
        /\ w.available + w.locked = run[c].snap.available + run[c].snap.locked
    <3>1. /\ run[c].snap.available \in Int /\ run[c].snap.locked \in Int
          /\ wallet.burned \in Int
      BY <1>1, <2>5 DEF Wallets
    <3>2. /\ run[c].snap.available + txs[t].points \in Int
          /\ run[c].snap.locked - txs[t].points \in Int
      BY <2>4, <3>1
    <3>3. w \in Wallets
      BY <2>5, <3>1, <3>2, WalletUnlocks
    <3>4. /\ w.total = run[c].snap.total
          /\ w.available = run[c].snap.available + txs[t].points
          /\ w.locked = run[c].snap.locked - txs[t].points
      BY <2>5 DEF Wallets
    <3> HIDE DEF w
    <3>5. QED
      BY <2>4, <3>1, <3>3, <3>4
  <2> HIDE DEF w
  <2>7. /\ m \in Memory /\ m.pc = "save" /\ m.wal = w
        /\ m.snap = run[c].snap
    BY <2>m, <1>1, <2>4, <2>6 DEF Memory, Steps
  <2>8. Continue(c, m)
    BY <2>m, <2>1 DEF w
  <2>9. ASSUME LedgerOf(c, run[c]) PROVE LedgerOf(c, m)'
    <3>1. Balanced(run[c].snap)
      BY <2>2, <2>9 DEF LedgerOf
    <3>2. Balanced(w)
      BY <2>6, <3>1 DEF Balanced, Adds
    <3>3. Balanced(m.wal)' /\ Balanced(m.snap)'
      BY <2>2, <2>7, <3>1, <3>2
         DEF Balanced, Adds, Earned, Burned, Expired, EarnSlack, SpendSlack,
         Rounding, PointsOf, OfType
    <3>4. QED
      BY <2>7, <3>3 DEF LedgerOf
  <2>10. QED
    BY <1>1, <2>2, <2>7, <2>8, <2>9, LedgerMoves DEF At
<1>6. CASE ExpireNext(c)
  <2>1. PICK t \in run[c].queue :
          LET unused == Unused(t, run[c].snap.burned)
          IN  Continue(c, [run[c] EXCEPT !.tx = t,
                !.pc = IF unused > 0 THEN "load" ELSE "mark",
                !.row = [NoTx EXCEPT !.type = "expire", !.status = "active",
                           !.points = unused, !.source = t]])
    BY <1>6 DEF ExpireNext
  <2>2. /\ UNCHANGED <<setting, wallet, txs, failures>>
        /\ run[c].pc = "next" /\ c \notin Unlocks
    BY <1>6, Kinds DEF ExpireNext, At
  <2>3. t \in DOMAIN txs
    BY <1>1, <2>2 DEF InHand
  <2>u. PICK unused : unused = Unused(t, run[c].snap.burned)
    OBVIOUS
  <2>r. PICK row : row = [NoTx EXCEPT !.type = "expire", !.status = "active",
                                      !.points = unused, !.source = t]
    OBVIOUS
  <2>m. PICK m : m = [run[c] EXCEPT !.tx = t,
                         !.pc = IF unused > 0 THEN "load" ELSE "mark",
                         !.row = row]
    OBVIOUS
  <2>4. unused \in Nat /\ t \in 0 .. MaxTx
    <3>1. run[c].snap.burned \in Int
      BY <1>1 DEF Memory, Wallets
    <3>2. t \in 0 .. MaxTx
      BY <1>1, <2>3, LifecycleAssumption DEF TypeOK, TxIds
    <3>3. QED
      BY <1>1, <2>u, <2>3, <3>1, <3>2, UnusedIsNat
  <2>5. row \in TxRows
    BY <2>r, <2>4, Blank DEF TxRows, NoTx
  <2>6. m \in Memory /\ m.pc \in {"load", "mark"}
    BY <2>m, <1>1, <2>4, <2>5 DEF Memory, Steps
  <2>7. Continue(c, m)
    BY <2>m, <2>r, <2>u, <2>1
  <2>8. ASSUME Balanced(wallet) PROVE LedgerOf(c, m)' /\ Balanced(wallet)'
    BY <2>2, <2>6, <2>8, BalancedKept
       DEF LedgerOf, Balanced, Adds, Earned, Burned, Expired, EarnSlack, SpendSlack,
         Rounding, PointsOf, OfType
  <2>9. QED
    BY <1>1, <2>2, <2>6, <2>7, <2>8, LedgerMoves DEF At
<1>7. CASE ExpireLoad(c)
  <2>m. PICK m : m = [run[c] EXCEPT !.pc = "insert", !.wal = wallet]
    OBVIOUS
  <2>1. /\ Continue(c, m) /\ run[c].pc = "load"
        /\ UNCHANGED <<setting, wallet, txs, failures>>
    BY <2>m, <1>7 DEF ExpireLoad, At
  <2>2. m \in Memory /\ m.pc = "insert" /\ m.wal = wallet /\ m.snap = run[c].snap
    BY <2>m, <1>1 DEF Memory, Steps
  <2>3. ASSUME Balanced(wallet), LedgerOf(c, run[c])
        PROVE  LedgerOf(c, m)' /\ Balanced(wallet)'
    BY <2>1, <2>2, <2>3
       DEF LedgerOf, Balanced, Adds, Earned, Burned, Expired, EarnSlack, SpendSlack,
         Rounding, PointsOf, OfType
  <2>4. QED
    BY <1>1, <2>1, <2>2, <2>3, LedgerMoves DEF At
<1>8. CASE InsertTx(c)
  <2>m. PICK m : m = [run[c] EXCEPT !.pc = "save", !.wal = Booked(@, run[c].row)]
    OBVIOUS
  <2>1. /\ Continue(c, m) /\ Insert(InTable(run[c].row)) /\ run[c].pc = "insert"
        /\ UNCHANGED <<setting, wallet, failures>>
    BY <2>m, <1>8 DEF InsertTx, At
  <2>2. /\ run[c].row \in TxRows
        /\ run[c].wal \in Wallets /\ Bookable(run[c].row)
    BY <1>1, <2>1 DEF Memory, InHand
  <2>3. Booked(run[c].wal, run[c].row) \in Wallets
    BY <2>2, BookedTyped
  <2>4. /\ m \in Memory /\ m.pc = "save"
        /\ m.wal = Booked(run[c].wal, run[c].row)
    BY <2>m, <1>1, <2>3 DEF Memory, Steps
  <2>5. ASSUME LedgerOf(c, run[c]), Balanced(wallet) PROVE LedgerOf(c, m)'
    <3>1. Balanced(run[c].wal)
      BY <2>1, <2>5 DEF LedgerOf
    <3>2. Adds(Booked(run[c].wal, run[c].row), Earned', Burned', Expired',
               EarnSlack', SpendSlack')
      BY <1>1, <2>1, <2>2, <3>1, BookedBalances
    <3>3. Balanced(m.wal)'
      BY <2>4, <3>2 DEF Balanced
    <3>4. c \notin Unlocks
      BY <1>1, <2>1 DEF InHand
    <3>5. QED
      BY <2>4, <3>3, <3>4 DEF LedgerOf
  <2>6. ~At(c, "save") /\ ~At(c, "idle")
    BY <2>1 DEF At
  <2>7. QED
    BY <1>1, <2>1, <2>4, <2>5, <2>6, LedgerMoves
<1>9. CASE SaveWallet(c)
  <2>m. PICK m : m = [run[c] EXCEPT !.pc = "mark"]
    OBVIOUS
  <2>1. /\ Continue(c, m) /\ wallet' = Saved(run[c].wal) /\ run[c].pc = "save"
        /\ UNCHANGED <<setting, txs, failures>>
    BY <2>m, <1>1, <1>9 DEF SaveWallet, At
  <2>2. m \in Memory /\ m.pc = "mark" /\ m.snap = run[c].snap
    BY <2>m, <1>1 DEF Memory, Steps
  <2>3. ASSUME LedgerOf(c, run[c])
        PROVE  LedgerOf(c, m)' /\ Balanced(wallet)'
    <3>1. Balanced(Saved(run[c].wal)) /\ (c \in Unlocks => Balanced(run[c].snap))
      BY <1>1, <2>1, <2>3, SavedBalances DEF LedgerOf, Memory
    <3>2. Balanced(wallet)' /\ (c \in Unlocks => Balanced(m.snap)')
      BY <2>1, <2>2, <3>1
         DEF Balanced, Adds, Earned, Burned, Expired, EarnSlack, SpendSlack,
         Rounding, PointsOf, OfType
    <3>3. QED
      BY <2>2, <3>2 DEF LedgerOf
  <2>4. ~At(c, "idle")
    BY <2>1 DEF At
  <2>5. QED
    BY <1>1, <2>1, <2>2, <2>3, <2>4, LedgerMoves
<1>10. CASE Mark(c)
  <2> DEFINE tx == run[c].tx
             left == run[c].queue \ {tx}
             status == IF c \in Unlocks THEN "active" ELSE "expired"
  <2>m. PICK m : m = IF left = {} THEN Idle
                     ELSE [run[c] EXCEPT !.pc = "next", !.queue = left]
    OBVIOUS
  <2>1. /\ txs' = [txs EXCEPT ![tx].status = status] /\ run[c].pc = "mark"
        /\ Continue(c, m) /\ UNCHANGED <<setting, wallet, failures>>
    BY <2>m, <1>10 DEF Mark, At, Return
  <2>2. tx \in DOMAIN txs /\ left \subseteq DOMAIN txs
    BY <1>1, <2>1 DEF InHand
  <2>3. /\ m \in Memory /\ m.pc \in {"idle", "next"}
        /\ m.pc # "idle" => m.snap = run[c].snap
    <3>1. CASE left = {}
      BY <2>m, <3>1, Blank, IdleForm
    <3>2. CASE left # {}
      BY <2>m, <3>2, <1>1 DEF Memory, Steps
    <3>3. QED
      BY <3>1, <3>2
  <2>4. /\ DOMAIN txs' = DOMAIN txs
        /\ \A t \in DOMAIN txs : /\ txs'[t].type = txs[t].type
                                 /\ txs'[t].points = txs[t].points
    <3> HIDE DEF status, tx
    <3>1. /\ DOMAIN txs' = DOMAIN txs
          /\ \A t \in DOMAIN txs : txs'[t] = IF t = tx
                 THEN [txs[t] EXCEPT !.status = status] ELSE txs[t]
      BY <2>1
    <3>2. \A t \in DOMAIN txs : /\ [txs[t] EXCEPT !.status = status].type = txs[t].type
                               /\ [txs[t] EXCEPT !.status = status].points = txs[t].points
      BY <1>1, FiniteRows DEF TxRows
    <3>3. QED
      BY <3>1, <3>2
  <2>5. /\ Earned' = Earned /\ Burned' = Burned /\ Expired' = Expired
        /\ EarnSlack' = EarnSlack /\ SpendSlack' = SpendSlack
    BY <1>1, <2>4, TotalsKept
       DEF Earned, Burned, Expired, EarnSlack, SpendSlack
  <2>6. ASSUME LedgerOf(c, run[c]), Balanced(wallet)
        PROVE  LedgerOf(c, m)' /\ Balanced(wallet)'
    <3>1. c \in Unlocks => Balanced(run[c].snap)
      BY <2>1, <2>6 DEF LedgerOf
    <3>2. Balanced(wallet)' /\ (c \in Unlocks /\ m.pc # "idle" => Balanced(m.snap)')
      BY <2>1, <2>3, <2>5, <2>6, <3>1 DEF Balanced
    <3>3. QED
      BY <2>3, <3>2 DEF LedgerOf
  <2>7. ~At(c, "idle") /\ ~At(c, "save")
    BY <2>1 DEF At
  <2>8. QED
    BY <1>1, <2>1, <2>3, <2>6, <2>7, LedgerMoves
<1>11. QED
  BY <1>3, <1>4, <1>5, <1>6, <1>7, <1>8, <1>9, <1>10 DEF Cron

LEMMA LedgerStart == Init => Ledger
<1> SUFFICES ASSUME Init PROVE Ledger
  OBVIOUS
<1>1. txs = [t \in {} |-> NoTx] /\ wallet = NoWallet
  BY DEF Init
<1>2. \A type : OfType(type) = {}
  BY <1>1 DEF OfType
<1>3. \A type : PointsOf(OfType(type)) = 0
  BY <1>2, SumOfNone DEF PointsOf
<1>r. EarnSlack = 0 /\ SpendSlack = 0
  <2>1. ASSUME NEW types PROVE Rounding(types) = 0
    <3>1. {t \in DOMAIN txs : txs[t].type \in types} = {}
      BY <1>1
    <3>2. QED
      BY <3>1, FS_EmptySet DEF Rounding
  <2>2. QED
    BY <2>1 DEF EarnSlack, SpendSlack
<1>4. Balanced(wallet)
  BY <1>1, <1>3, <1>r DEF Balanced, Adds, Within, Earned, Burned, Expired, NoWallet
<1>5. \A h \in Handlers : run[h].pc = "idle"
  BY IdleForm DEF Init
<1>6. QED
  BY <1>4, <1>5 DEF Ledger, LedgerOf, InFlight

LEMMA LedgerKept == ASSUME Types, Ledger, [Next]_vars PROVE Ledger'
<1>1. ASSUME NEW r \in Requests, Request(r) PROVE Ledger'
  BY <1>1, RequestsBalance
<1>2. ASSUME NEW c \in Crons, Cron(c) PROVE Ledger'
  BY <1>2, CronsBalance
<1>3. ASSUME NEW h \in Handlers, Fail(h) PROVE Ledger'
  <2>1. failures' # 0
    BY <1>3, LifecycleAssumption DEF Fail, Types, TypeOK
  <2>2. QED
    BY <2>1 DEF Ledger, Quiet
<1>4. CASE Midnight
  BY <1>4, LedgerUnmoved DEF Midnight
<1>5. CASE UNCHANGED vars
  BY <1>5, LedgerUnmoved DEF vars
<1>6. QED
  BY <1>1, <1>2, <1>3, <1>4, <1>5 DEF Next

(* Whenever no handler is in flight, the balances of the wallet add up to  *)
(* the ledger, but for half a point a row, as long as the handlers ran one *)
(* after the other, none died half-way, and the points come from events:   *)
(* what is earned, burned, unlocked and expired is booked as it is         *)
(* inserted, the rounding of a row is never booked twice, and unlocking    *)
(* from a batch read earlier moves as much into available as out of locked.*)
THEOREM LedgerIsConserved == Spec => []LedgerConserved
<1>1. Init => Types /\ Ledger
  BY TypesStart, LedgerStart
<1>2. Types /\ Ledger /\ [Next]_vars => (Types /\ Ledger)'
  BY TypesKept, LedgerKept
<1>3. Types /\ Ledger => LedgerConserved
  <2> SUFFICES ASSUME Types, Ledger, Orderly
               PROVE  Adds(wallet, Earned, Burned, Expired, EarnSlack, SpendSlack)
    BY DEF LedgerConserved, Adds, Earned, Burned, Expired, EarnSlack, SpendSlack
  <2>1. Quiet /\ \A h \in Handlers : ~At(h, "save")
    BY DEF Orderly, Quiet, InFlight, At
  <2>2. QED
    BY <2>1 DEF Ledger, Balanced
<1>4. QED
  BY <1>1, <1>2, <1>3, PTL DEF Spec

=============================================================================
