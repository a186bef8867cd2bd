------------------------------ MODULE NumberProofs ------------------------------
(***************************************************************************)
(* What holds of the vehicles and of the accounts of a number, for any     *)
(* plates, events, requests and bounds.                                    *)
(*                                                                         *)
(* Vehicles: of a plate that is not raced, a request's copy of a row is    *)
(* the row, up to what the request is about to change, and a row that it   *)
(* is about to insert is missing.  A write by another would have made the  *)
(* plate raced.  Accounts: as long as requests come one at a time, the     *)
(* only handler's copy is its row and the number has no other account.     *)
(***************************************************************************)
EXTENDS Vehicles, Accounts, FiniteSetTheorems, TLAPS

-----------------------------------------------------------------------------
(* The inductive invariant.                                                *)

VehicleRows == [account : Nat, plate : Plates, status : {"active", "deleted"},
                listing : Nat, valued : BOOLEAN]

Fields == {"job", "pc", "account", "plate", "copies", "todo", "known", "listing"}

(* Requests about one vehicle of the app.                                  *)
Single == {"manage", "images", "delete", "sell"}

Formed(q) ==
    /\ DOMAIN q = Fields /\ q.pc # "idle"
    /\ q.account \in Nat /\ q.account <= account
    /\ q.todo \subseteq Plates
    /\ DOMAIN q.copies \subseteq Nat
    /\ \A i \in DOMAIN q.copies : q.copies[i] \in VehicleRows
    /\ q.job \in Single => q.plate \in Plates
    /\ q.job # "list" \/ q.pc = "value" => q.todo = {}
    /\ q.listing \in Nat /\ (q.pc = "store" => q.listing # NotListed)

(* What a copy is a copy of.                                               *)
NamedOK(q, i, copy) ==
    /\ i # NoRow => /\ i \in DOMAIN rows
                    /\ rows[i].plate = copy.plate /\ rows[i].account = copy.account
    /\ i = NoRow => /\ copy.account = q.account
                    /\ <<q.job, q.pc>> \in {<<"manage", "save">>, <<"list", "sync">>}
    /\ q.job \in Single => copy.plate = q.plate /\ copy.account = q.account
    /\ q.job = "delete" => copy.status = "active"
    /\ q.pc = "sync" => copy.plate \notin q.todo

Kept(p) == \A i \in DOMAIN rows : rows[i].plate = p => rows[i].status = "active"

(* What a copy says of an unraced plate is still so.                       *)
FreshOK(q, i, copy) ==
    copy.plate \notin raced /\ q.job # "sell" =>
      /\ i # NoRow => /\ copy.status = rows[i].status /\ copy.listing = rows[i].listing
                      /\ rows[i].valued => copy.valued
      /\ i = NoRow => /\ Active(q.account, copy.plate) = {}
                      /\ q.job = "list" => Kept(copy.plate)

(* Plates of the workshops' list that were not in the table are not now.   *)
Missing(q) ==
    \A p \in q.todo \ q.known : p \notin raced => Active(q.account, p) = {}

Good(q) ==
    /\ Formed(q) /\ Missing(q)
    /\ \A i \in DOMAIN q.copies : NamedOK(q, i, q.copies[i]) /\ FreshOK(q, i, q.copies[i])

(* A hidden vehicle is hidden by a row that says deleted.                  *)
HiddenOK ==
    \A h \in hidden : h[2] \notin raced =>
      /\ ~Kept(h[2])
      /\ \A a \in Nat : h[1] <= a => Active(a, h[2]) = {}

OneRow == \A a \in Nat, p \in Plates \ raced : \A i, j \in Active(a, p) : i = j

VInv ==
    /\ rows \in Seq(VehicleRows) /\ \A i \in DOMAIN rows : rows[i].account <= account
    /\ account \in Nat \ {0} /\ listings \in Nat /\ resty \subseteq Plates
    /\ hidden \subseteq (Nat \ {0}) \X Plates
    /\ DOMAIN req = Requests
    /\ \A r \in Requests : req[r] = Idle \/ Good(req[r])
    /\ HiddenOK /\ OneRow

-----------------------------------------------------------------------------
(* Steps that write no row.                                                *)

LEMMA QuietStays ==
    ASSUME VInv, rows' = rows, raced' = raced, hidden' = hidden,
           account' \in Nat, account <= account',
           listings' \in Nat, resty' \subseteq Plates, DOMAIN req' = Requests,
           NEW q, q = Idle \/ Good(q) \/ Good(q)',
           \A s \in Requests : req'[s] \in {req[s], q}
    PROVE  VInv'
<1>1. \A p : /\ Kept(p)' <=> Kept(p)
             /\ \A a : Active(a, p)' = Active(a, p)
  BY DEF Kept, Active
<1>2. ASSUME NEW h, Good(h) PROVE Good(h)'
  <2>1. h.account <= account'
    BY <1>2 DEF Good, Formed, VInv
  <2>2. Formed(h)'
    BY <1>2, <2>1 DEF Good, Formed
  <2>3. Missing(h)'
    BY <1>1, <1>2 DEF Good, Missing
  <2>4. ASSUME NEW i \in DOMAIN h.copies
        PROVE  (NamedOK(h, i, h.copies[i]) /\ FreshOK(h, i, h.copies[i]))'
    <3>1. NamedOK(h, i, h.copies[i]) /\ FreshOK(h, i, h.copies[i])
      BY <1>2 DEF Good
    <3>2. NamedOK(h, i, h.copies[i])'
      BY <3>1 DEF NamedOK
    <3>3. FreshOK(h, i, h.copies[i])'
      BY <3>1, <1>1 DEF FreshOK
    <3>4. QED
      BY <3>2, <3>3
  <2>5. QED
    BY <2>2, <2>3, <2>4 DEF Good
<1>3. rows' \in Seq(VehicleRows) /\ \A i \in DOMAIN rows' : rows'[i].account <= account'
  <2>1. rows \in Seq(VehicleRows) /\ account \in Nat
        /\ \A i \in DOMAIN rows : rows[i].account <= account
    BY DEF VInv
  <2>2. \A i \in DOMAIN rows : rows[i] \in VehicleRows
    BY <2>1
  <2>3. \A i \in DOMAIN rows : rows[i].account \in Nat
    BY <2>2 DEF VehicleRows
  <2>4. QED
    BY <2>1, <2>3
<1>4. account' \in Nat \ {0} /\ hidden' \subseteq (Nat \ {0}) \X Plates
  BY DEF VInv
<1>5. ASSUME NEW s \in Requests PROVE (req[s] = Idle \/ Good(req[s]))'
  <2>1. PICK h : h = req'[s]
    OBVIOUS
  <2>2. h = Idle \/ Good(h) \/ Good(h)'
    BY <2>1 DEF VInv
  <2>3. h = Idle \/ Good(h)'
    BY <2>2, <1>2
  <2>4. QED
    BY <2>1, <2>3
<1>6. HiddenOK' /\ OneRow'
  BY <1>1 DEF VInv, HiddenOK, OneRow
<1>7. QED
  BY <1>3, <1>4, <1>5, <1>6 DEF VInv

(* A request that moves while the others stay.                             *)
LEMMA MoveStays ==
    ASSUME VInv, rows' = rows, raced' = raced, hidden' = hidden, account' = account,
           listings' \in Nat, resty' \subseteq Plates,
           NEW r \in Requests, NEW q, q = Idle \/ Good(q) \/ Good(q)',
           req' = [req EXCEPT ![r] = q]
    PROVE  VInv'
<1>1. account \in Nat /\ account <= account' /\ DOMAIN req = Requests
  BY DEF VInv
<1>2. DOMAIN req' = Requests /\ \A s \in Requests : req'[s] \in {req[s], q}
  BY <1>1
<1>3. QED
  BY <1>1, <1>2, QuietStays

LEMMA StepStays ==
    ASSUME VInv, NEW r \in Requests, NEW q, q = Idle \/ Good(q), Step(r, q) \/ Begin(r, q)
    PROVE  VInv'
<1>1. /\ rows' = rows /\ raced' = raced /\ hidden' = hidden /\ account' = account
      /\ listings' = listings /\ resty' = resty /\ req' = [req EXCEPT ![r] = q]
  BY DEF Step, Begin, Go, outside
<1>2. listings \in Nat /\ resty \subseteq Plates
  BY DEF VInv
<1>3. QED
  BY <1>1, <1>2, MoveStays

-----------------------------------------------------------------------------
(* Steps that write one.                                                   *)

Wrote(r, i, row) ==
    /\ row \in VehicleRows
    /\ \/ i = NoRow /\ rows' = Append(rows, row)
       \/ /\ i \in DOMAIN rows /\ rows' = [rows EXCEPT ![i] = row]
          /\ rows[i].plate = row.plate /\ rows[i].account = row.account
    /\ Write(r, row.plate)

Written(i, row) ==
    /\ rows' \in Seq(VehicleRows) /\ DOMAIN rows \subseteq DOMAIN rows'
    /\ \A j \in DOMAIN rows : /\ rows'[j].plate = rows[j].plate
                              /\ rows'[j].account = rows[j].account
                              /\ j # i => rows'[j] = rows[j]
    /\ \A j \in DOMAIN rows' : j \notin DOMAIN rows => rows'[j] = row /\ i = NoRow
    /\ \A j, k \in DOMAIN rows' \ DOMAIN rows : j = k
    /\ i \in DOMAIN rows => rows'[i] = row
    /\ NoRow \notin DOMAIN rows

LEMMA WrittenRows ==
    ASSUME VInv, NEW r \in Requests, NEW i, NEW row, Wrote(r, i, row)
    PROVE  Written(i, row)
<1>1. rows \in Seq(VehicleRows) /\ row \in VehicleRows
  BY DEF VInv, Wrote
<1>2. CASE i = NoRow /\ rows' = Append(rows, row)
  <2>1. /\ DOMAIN rows' = 1 .. Len(rows) + 1 /\ DOMAIN rows = 1 .. Len(rows)
        /\ Len(rows) \in Nat /\ rows'[Len(rows) + 1] = row
        /\ \A j \in 1 .. Len(rows) : rows'[j] = rows[j]
        /\ rows' \in Seq(VehicleRows)
    BY <1>1, <1>2
  <2>2. \A j \in DOMAIN rows' \ DOMAIN rows : j = Len(rows) + 1
    BY <2>1
  <2>4. NoRow \notin DOMAIN rows
    BY <2>1 DEF NoRow
  <2>5. QED
    BY <1>2, <2>1, <2>2, <2>4 DEF Written
<1>3. CASE /\ i \in DOMAIN rows /\ rows' = [rows EXCEPT ![i] = row]
           /\ rows[i].plate = row.plate /\ rows[i].account = row.account
  <2>1. /\ DOMAIN rows' = DOMAIN rows /\ rows'[i] = row
        /\ \A j \in DOMAIN rows : j # i => rows'[j] = rows[j]
        /\ rows' \in Seq(VehicleRows)
    BY <1>1, <1>3
  <2>2. NoRow \notin DOMAIN rows
    BY <1>1 DEF NoRow
  <2>3. QED
    BY <1>3, <2>1, <2>2 DEF Written
<1>4. QED
  BY <1>2, <1>3 DEF Wrote

LEMMA OtherPlatesStay ==
    ASSUME VInv, NEW r \in Requests, NEW i, NEW row, Wrote(r, i, row),
           NEW p, p # row.plate
    PROVE  (Kept(p)' <=> Kept(p)) /\ \A a : Active(a, p)' = Active(a, p)
<1>1. i \in DOMAIN rows => rows[i].plate = row.plate
  BY WrittenRows DEF Wrote, Written
<1>2. /\ \A j \in DOMAIN rows : /\ rows'[j].plate = rows[j].plate
                                /\ j # i => rows'[j] = rows[j]
      /\ \A j \in DOMAIN rows' : j \notin DOMAIN rows => rows'[j] = row
  BY WrittenRows DEF Written
<1>3. \A j \in DOMAIN rows : rows[j].plate = p => rows'[j] = rows[j]
  BY <1>2, <1>1
<1>4. \A j \in DOMAIN rows' : rows'[j].plate = p => j \in DOMAIN rows /\ rows[j].plate = p
  BY <1>2
<1>5. DOMAIN rows \subseteq DOMAIN rows'
  BY WrittenRows DEF Written
<1>6. QED
  BY <1>3, <1>4, <1>5 DEF Kept, Active

(* The other requests: what they hold of the plate is raced.               *)
LEMMA OthersStay ==
    ASSUME VInv, NEW r \in Requests, NEW i, NEW row, Wrote(r, i, row),
           account' = account, NEW s \in Requests \ {r}, NEW q, q = req[s], Good(q)
    PROVE  Good(q)'
<1>1. /\ raced' = raced \cup {p \in {row.plate} : \E t \in Requests \ {r} : p \in Holds(t)}
      /\ q # Idle
  BY DEF Wrote, Write, Good, Formed, Idle
<1>2. q.job # "sell" => /\ \A j \in DOMAIN q.copies : q.copies[j].plate \in Holds(s)
                        /\ q.todo \ q.known \subseteq Holds(s)
  BY <1>1 DEF Holds
<1>3. q.job = "sell" => q.todo = {}
  BY DEF Good, Formed
<1>4. raced \subseteq raced'
  BY <1>1
<1>5. \A p : p \in Holds(s) /\ p \notin raced' => p \notin raced /\ p # row.plate
  BY <1>1
<1>6. \A p : p \in Holds(s) /\ p \notin raced' =>
          (Kept(p)' <=> Kept(p)) /\ \A a : Active(a, p)' = Active(a, p)
  BY <1>5, OtherPlatesStay
<1>7. Formed(q)'
  BY DEF Good, Formed
<1>8. Missing(q)'
  BY <1>2, <1>3, <1>4, <1>6 DEF Good, Missing
<1>9. ASSUME NEW j \in DOMAIN q.copies
      PROVE  NamedOK(q, j, q.copies[j])' /\ FreshOK(q, j, q.copies[j])'
  <2>0. PICK c : c = q.copies[j]
    OBVIOUS
  <2>1. NamedOK(q, j, c) /\ FreshOK(q, j, c)
    BY <2>0 DEF Good
  <2>2. NamedOK(q, j, c)'
    <3>1. j # NoRow => /\ j \in DOMAIN rows' /\ rows'[j].plate = rows[j].plate
                       /\ rows'[j].account = rows[j].account
      BY <2>1, WrittenRows DEF NamedOK, Written
    <3>2. QED
      BY <2>1, <3>1 DEF NamedOK
  <2>3. FreshOK(q, j, c)'
    <3>1. SUFFICES ASSUME c.plate \notin raced', q.job # "sell"
                   PROVE  FreshOK(q, j, c)'
      BY DEF FreshOK
    <3>2. c.plate \in Holds(s) /\ c.plate \notin raced
      BY <2>0, <3>1, <1>2, <1>4
    <3>3. /\ Kept(c.plate)' <=> Kept(c.plate)
          /\ \A a : Active(a, c.plate)' = Active(a, c.plate)
          /\ c.plate # row.plate
      BY <3>1, <3>2, <1>5, <1>6
    <3>4. j # NoRow => j \in DOMAIN rows /\ rows'[j] = rows[j]
      <4>1. j # NoRow => j \in DOMAIN rows /\ rows[j].plate = c.plate
        BY <2>1 DEF NamedOK
      <4>2. i \in DOMAIN rows => rows[i].plate = row.plate
        BY WrittenRows DEF Wrote, Written
      <4>3. QED
        BY <4>1, <4>2, <3>3, WrittenRows DEF Written
    <3>5. QED
      BY <2>1, <3>1, <3>2, <3>3, <3>4 DEF FreshOK
  <2>4. QED
    BY <2>0, <2>2, <2>3
<1>10. QED
  BY <1>7, <1>8, <1>9 DEF Good

(* A table in which a row was inserted that was missing, or changed to     *)
(* what does not bring it back.                                            *)
LEMMA TableStays ==
    ASSUME VInv, NEW r \in Requests, NEW i, NEW row, Wrote(r, i, row),
           account' = account, row.account <= account,
           i = NoRow /\ row.plate \notin raced' => Active(row.account, row.plate) = {},
           i # NoRow /\ row.plate \notin raced' /\ row.status = "active"
             => rows[i].status = "active",
           \/ hidden' = hidden /\ (i = NoRow /\ row.plate \notin raced' => Kept(row.plate))
           \/ hidden' = {h \in hidden : h[2] # row.plate}
           \/ /\ hidden' = hidden \cup {<<account, row.plate>>} /\ i # NoRow
              /\ row.status = "deleted" /\ row.account = account
              /\ row.plate \notin raced' => rows[i].status = "active"
    PROVE  /\ rows' \in Seq(VehicleRows) /\ \A j \in DOMAIN rows' : rows'[j].account <= account'
           /\ hidden' \subseteq (Nat \ {0}) \X Plates
           /\ HiddenOK' /\ OneRow'
<1> DEFINE p == row.plate
<1>1. /\ row \in VehicleRows /\ p \in Plates /\ account \in Nat \ {0}
      /\ raced \subseteq raced' /\ (i = NoRow \/ i \in DOMAIN rows)
      /\ i # NoRow => rows[i].plate = row.plate /\ rows[i].account = row.account
  BY DEF Wrote, Write, VehicleRows, VInv
<1>2. /\ rows' \in Seq(VehicleRows) /\ DOMAIN rows \subseteq DOMAIN rows'
      /\ \A j \in DOMAIN rows : /\ rows'[j].plate = rows[j].plate
                                /\ rows'[j].account = rows[j].account
                                /\ j # i => rows'[j] = rows[j]
      /\ \A j \in DOMAIN rows' : j \notin DOMAIN rows => rows'[j] = row /\ i = NoRow
      /\ i \in DOMAIN rows => rows'[i] = row
      /\ NoRow \notin DOMAIN rows
      /\ \A j, k \in DOMAIN rows' \ DOMAIN rows : j = k
  BY WrittenRows DEF Written
<1>3. \A j \in DOMAIN rows' : rows'[j].account <= account'
  BY <1>2 DEF VInv
<1>4. hidden' \subseteq (Nat \ {0}) \X Plates
  BY <1>1 DEF VInv
<1>5. \A q : q # p => (Kept(q)' <=> Kept(q)) /\ \A a : Active(a, q)' = Active(a, q)
  BY OtherPlatesStay
<1> HIDE DEF p
<1>6. ASSUME p \notin raced', NEW a \in Nat
      PROVE  \/ i # NoRow /\ Active(a, p)' \subseteq Active(a, p)
             \/ /\ i = NoRow
                /\ Active(a, p)' \subseteq Active(a, p) \cup (DOMAIN rows' \ DOMAIN rows)
                /\ a # row.account => Active(a, p)' = Active(a, p)
  BY <1>1, <1>2, <1>6 DEF Active, p
<1>7. OneRow'
  <2>1. SUFFICES ASSUME NEW a \in Nat, NEW q \in Plates \ raced',
                        NEW j \in Active(a, q)', NEW k \in Active(a, q)'
                 PROVE  j = k
    BY DEF OneRow
  <2>2. \A m, n \in Active(a, q) : m = n
    BY <2>1, <1>1 DEF VInv, OneRow
  <2>3. CASE q # p
    BY <2>1, <2>2, <2>3, <1>5
  <2>4. CASE q = p
    <3>1. CASE i # NoRow
      BY <2>1, <2>2, <2>4, <3>1, <1>6
    <3>2. CASE i = NoRow /\ a # row.account
      BY <2>1, <2>2, <2>4, <3>2, <1>6
    <3>3. CASE i = NoRow /\ a = row.account
      <4>1. Active(a, p) = {}
        BY <2>1, <2>4, <3>3 DEF p
      <4>2. QED
        BY <2>1, <2>4, <3>3, <4>1, <1>2, <1>6
    <3>4. QED
      BY <3>1, <3>2, <3>3
  <2>5. QED
    BY <2>3, <2>4
<1>8. HiddenOK'
  <2>1. SUFFICES ASSUME NEW h \in hidden', h[2] \notin raced'
                 PROVE  ~Kept(h[2])' /\ \A a \in Nat : h[1] <= a => Active(a, h[2])' = {}
    BY DEF HiddenOK
  <2>2. h \in hidden => ~Kept(h[2]) /\ \A a \in Nat : h[1] <= a => Active(a, h[2]) = {}
    BY <2>1, <1>1 DEF VInv, HiddenOK
  <2>3. CASE h[2] # p
    <3>1. h \in hidden
      BY <2>3 DEF p
    <3>2. QED
      BY <2>2, <2>3, <3>1, <1>5
  <2>4. CASE h[2] = p /\ h \in hidden
    <3>1. i # NoRow
      BY <2>1, <2>2, <2>4 DEF p
    <3>2. \A a \in Nat : h[1] <= a => Active(a, p)' = {}
      BY <2>1, <2>2, <2>4, <3>1, <1>6
    <3>3. PICK j \in DOMAIN rows : rows[j].plate = p /\ rows[j].status # "active"
      BY <2>2, <2>4 DEF Kept
    <3>4. rows'[j].plate = p /\ rows'[j].status # "active"
      BY <2>1, <2>4, <3>1, <3>3, <1>1, <1>2 DEF p
    <3>5. QED
      BY <2>4, <3>2, <3>3, <3>4, <1>2 DEF Kept
  <2>5. CASE h[2] = p /\ h \notin hidden
    <3>1. /\ h = <<account, p>> /\ i # NoRow /\ row.status = "deleted" /\ row.account = account
          /\ rows[i].status = "active"
      BY <2>1, <2>5 DEF p
    <3>2. rows'[i] = row /\ i \in DOMAIN rows' /\ i \in Active(account, p)
      BY <3>1, <1>1, <1>2 DEF Active, p
    <3>3. ~Kept(p)'
      BY <3>1, <3>2 DEF Kept, p
    <3>4. ASSUME NEW a \in Nat, account <= a PROVE Active(a, p)' = {}
      <4>1. Active(a, p)' \subseteq Active(a, p)
        BY <2>1, <2>5, <3>1, <1>6
      <4>2. i \notin Active(a, p)'
        BY <3>1, <3>2 DEF Active
      <4>3. CASE a = account
        <5>1. \A j \in Active(a, p) : j = i
          BY <3>2, <4>3, <2>1, <2>5, <1>1 DEF VInv, OneRow
        <5>2. QED
          BY <4>1, <4>2, <5>1
      <4>4. CASE a # account
        <5>0. /\ \A j \in DOMAIN rows : rows[j] \in VehicleRows
              /\ \A j \in DOMAIN rows : rows[j].account <= account
          BY DEF VInv
        <5>1. \A j \in DOMAIN rows : rows[j].account <= account /\ rows[j].account \in Nat
          BY <5>0 DEF VehicleRows
        <5>2. Active(a, p) = {}
          BY <3>4, <4>4, <5>1, <1>1 DEF Active
        <5>3. QED
          BY <4>1, <5>2
      <4>5. QED
        BY <4>3, <4>4
    <3>5. QED
      BY <2>5, <3>1, <3>3, <3>4
  <2>6. QED
    BY <2>3, <2>4, <2>5
<1>9. QED
  BY <1>2, <1>3, <1>4, <1>7, <1>8

-----------------------------------------------------------------------------
(* What the writes have in common.                                         *)

(* What a row must not lose.                                               *)
Keeps(old, new) ==
    /\ old.valued => new.valued
    /\ old.listing # NotListed => new.listing # NotListed
    /\ old.status = "deleted" => new.status = "deleted"

Hides(i, row) ==
    \/ hidden' = hidden /\ (i = NoRow /\ row.plate \notin raced' => Kept(row.plate))
    \/ hidden' = {h \in hidden : h[2] # row.plate}
    \/ /\ hidden' = hidden \cup {<<account, row.plate>>} /\ i # NoRow
       /\ row.status = "deleted" /\ row.account = account
       /\ row.plate \notin raced' => rows[i].status = "active"

Stored(r, i, row, q) ==
    /\ Wrote(r, i, row)
    /\ req' = [req EXCEPT ![r] = q] /\ (q = Idle \/ Good(q)')
    /\ account' = account /\ listings' = listings /\ resty' = resty
    /\ row.account <= account
    /\ i = NoRow /\ row.plate \notin raced' => Active(row.account, row.plate) = {}
    /\ i # NoRow /\ row.plate \notin raced' => Keeps(rows[i], row)
    /\ Hides(i, row)

LEMMA StoredStays ==
    ASSUME VInv, NEW r \in Requests, NEW i, NEW row, NEW q, Stored(r, i, row, q)
    PROVE  VInv'
<1>1. /\ Wrote(r, i, row) /\ account' = account /\ row.account <= account
      /\ i = NoRow /\ row.plate \notin raced' => Active(row.account, row.plate) = {}
      /\ Hides(i, row)
  BY DEF Stored
<1>2. i # NoRow /\ row.plate \notin raced' /\ row.status = "active"
        => rows[i].status = "active"
  <2>1. \A j \in DOMAIN rows : rows[j] \in VehicleRows
    BY DEF VInv
  <2>2. i # NoRow => i \in DOMAIN rows
    BY <1>1 DEF Wrote
  <2>3. QED
    BY <2>1, <2>2 DEF Stored, Keeps, VehicleRows
<1>3. /\ rows' \in Seq(VehicleRows) /\ \A j \in DOMAIN rows' : rows'[j].account <= account'
      /\ hidden' \subseteq (Nat \ {0}) \X Plates
      /\ HiddenOK' /\ OneRow'
  BY <1>1, <1>2, TableStays DEF Hides
<1>4. ASSUME NEW s \in Requests PROVE (req[s] = Idle \/ Good(req[s]))'
  <2>1. CASE s = r
    BY <2>1 DEF Stored, VInv
  <2>2. CASE s # r
    <3>1. PICK h : h = req[s]
      OBVIOUS
    <3>2. req'[s] = h
      BY <2>2, <3>1 DEF Stored, VInv
    <3>3. h = Idle \/ Good(h)
      BY <3>1 DEF VInv
    <3>4. h = Idle \/ Good(h)'
      BY <2>2, <3>1, <3>3, <1>1, OthersStay
    <3>5. QED
      BY <3>2, <3>4
  <2>3. QED
    BY <2>1, <2>2
<1>5. /\ account' \in Nat \ {0} /\ listings' \in Nat /\ resty' \subseteq Plates
      /\ DOMAIN req' = Requests
  BY DEF VInv, Stored
<1>6. QED
  BY <1>3, <1>4, <1>5 DEF VInv

(* A request that has written its only copy.                               *)
LEMMA NoneLeft ==
    ASSUME VInv, NEW r \in Requests, NEW i, NEW row, Wrote(r, i, row), account' = account,
           NEW h, Good(h), row.plate \notin h.todo,
           NEW pc \in {"tell", "each"}, NEW q, q = [h EXCEPT !.pc = pc, !.copies = Nothing]
    PROVE  Good(q)'
<1>1. /\ DOMAIN q = Fields /\ q.pc = pc /\ q.account = h.account /\ q.todo = h.todo
      /\ q.known = h.known /\ q.job = h.job /\ q.plate = h.plate /\ q.listing = h.listing
      /\ q.copies = Nothing /\ DOMAIN q.copies = {}
  BY DEF Good, Formed, Fields, Nothing
<1>2. Formed(q)'
  BY <1>1 DEF Good, Formed
<1>3. Missing(q)'
  <2>1. raced \subseteq raced'
    BY DEF Wrote, Write
  <2>2. \A p \in h.todo : \A a : Active(a, p)' = Active(a, p)
    BY OtherPlatesStay
  <2>3. QED
    BY <1>1, <2>1, <2>2 DEF Good, Missing
<1>4. QED
  BY <1>1, <1>2, <1>3 DEF Good

(* A request that goes on with its other copies.                           *)
LEMMA OthersLeft ==
    ASSUME VInv, NEW i, NEW h, Good(h), h.pc \in {"value", "vehicles"}, h.todo = {},
           account' = account, raced \subseteq raced',
           \/ rows' = rows /\ NoRow \notin DOMAIN rows
           \/ \E r \in Requests : \E row : Wrote(r, i, row),
           NEW q, q = [h EXCEPT !.copies = Without(h.copies, i)]
    PROVE  Good(q)'
<1>1. /\ DOMAIN q = Fields /\ q.pc = h.pc /\ q.account = h.account /\ q.todo = {}
      /\ q.job = h.job /\ q.plate = h.plate /\ q.listing = h.listing
      /\ DOMAIN q.copies = DOMAIN h.copies \ {i}
      /\ \A j \in DOMAIN h.copies \ {i} : q.copies[j] = h.copies[j]
  BY DEF Good, Formed, Fields, Without
<1>2. Formed(q)'
  BY <1>1 DEF Good, Formed
<1>3. Missing(q)'
  BY <1>1 DEF Missing
<1>4. \A j \in DOMAIN rows : j # i => j \in DOMAIN rows' /\ rows'[j] = rows[j]
  BY WrittenRows DEF Written
<1>5. ASSUME NEW j \in DOMAIN q.copies
      PROVE  NamedOK(q, j, q.copies[j])' /\ FreshOK(q, j, q.copies[j])'
  <2>1. PICK c : c = h.copies[j] /\ c = q.copies[j] /\ j # i /\ j \in DOMAIN h.copies
    BY <1>1
  <2>2. NamedOK(h, j, c) /\ FreshOK(h, j, c)
    BY <2>1 DEF Good
  <2>3. j # NoRow
    BY <2>2 DEF NamedOK
  <2>4. j \in DOMAIN rows /\ rows'[j] = rows[j] /\ j \in DOMAIN rows'
    BY <2>1, <2>2, <2>3, <1>4 DEF NamedOK
  <2>5. NamedOK(q, j, c)'
    BY <1>1, <2>2, <2>3, <2>4 DEF NamedOK
  <2>6. FreshOK(q, j, c)'
    BY <1>1, <2>2, <2>3, <2>4 DEF FreshOK
  <2>7. QED
    BY <2>1, <2>5, <2>6
<1>6. QED
  BY <1>2, <1>3, <1>5 DEF Good

(* What a request holds when it writes.                                    *)
LEMMA Holding ==
    ASSUME VInv, NEW r \in Requests, NEW q, q = req[r], q.pc # "idle",
           NEW i \in DOMAIN q.copies, NEW c, c = q.copies[i]
    PROVE  /\ Good(q) /\ NamedOK(q, i, c) /\ FreshOK(q, i, c)
           /\ c \in VehicleRows /\ c.account <= account
           /\ i # NoRow => i \in DOMAIN rows /\ rows[i] \in VehicleRows
<1>1. Good(q)
  BY DEF VInv, Idle
<1>2. NamedOK(q, i, c) /\ FreshOK(q, i, c) /\ c \in VehicleRows
  BY <1>1 DEF Good, Formed
<1>3. i # NoRow => i \in DOMAIN rows /\ rows[i] \in VehicleRows
  BY <1>2 DEF NamedOK, VInv
<1>4. c.account <= account
  BY <1>1, <1>2 DEF NamedOK, VInv, Good, Formed
<1>5. QED
  BY <1>1, <1>2, <1>3, <1>4

-----------------------------------------------------------------------------
(* The steps that write.                                                   *)

LEMMA SaveManagedStores ==
    ASSUME VInv, NEW r \in Requests, SaveManaged(r)
    PROVE  \E i, row, q : Stored(r, i, row, q)
<1>1. PICK q : q = req[r]
  OBVIOUS
<1>2. PICK i \in DOMAIN q.copies :
        /\ Save(i, q.copies[i])
        /\ hidden' = IF i = NoRow THEN {h \in hidden : h[2] # q.plate} ELSE hidden
  BY <1>1 DEF SaveManaged
<1>3. PICK c : c = q.copies[i]
  OBVIOUS
<1>4. /\ q.pc = "save" /\ q.job = "manage" /\ Write(r, q.plate)
      /\ req' = [req EXCEPT ![r] = [q EXCEPT !.pc = "tell", !.copies = Nothing]]
      /\ account' = account /\ listings' = listings /\ resty' = resty
  BY <1>1 DEF SaveManaged, Doing, Go, outside
<1>5. /\ Good(q) /\ NamedOK(q, i, c) /\ FreshOK(q, i, c) /\ c \in VehicleRows
      /\ c.account <= account /\ (i # NoRow => i \in DOMAIN rows)
  BY <1>1, <1>3, <1>4, Holding
<1>6. c.plate = q.plate /\ c.account = q.account
  BY <1>4, <1>5 DEF NamedOK, Single
<1>7. Wrote(r, i, c)
  BY <1>2, <1>3, <1>4, <1>5, <1>6 DEF Wrote, Save, NamedOK
<1>8. q.todo = {}
  BY <1>4, <1>5 DEF Good, Formed
<1>9. PICK g : g = [q EXCEPT !.pc = "tell", !.copies = Nothing]
  OBVIOUS
<1>10. Good(g)'
  BY <1>4, <1>5, <1>7, <1>8, <1>9, NoneLeft
<1>11. raced \subseteq raced'
  BY <1>4 DEF Write
<1>12. /\ i = NoRow /\ c.plate \notin raced' => Active(c.account, c.plate) = {}
       /\ i # NoRow /\ c.plate \notin raced' => Keeps(rows[i], c)
  BY <1>4, <1>5, <1>6, <1>11 DEF FreshOK, Keeps
<1>13. Hides(i, c)
  BY <1>2, <1>6 DEF Hides
<1>14. Stored(r, i, c, g)
  BY <1>4, <1>5, <1>7, <1>9, <1>10, <1>12, <1>13 DEF Stored
<1>15. QED
  BY <1>14

LEMMA SaveSyncedStores ==
    ASSUME VInv, NEW r \in Requests, SaveSynced(r)
    PROVE  \E i, row, q : Stored(r, i, row, q)
<1>1. PICK q : q = req[r]
  OBVIOUS
<1>2. PICK i \in DOMAIN q.copies : Save(i, q.copies[i]) /\ Write(r, q.copies[i].plate)
  BY <1>1 DEF SaveSynced
<1>3. PICK c : c = q.copies[i]
  OBVIOUS
<1>4. /\ q.pc = "sync" /\ q.job = "list" /\ Write(r, c.plate) /\ hidden' = hidden
      /\ req' = [req EXCEPT ![r] = [q EXCEPT !.pc = "each", !.copies = Nothing]]
      /\ account' = account /\ listings' = listings /\ resty' = resty
  BY <1>1, <1>2, <1>3 DEF SaveSynced, Doing, Go, outside
<1>5. /\ Good(q) /\ NamedOK(q, i, c) /\ FreshOK(q, i, c) /\ c \in VehicleRows
      /\ c.account <= account /\ (i # NoRow => i \in DOMAIN rows)
  BY <1>1, <1>3, <1>4, Holding
<1>6. c.plate \notin q.todo /\ (i = NoRow => c.account = q.account)
  BY <1>4, <1>5 DEF NamedOK
<1>7. Wrote(r, i, c)
  BY <1>2, <1>3, <1>4, <1>5 DEF Wrote, Save, NamedOK
<1>8. PICK g : g = [q EXCEPT !.pc = "each", !.copies = Nothing]
  OBVIOUS
<1>9. Good(g)'
  BY <1>4, <1>5, <1>6, <1>7, <1>8, NoneLeft
<1>10. raced \subseteq raced'
  BY <1>4 DEF Write
<1>11. /\ i = NoRow /\ c.plate \notin raced' => Active(c.account, c.plate) = {} /\ Kept(c.plate)
       /\ i # NoRow /\ c.plate \notin raced' => Keeps(rows[i], c)
  BY <1>4, <1>5, <1>6, <1>10 DEF FreshOK, Keeps
<1>12. Hides(i, c)
  BY <1>4, <1>11 DEF Hides
<1>13. Stored(r, i, c, g)
  BY <1>4, <1>5, <1>7, <1>8, <1>9, <1>11, <1>12 DEF Stored
<1>14. QED
  BY <1>13

LEMMA SaveCopyStores ==
    ASSUME VInv, NEW r \in Requests, SaveCopy(r)
    PROVE  \E i, row, q : Stored(r, i, row, q)
<1>1. PICK q : q = req[r]
  OBVIOUS
<1>2. PICK i \in DOMAIN q.copies : Save(i, q.copies[i]) /\ Write(r, q.copies[i].plate)
  BY <1>1 DEF SaveCopy
<1>3. PICK c : c = q.copies[i]
  OBVIOUS
<1>4. /\ q.pc = "save" /\ q.job \in {"images", "webhook"} /\ Write(r, c.plate)
      /\ hidden' = hidden /\ req' = [req EXCEPT ![r] = Idle]
      /\ account' = account /\ listings' = listings /\ resty' = resty
  BY <1>1, <1>2, <1>3 DEF SaveCopy, Go, outside
<1>5. /\ NamedOK(q, i, c) /\ FreshOK(q, i, c) /\ c \in VehicleRows
      /\ c.account <= account /\ (i # NoRow => i \in DOMAIN rows)
  BY <1>1, <1>3, <1>4, Holding
<1>6. i # NoRow
  BY <1>4, <1>5 DEF NamedOK
<1>7. Wrote(r, i, c)
  BY <1>2, <1>3, <1>4, <1>5, <1>6 DEF Wrote, Save, NamedOK
<1>8. raced \subseteq raced'
  BY <1>4 DEF Write
<1>9. c.plate \notin raced' => Keeps(rows[i], c)
  BY <1>4, <1>5, <1>6, <1>8 DEF FreshOK, Keeps
<1>10. Hides(i, c)
  BY <1>4, <1>6 DEF Hides
<1>11. Stored(r, i, c, Idle)
  BY <1>4, <1>5, <1>6, <1>7, <1>9, <1>10 DEF Stored
<1>12. QED
  BY <1>11

LEMMA SaveDeletedStores ==
    ASSUME VInv, NEW r \in Requests, SaveDeleted(r)
    PROVE  \E i, row, q : Stored(r, i, row, q)
<1>1. PICK q : q = req[r]
  OBVIOUS
<1>2. PICK i \in DOMAIN q.copies : Save(i, [q.copies[i] EXCEPT !.status = "deleted"])
  BY <1>1 DEF SaveDeleted
<1>3. PICK c : c = q.copies[i]
  OBVIOUS
<1>4. /\ q.pc = "save" /\ q.job = "delete" /\ Write(r, q.plate)
      /\ hidden' = hidden \cup {h \in {<<q.account, q.plate>>} : h[1] = account}
      /\ req' = [req EXCEPT ![r] = Idle]
      /\ account' = account /\ listings' = listings /\ resty' = resty
  BY <1>1 DEF SaveDeleted, Doing, Go, outside
<1>5. /\ NamedOK(q, i, c) /\ FreshOK(q, i, c) /\ c \in VehicleRows
      /\ c.account <= account /\ (i # NoRow => i \in DOMAIN rows)
  BY <1>1, <1>3, <1>4, Holding
<1>6. i # NoRow /\ c.plate = q.plate /\ c.account = q.account /\ c.status = "active"
  BY <1>4, <1>5 DEF NamedOK, Single
<1>7. PICK row : row = [c EXCEPT !.status = "deleted"]
  OBVIOUS
<1>8. /\ row \in VehicleRows /\ row.status = "deleted" /\ row.plate = c.plate
      /\ row.account = c.account /\ row.listing = c.listing /\ row.valued = c.valued
  BY <1>5, <1>7 DEF VehicleRows
<1>9. Wrote(r, i, row)
  BY <1>2, <1>3, <1>4, <1>5, <1>6, <1>7, <1>8 DEF Wrote, Save, NamedOK
<1>10. raced \subseteq raced'
  BY <1>4 DEF Write
<1>11. c.plate \notin raced' => Keeps(rows[i], row) /\ rows[i].status = "active"
  BY <1>4, <1>5, <1>6, <1>8, <1>10 DEF FreshOK, Keeps
<1>12. Hides(i, row)
  <2>1. CASE q.account = account
    <3>1. {h \in {<<q.account, q.plate>>} : h[1] = account} = {<<account, row.plate>>}
      BY <2>1, <1>6, <1>8
    <3>2. QED
      BY <3>1, <2>1, <1>4, <1>6, <1>8, <1>11 DEF Hides
  <2>2. CASE q.account # account
    <3>1. {h \in {<<q.account, q.plate>>} : h[1] = account} = {}
      BY <2>2
    <3>2. QED
      BY <3>1, <1>4, <1>6 DEF Hides
  <2>3. QED
    BY <2>1, <2>2
<1>13. Stored(r, i, row, Idle)
  BY <1>4, <1>5, <1>6, <1>9, <1>8, <1>11, <1>12 DEF Stored
<1>14. QED
  BY <1>13

(* The listing's column alone is written, of a copy that may be old.       *)
LEMMA StoreListingStores ==
    ASSUME VInv, NEW r \in Requests, StoreListing(r)
    PROVE  \E i, row, q : Stored(r, i, row, q)
<1>1. PICK q : q = req[r]
  OBVIOUS
<1>2. PICK i \in DOMAIN q.copies : rows' = [rows EXCEPT ![i].listing = q.listing]
  BY <1>1 DEF StoreListing
<1>3. PICK c : c = q.copies[i]
  OBVIOUS
<1>4. /\ q.pc = "store" /\ q.job = "sell" /\ Write(r, q.plate) /\ hidden' = hidden
      /\ req' = [req EXCEPT ![r] = Idle]
      /\ account' = account /\ listings' = listings /\ resty' = resty
  BY <1>1 DEF StoreListing, Doing, Go, outside
<1>5. /\ Good(q) /\ NamedOK(q, i, c) /\ c.account <= account
      /\ (i # NoRow => i \in DOMAIN rows /\ rows[i] \in VehicleRows)
  BY <1>1, <1>3, <1>4, Holding
<1>6. i # NoRow /\ c.plate = q.plate
  BY <1>4, <1>5 DEF NamedOK, Single
<1>7. PICK row : row = [rows[i] EXCEPT !.listing = q.listing]
  OBVIOUS
<1>8. /\ row \in VehicleRows /\ row.listing # NotListed /\ row.plate = q.plate
      /\ row.account = c.account /\ row.status = rows[i].status
      /\ row.valued = rows[i].valued /\ rows' = [rows EXCEPT ![i] = row]
      /\ row.account = rows[i].account /\ row.plate = rows[i].plate
  <2>1. q.listing \in Nat /\ q.listing # NotListed
    BY <1>4, <1>5 DEF Good, Formed
  <2>2. rows[i] \in VehicleRows /\ rows[i].plate = q.plate /\ rows[i].account = c.account
    BY <1>5, <1>6 DEF NamedOK
  <2>3. QED
    BY <2>1, <2>2, <1>2, <1>7 DEF VehicleRows
<1>9. Wrote(r, i, row)
  BY <1>4, <1>5, <1>6, <1>8 DEF Wrote
<1>10. Keeps(rows[i], row)
  BY <1>8 DEF Keeps
<1>11. Hides(i, row)
  BY <1>4, <1>6 DEF Hides
<1>12. Stored(r, i, row, Idle)
  BY <1>4, <1>5, <1>6, <1>9, <1>8, <1>10, <1>11 DEF Stored
<1>13. QED
  BY <1>12

(* One of several copies, with its status or its valuation changed.        *)
LEMMA OneOfSeveralStores ==
    ASSUME VInv, NEW r \in Requests, NEW q, q = req[r],
           q.job \in {"list", "close"}, q.pc \in {"value", "vehicles"}, q.todo = {},
           NEW i \in DOMAIN q.copies, NEW row,
           \/ row = [q.copies[i] EXCEPT !.status = "deleted"]
           \/ row = [q.copies[i] EXCEPT !.valued = TRUE],
           Save(i, row), Write(r, q.copies[i].plate), hidden' = hidden,
           req' = [req EXCEPT ![r] = IF DOMAIN q.copies = {i} THEN Idle
                                     ELSE [q EXCEPT !.copies = Without(@, i)]],
           UNCHANGED outside
    PROVE  \E h : Stored(r, i, row, h)
<1>1. PICK c : c = q.copies[i]
  OBVIOUS
<1>2. /\ account' = account /\ listings' = listings /\ resty' = resty
      /\ Write(r, c.plate)
  BY <1>1 DEF outside
<1>3. /\ Good(q) /\ NamedOK(q, i, c) /\ FreshOK(q, i, c) /\ c \in VehicleRows
      /\ c.account <= account /\ (i # NoRow => i \in DOMAIN rows)
  BY <1>1, Holding
<1>4. i # NoRow
  BY <1>3 DEF NamedOK
<1>5. /\ row \in VehicleRows /\ row.plate = c.plate /\ row.account = c.account
      /\ row.listing = c.listing /\ (c.valued => row.valued)
      /\ (c.status = "deleted" => row.status = "deleted")
  BY <1>1, <1>3 DEF VehicleRows
<1>6. Wrote(r, i, row)
  BY <1>2, <1>3, <1>4, <1>5 DEF Wrote, Save, NamedOK
<1>7. raced \subseteq raced'
  BY <1>2 DEF Write
<1>8. row.plate \notin raced' => Keeps(rows[i], row)
  BY <1>3, <1>4, <1>5, <1>7 DEF FreshOK, Keeps
<1>9. Hides(i, row)
  BY <1>4 DEF Hides
<1>10. PICK g : g = [q EXCEPT !.copies = Without(q.copies, i)]
  OBVIOUS
<1>11. Good(g)'
  BY <1>2, <1>3, <1>6, <1>7, <1>10, OthersLeft
<1>12. PICK h : h = (IF DOMAIN q.copies = {i} THEN Idle ELSE g)
  OBVIOUS
<1>13. h = Idle \/ Good(h)'
  BY <1>11, <1>12
<1>14. req' = [req EXCEPT ![r] = h]
  BY <1>10, <1>12
<1>15. Stored(r, i, row, h)
  BY <1>2, <1>3, <1>4, <1>6, <1>5, <1>8, <1>9, <1>13, <1>14 DEF Stored
<1>16. QED
  BY <1>15
-----------------------------------------------------------------------------
(* The steps that read.                                                    *)

(* A request with nothing in hand.                                         *)
LEMMA JobIsGood ==
    ASSUME VInv, NEW job, NEW pc \in {"find", "fetch", "customer", "save"}, NEW p,
           job \in Single => p \in Plates
    PROVE  Good(Job(job, pc, p))
<1> DEFINE q == Job(job, pc, p)
<1>1. /\ DOMAIN q = Fields /\ q.pc = pc /\ q.account = account /\ q.todo = {}
      /\ q.job = job /\ q.plate = p /\ q.listing = 0
      /\ q.copies = Nothing /\ DOMAIN q.copies = {} /\ account \in Nat
  BY DEF Job, Fields, Nothing, NotListed, VInv
<1> HIDE DEF q
<1>2. Formed(q)
  BY <1>1 DEF Formed
<1>3. Missing(q)
  BY <1>1 DEF Missing
<1>4. Good(q)
  BY <1>1, <1>2, <1>3 DEF Good
<1>5. QED
  BY <1>4 DEF q

(* A request that goes on with the copies it has.                          *)
LEMMA MovesOn ==
    ASSUME NEW h, Good(h),
           <<h.job, h.pc>> \notin {<<"manage", "save">>, <<"list", "sync">>},
           NEW q, DOMAIN q = Fields, q.pc \in {"compare", "show", "each", "vehicles"},
           q.account = h.account, q.plate = h.plate, q.job = h.job,
           q.listing = h.listing, q.copies = h.copies,
           q.todo \subseteq Plates, q.job # "list" => q.todo = {}, Missing(q)
    PROVE  Good(q)
<1>1. Formed(q)
  BY DEF Good, Formed
<1>2. ASSUME NEW i \in DOMAIN q.copies
      PROVE  NamedOK(q, i, q.copies[i]) /\ FreshOK(q, i, q.copies[i])
  <2>1. NamedOK(h, i, q.copies[i]) /\ FreshOK(h, i, q.copies[i])
    BY <1>2 DEF Good
  <2>2. i # NoRow
    BY <2>1 DEF NamedOK
  <2>3. QED
    BY <2>1, <2>2 DEF NamedOK, FreshOK
<1>3. QED
  BY <1>1, <1>2 DEF Good

(* A request that goes on with one copy.                                   *)
LEMMA TakesCopy ==
    ASSUME NEW h, Formed(h), Missing(h), NEW pc \in {"save", "sync"},
           NEW i \in Nat, NEW c \in VehicleRows,
           NEW q, q = [h EXCEPT !.pc = pc, !.copies = [j \in {i} |-> c]],
           NamedOK(q, i, c), FreshOK(q, i, c)
    PROVE  Good(q)
<1>1. /\ DOMAIN q = Fields /\ q.pc = pc /\ q.account = h.account /\ q.todo = h.todo
      /\ q.known = h.known /\ q.job = h.job /\ q.plate = h.plate /\ q.listing = h.listing
      /\ DOMAIN q.copies = {i} /\ q.copies[i] = c
  BY DEF Formed, Fields
<1>2. Formed(q) /\ Missing(q)
  BY <1>1 DEF Formed, Missing
<1>3. QED
  BY <1>1, <1>2 DEF Good

(* The rows of an account and a plate.                                     *)
LEMMA ActiveRows ==
    ASSUME VInv, NEW a, NEW p, NEW i \in Active(a, p)
    PROVE  /\ i \in DOMAIN rows /\ rows[i] \in VehicleRows /\ i \in Nat /\ i # NoRow
           /\ rows[i].account = a /\ rows[i].plate = p /\ rows[i].status = "active"
<1>1. /\ i \in DOMAIN rows /\ rows[i].account = a /\ rows[i].plate = p
      /\ rows[i].status = "active"
  BY DEF Active
<1>2. rows \in Seq(VehicleRows)
  BY DEF VInv
<1>3. QED
  BY <1>1, <1>2 DEF NoRow

LEMMA NewRowIsARow ==
    ASSUME NEW a \in Nat, NEW p \in Plates, NEW valued \in BOOLEAN
    PROVE  /\ NewRow(a, p, valued) \in VehicleRows
           /\ NewRow(a, p, valued).account = a /\ NewRow(a, p, valued).plate = p
           /\ NewRow(a, p, valued).status = "active"
  BY DEF NewRow, VehicleRows, NotListed

LEMMA FindOrPrepareStays ==
    ASSUME VInv, NEW r \in Requests, FindOrPrepare(r)
    PROVE  VInv'
<1>1. PICK q : q = req[r]
  OBVIOUS
<1>2. q.job = "manage" /\ q.pc = "find"
  BY <1>1 DEF FindOrPrepare, Doing
<1>3. Good(q) /\ Formed(q) /\ Missing(q) /\ q.account \in Nat /\ q.plate \in Plates
  BY <1>1, <1>2 DEF VInv, Good, Formed, Idle, Single
<1>4. PICK g : Good(g) /\ Step(r, g)
  <2>1. PICK valued \in BOOLEAN :
          \/ \E i \in Active(q.account, q.plate) :
               Step(r, [q EXCEPT !.pc = "save",
                                 !.copies = [j \in {i} |-> Updated(rows[i], valued)]])
          \/ /\ Active(q.account, q.plate) = {}
             /\ Step(r, [q EXCEPT !.pc = "save",
                   !.copies = [j \in {NoRow} |-> NewRow(q.account, q.plate, valued)]])
    BY <1>1 DEF FindOrPrepare, CarValuations
  <2>2. ASSUME NEW i \in Active(q.account, q.plate),
               Step(r, [q EXCEPT !.pc = "save",
                                 !.copies = [j \in {i} |-> Updated(rows[i], valued)]])
        PROVE  \E g : Good(g) /\ Step(r, g)
    <3>1. PICK c : c = Updated(rows[i], valued)
      OBVIOUS
    <3>2. PICK g : g = [q EXCEPT !.pc = "save", !.copies = [j \in {i} |-> c]]
      OBVIOUS
    <3>3. /\ i \in DOMAIN rows /\ rows[i] \in VehicleRows /\ i \in Nat /\ i # NoRow
          /\ rows[i].account = q.account /\ rows[i].plate = q.plate
      BY <2>2, ActiveRows
    <3>4. /\ c \in VehicleRows /\ c.plate = q.plate /\ c.account = q.account
          /\ c.status = rows[i].status /\ c.listing = rows[i].listing
          /\ (rows[i].valued => c.valued)
      BY <3>1, <3>3 DEF Updated, VehicleRows
    <3>5. g.job = "manage" /\ g.pc = "save" /\ g.plate = q.plate /\ g.account = q.account
      BY <1>2, <1>3, <3>2 DEF Formed, Fields
    <3>6. NamedOK(g, i, c) /\ FreshOK(g, i, c)
      BY <3>3, <3>4, <3>5 DEF NamedOK, FreshOK
    <3>7. Good(g)
      BY <1>3, <3>2, <3>3, <3>4, <3>6, TakesCopy
    <3>8. QED
      BY <2>2, <3>1, <3>2, <3>7
  <2>3. ASSUME Active(q.account, q.plate) = {},
               Step(r, [q EXCEPT !.pc = "save",
                   !.copies = [j \in {NoRow} |-> NewRow(q.account, q.plate, valued)]])
        PROVE  \E g : Good(g) /\ Step(r, g)
    <3>1. PICK c : c = NewRow(q.account, q.plate, valued)
      OBVIOUS
    <3>2. PICK g : g = [q EXCEPT !.pc = "save", !.copies = [j \in {NoRow} |-> c]]
      OBVIOUS
    <3>4. c \in VehicleRows /\ c.plate = q.plate /\ c.account = q.account
      BY <1>3, <3>1, NewRowIsARow
    <3>5. g.job = "manage" /\ g.pc = "save" /\ g.plate = q.plate /\ g.account = q.account
      BY <1>2, <1>3, <3>2 DEF Formed, Fields
    <3>6. NamedOK(g, NoRow, c) /\ FreshOK(g, NoRow, c)
      BY <2>3, <3>4, <3>5 DEF NamedOK, FreshOK
    <3>7. NoRow \in Nat
      BY DEF NoRow
    <3>8. Good(g)
      BY <1>3, <3>2, <3>4, <3>6, <3>7, TakesCopy
    <3>9. QED
      BY <2>3, <3>1, <3>2, <3>8
  <2>4. QED
    BY <2>1, <2>2, <2>3
<1>5. QED
  BY <1>4, StepStays

LEMMA FindStays ==
    ASSUME VInv, NEW r \in Requests, Find(r)
    PROVE  VInv'
<1>1. PICK q : q = req[r]
  OBVIOUS
<1>2. q.job \in {"images", "delete", "sell"} /\ q.pc = "find"
  BY <1>1 DEF Find
<1>3. Good(q) /\ Formed(q) /\ Missing(q)
  BY <1>1, <1>2 DEF VInv, Good, Idle
<1>4. PICK g : (g = Idle \/ Good(g)) /\ Step(r, g)
  <2>1. ASSUME NEW i \in Active(q.account, q.plate),
               Step(r, [q EXCEPT !.pc = "save", !.copies = [j \in {i} |-> rows[i]]])
        PROVE  \E g : Good(g) /\ Step(r, g)
    <3>1. PICK c : c = rows[i]
      OBVIOUS
    <3>2. PICK g : g = [q EXCEPT !.pc = "save", !.copies = [j \in {i} |-> c]]
      OBVIOUS
    <3>3. /\ i \in DOMAIN rows /\ c \in VehicleRows /\ i \in Nat /\ i # NoRow
          /\ c.account = q.account /\ c.plate = q.plate /\ c.status = "active"
      BY <2>1, <3>1, ActiveRows
    <3>5. g.job = q.job /\ g.pc = "save" /\ g.plate = q.plate /\ g.account = q.account
      BY <1>2, <1>3, <3>2 DEF Formed, Fields
    <3>6. NamedOK(g, i, c) /\ FreshOK(g, i, c)
      BY <3>1, <3>3, <3>5 DEF NamedOK, FreshOK
    <3>7. Good(g)
      BY <1>3, <3>2, <3>3, <3>6, TakesCopy
    <3>8. QED
      BY <2>1, <3>1, <3>2, <3>7
  <2>2. QED
    BY <1>1, <2>1 DEF Find
<1>5. QED
  BY <1>4, StepStays

LEMMA PostListingStays ==
    ASSUME VInv, NEW r \in Requests, PostListing(r)
    PROVE  VInv'
<1>1. PICK q : q = req[r]
  OBVIOUS
<1>2. /\ q.job = "sell" /\ q.pc = "save" /\ listings' = listings + 1 /\ listings \in Nat
      /\ req' = [req EXCEPT ![r] = [q EXCEPT !.pc = "store", !.listing = listings']]
      /\ UNCHANGED <<rows, account, resty, hidden, raced>>
  BY <1>1 DEF PostListing, Doing, Go, VInv
<1>3. Good(q)
  BY <1>1, <1>2 DEF VInv, Idle
<1>4. PICK g : g = [q EXCEPT !.pc = "store", !.listing = listings']
  OBVIOUS
<1>5. /\ DOMAIN g = Fields /\ g.pc = "store" /\ g.account = q.account /\ g.todo = q.todo
      /\ g.known = q.known /\ g.job = "sell" /\ g.plate = q.plate
      /\ g.listing = listings + 1 /\ g.copies = q.copies
  BY <1>2, <1>3, <1>4 DEF Good, Formed, Fields
<1>6. Formed(g) /\ Missing(g)
  BY <1>2, <1>3, <1>5 DEF Good, Formed, Missing, NotListed
<1>7. \A i \in DOMAIN g.copies : NamedOK(g, i, g.copies[i]) /\ FreshOK(g, i, g.copies[i])
  BY <1>2, <1>3, <1>5 DEF Good, NamedOK, FreshOK
<1>8. Good(g)
  BY <1>6, <1>7 DEF Good
<1>9. QED
  <2>1. /\ rows' = rows /\ raced' = raced /\ hidden' = hidden /\ account' = account
        /\ listings' \in Nat /\ resty' \subseteq Plates /\ req' = [req EXCEPT ![r] = g]
    BY <1>2, <1>4 DEF VInv
  <2>2. QED
    BY <2>1, <1>8, MoveStays

(* Copies of rows, as they are.                                            *)
LEMMA CopiesAreGood ==
    ASSUME VInv, NEW h, Formed(h), h.todo = {}, h.job \in {"list", "close", "webhook"},
           NEW S, S \subseteq DOMAIN rows, NEW q, DOMAIN q = Fields,
           q.pc \in {"value", "customer", "save"}, q.account = h.account,
           q.plate = h.plate, q.todo = {}, q.job = h.job, q.listing = h.listing,
           q.copies = [i \in S |-> rows[i]]
    PROVE  Good(q)
<1>1. DOMAIN q.copies = S /\ \A i \in S : q.copies[i] = rows[i]
  OBVIOUS
<1>2. \A i \in S : i \in Nat /\ i # NoRow /\ rows[i] \in VehicleRows
  <2>1. rows \in Seq(VehicleRows)
    BY DEF VInv
  <2>2. QED
    BY <2>1 DEF NoRow
<1>3. Formed(q)
  BY <1>1, <1>2 DEF Formed, Single
<1>4. Missing(q)
  BY DEF Missing
<1>5. \A i \in S : NamedOK(q, i, rows[i]) /\ FreshOK(q, i, rows[i])
  BY <1>1, <1>2 DEF NamedOK, FreshOK, Single
<1>6. QED
  BY <1>1, <1>3, <1>4, <1>5 DEF Good

LEMMA BeginsStay ==
    ASSUME VInv, NEW r \in Requests,
           \/ \E p \in Plates : Manage(r, p)
           \/ \E p \in Plates : \E job \in {"images", "delete", "sell"} : Change(r, job, p)
           \/ List(r) \/ CloseAccount(r)
           \/ \E n \in 1 .. MaxListings : Webhook(r, n)
    PROVE  VInv'
<1>1. PICK g : Good(g) /\ Begin(r, g)
  <2>1. ASSUME NEW p \in Plates, Manage(r, p) PROVE \E g : Good(g) /\ Begin(r, g)
    BY <2>1, JobIsGood DEF Manage
  <2>2. ASSUME NEW p \in Plates, NEW job, Change(r, job, p) PROVE \E g : Good(g) /\ Begin(r, g)
    BY <2>2, JobIsGood DEF Change
  <2>3. CASE List(r)
    <3>1. Good(Job("list", "fetch", Every))
      BY JobIsGood DEF Single
    <3>2. QED
      BY <2>3, <3>1 DEF List
  <2>4. CASE CloseAccount(r)
    <3> DEFINE h == Job("close", "customer", Every)
               S == {i \in DOMAIN rows : rows[i].account = account}
               g == [h EXCEPT !.copies = [i \in S |-> rows[i]]]
    <3>1. Formed(h)
      BY JobIsGood DEF Good, Single
    <3>2. /\ DOMAIN g = Fields /\ g.pc = "customer" /\ g.account = h.account
          /\ g.plate = h.plate /\ g.todo = {} /\ g.job = h.job /\ g.listing = h.listing
          /\ g.copies = [i \in S |-> rows[i]] /\ h.todo = {} /\ h.job = "close"
      BY DEF Job, Fields
    <3>3. Begin(r, g)
      BY <2>4 DEF CloseAccount
    <3> HIDE DEF h, g
    <3>4. Good(g)
      BY <3>1, <3>2, CopiesAreGood
    <3>5. QED
      BY <3>3, <3>4
  <2>5. ASSUME NEW n, Webhook(r, n) PROVE \E g : Good(g) /\ Begin(r, g)
    <3>1. PICK i \in DOMAIN rows :
            Begin(r, [Job("webhook", "save", rows[i].plate) EXCEPT
                        !.copies = [j \in {i} |-> rows[i]]])
      BY <2>5 DEF Webhook
    <3> DEFINE h == Job("webhook", "save", rows[i].plate)
               g == [h EXCEPT !.copies = [j \in {i} |-> rows[i]]]
    <3>2. Formed(h)
      BY JobIsGood DEF Good, Single
    <3>3. /\ DOMAIN g = Fields /\ g.pc = "save" /\ g.account = h.account
          /\ g.plate = h.plate /\ g.todo = {} /\ g.job = h.job /\ g.listing = h.listing
          /\ g.copies = [j \in {i} |-> rows[i]] /\ h.todo = {} /\ h.job = "webhook"
      BY DEF Job, Fields
    <3>4. [j \in {i} |-> rows[i]] = [j \in {i} |-> rows[j]]
      OBVIOUS
    <3>5. Begin(r, g)
      BY <3>1
    <3> HIDE DEF h, g
    <3>6. Good(g)
      BY <3>2, <3>3, <3>4, CopiesAreGood
    <3>7. QED
      BY <3>5, <3>6
  <2>6. QED
    BY <2>1, <2>2, <2>3, <2>4, <2>5
<1>2. QED
  BY <1>1, StepStays

(* A request for the list: the workshops' plates, those known of them.     *)
LEMMA FetchStays ==
    ASSUME VInv, NEW r \in Requests, Fetch(r)
    PROVE  VInv'
<1>1. PICK q : q = req[r]
  OBVIOUS
<1>2. q.job = "list" /\ q.pc = "fetch"
  BY <1>1 DEF Fetch, Doing
<1>3. Good(q) /\ DOMAIN q = Fields
  BY <1>1, <1>2 DEF VInv, Good, Formed, Idle
<1>4. PICK list \in RestyVehicles :
        Step(r, [q EXCEPT !.pc = IF list = {} THEN "show" ELSE "compare",
                          !.todo = list, !.known = list])
  BY <1>1 DEF Fetch
<1>5. list \subseteq Plates
  BY DEF RestyVehicles, VInv
<1>6. PICK g : g = [q EXCEPT !.pc = IF list = {} THEN "show" ELSE "compare",
                             !.todo = list, !.known = list]
  OBVIOUS
<1>7. /\ DOMAIN g = Fields /\ g.pc \in {"show", "compare"} /\ g.account = q.account
      /\ g.plate = q.plate /\ g.job = q.job /\ g.listing = q.listing
      /\ g.copies = q.copies /\ g.todo = list /\ g.known = list
  BY <1>3, <1>6 DEF Fields
<1>8. Missing(g)
  BY <1>7 DEF Missing
<1>9. Good(g)
  BY <1>2, <1>3, <1>5, <1>7, <1>8, MovesOn
<1>10. QED
  BY <1>4, <1>6, <1>9, StepStays

LEMMA ReadLocalStays ==
    ASSUME VInv, NEW r \in Requests, ReadLocal(r)
    PROVE  VInv'
<1>1. PICK q : q = req[r]
  OBVIOUS
<1>2. q.job = "list" /\ q.pc = "compare"
  BY <1>1 DEF ReadLocal, Doing
<1>3. Good(q) /\ DOMAIN q = Fields /\ q.todo \subseteq Plates
  BY <1>1, <1>2 DEF VInv, Good, Formed, Idle
<1>4. PICK g : g = [q EXCEPT !.pc = "each", !.known = LocalPlates(q.account)]
  OBVIOUS
<1>5. /\ DOMAIN g = Fields /\ g.pc = "each" /\ g.account = q.account
      /\ g.plate = q.plate /\ g.job = q.job /\ g.listing = q.listing
      /\ g.copies = q.copies /\ g.todo = q.todo /\ g.known = LocalPlates(q.account)
  BY <1>3, <1>4 DEF Fields
<1>6. Missing(g)
  BY <1>3, <1>5 DEF Missing, LocalPlates
<1>7. Good(g)
  BY <1>2, <1>3, <1>5, <1>6, MovesOn
<1>8. Step(r, g)
  BY <1>1, <1>4 DEF ReadLocal
<1>9. QED
  BY <1>7, <1>8, StepStays

LEMMA CompareStays ==
    ASSUME VInv, NEW r \in Requests, Compare(r)
    PROVE  VInv'
<1>1. PICK q : q = req[r]
  OBVIOUS
<1>2. q.job = "list" /\ q.pc = "each"
  BY <1>1 DEF Compare, Doing
<1>3. Good(q) /\ DOMAIN q = Fields /\ q.todo \subseteq Plates /\ q.account \in Nat
  BY <1>1, <1>2 DEF VInv, Good, Formed, Idle
<1>4. PICK p \in q.todo :
        LET found == Active(q.account, p)
            done  == [q EXCEPT !.todo = @ \ {p}] IN
        \/ /\ p \in q.known /\ found = {}
           /\ Step(r, done)
        \/ \E i \in found :
             /\ p \in q.known
             /\ Step(r, [done EXCEPT !.pc = "sync", !.copies = [j \in {i} |-> rows[i]]])
        \/ /\ p \notin q.known /\ DeletedBefore(q.account, p)
           /\ Step(r, done)
        \/ /\ p \notin q.known /\ ~DeletedBefore(q.account, p)
           /\ Step(r, [done EXCEPT !.pc = "sync",
                 !.copies = [j \in {NoRow} |-> NewRow(q.account, p, FALSE)]])
  BY <1>1 DEF Compare
<1>5. PICK done : done = [q EXCEPT !.todo = q.todo \ {p}]
  OBVIOUS
<1>6. /\ DOMAIN done = Fields /\ done.pc = "each" /\ done.account = q.account
      /\ done.plate = q.plate /\ done.job = "list" /\ done.listing = q.listing
      /\ done.copies = q.copies /\ done.todo = q.todo \ {p} /\ done.known = q.known
  BY <1>2, <1>3, <1>5 DEF Fields
<1>7. Missing(done)
  BY <1>3, <1>6 DEF Missing, Good
<1>8. Good(done) /\ Formed(done)
  <2>1. Good(done)
    BY <1>2, <1>3, <1>6, <1>7, MovesOn
  <2>2. QED
    BY <2>1 DEF Good
<1>9. CASE Step(r, done)
  BY <1>8, <1>9, StepStays
<1>10. ASSUME NEW i \in Active(q.account, p),
             Step(r, [done EXCEPT !.pc = "sync", !.copies = [j \in {i} |-> rows[i]]])
      PROVE  VInv'
  <2>1. PICK c : c = rows[i]
    OBVIOUS
  <2>2. PICK g : g = [done EXCEPT !.pc = "sync", !.copies = [j \in {i} |-> c]]
    OBVIOUS
  <2>3. /\ i \in DOMAIN rows /\ c \in VehicleRows /\ i \in Nat /\ i # NoRow /\ c.plate = p
    BY <1>10, <2>1, ActiveRows
  <2>4. g.job = "list" /\ g.todo = q.todo \ {p}
    BY <1>6, <2>2 DEF Fields
  <2>5. NamedOK(g, i, c) /\ FreshOK(g, i, c)
    BY <2>1, <2>3, <2>4 DEF NamedOK, FreshOK, Single
  <2>6. Good(g)
    BY <1>7, <1>8, <2>2, <2>3, <2>5, TakesCopy
  <2>7. QED
    BY <1>10, <2>1, <2>2, <2>6, StepStays
<1>11. ASSUME p \notin q.known, ~DeletedBefore(q.account, p),
              Step(r, [done EXCEPT !.pc = "sync",
                 !.copies = [j \in {NoRow} |-> NewRow(q.account, p, FALSE)]])
       PROVE  VInv'
  <2>1. PICK c : c = NewRow(q.account, p, FALSE)
    OBVIOUS
  <2>2. PICK g : g = [done EXCEPT !.pc = "sync", !.copies = [j \in {NoRow} |-> c]]
    OBVIOUS
  <2>3. c \in VehicleRows /\ c.plate = p /\ c.account = q.account
    BY <1>3, <2>1, NewRowIsARow
  <2>4. /\ g.job = "list" /\ g.pc = "sync" /\ g.todo = q.todo \ {p}
        /\ g.account = q.account
    BY <1>6, <2>2 DEF Fields
  <2>5. p \notin raced => Active(q.account, p) = {}
    BY <1>3, <1>11 DEF Good, Missing
  <2>6. Kept(p)
    <3>1. \A i \in DOMAIN rows : rows[i] \in VehicleRows
      BY DEF VInv
    <3>2. \A i \in DOMAIN rows : rows[i].status \in {"active", "deleted"}
      BY <3>1 DEF VehicleRows
    <3>3. QED
      BY <3>2, <1>11 DEF Kept, DeletedBefore
  <2>7. NamedOK(g, NoRow, c) /\ FreshOK(g, NoRow, c)
    BY <2>3, <2>4, <2>5, <2>6 DEF NamedOK, FreshOK, Single
  <2>8. NoRow \in Nat
    BY DEF NoRow
  <2>9. Good(g)
    BY <1>7, <1>8, <2>2, <2>3, <2>7, <2>8, TakesCopy
  <2>10. QED
    BY <1>11, <2>1, <2>2, <2>9, StepStays
<1>12. QED
  BY <1>4, <1>5, <1>9, <1>10, <1>11

LEMMA ShowStays ==
    ASSUME VInv, NEW r \in Requests, Show(r)
    PROVE  VInv'
<1>1. PICK q : q = req[r]
  OBVIOUS
<1>2. q.job = "list" /\ q.pc \in {"show", "each"} /\ q.todo = {}
  BY <1>1 DEF Show
<1>3. Good(q) /\ Formed(q)
  BY <1>1, <1>2 DEF VInv, Good, Idle
<1>4. PICK S : S = {i \in DOMAIN rows : /\ rows[i].account = q.account /\ ~rows[i].valued
                                        /\ rows[i].status = "active"}
  OBVIOUS
<1>5. PICK g : g = [q EXCEPT !.pc = "value", !.known = {}, !.copies = [i \in S |-> rows[i]]]
  OBVIOUS
<1>6. /\ DOMAIN g = Fields /\ g.pc = "value" /\ g.account = q.account
      /\ g.plate = q.plate /\ g.todo = {} /\ g.job = q.job /\ g.listing = q.listing
      /\ g.copies = [i \in S |-> rows[i]]
  BY <1>2, <1>3, <1>5 DEF Formed, Fields
<1>7. S \subseteq DOMAIN rows
  BY <1>4
<1>8. Good(g)
  BY <1>2, <1>3, <1>6, <1>7, CopiesAreGood
<1>9. Step(r, Idle) \/ Step(r, g)
  BY <1>1, <1>4, <1>5 DEF Show
<1>10. QED
  BY <1>8, <1>9, StepStays

-----------------------------------------------------------------------------
(* Valuations and closed accounts.                                         *)

LEMMA ValueStays ==
    ASSUME VInv, NEW r \in Requests, Value(r)
    PROVE  \/ rows' = rows /\ VInv'
           \/ \E i, row, q : Stored(r, i, row, q)
<1>1. PICK q : q = req[r]
  OBVIOUS
<1>2. /\ q.job = "list" /\ q.pc = "value" /\ UNCHANGED outside /\ hidden' = hidden
  BY <1>1 DEF Value, Doing
<1>3. Good(q) /\ Formed(q) /\ q.todo = {}
  BY <1>1, <1>2 DEF VInv, Good, Formed, Idle
<1>4. PICK i \in DOMAIN q.copies :
        /\ \/ /\ Save(i, [q.copies[i] EXCEPT !.valued = TRUE])
              /\ Write(r, q.copies[i].plate)
           \/ UNCHANGED <<rows, raced>>
        /\ req' = [req EXCEPT ![r] = IF DOMAIN q.copies = {i} THEN Idle
                                     ELSE [q EXCEPT !.copies = Without(@, i)]]
  BY <1>1 DEF Value, Go
<1>5. CASE Save(i, [q.copies[i] EXCEPT !.valued = TRUE]) /\ Write(r, q.copies[i].plate)
  <2>1. PICK row : row = [q.copies[i] EXCEPT !.valued = TRUE]
    OBVIOUS
  <2>2. \E h : Stored(r, i, row, h)
    BY <1>1, <1>2, <1>3, <1>4, <1>5, <2>1, OneOfSeveralStores
  <2>3. QED
    BY <2>2
<1>6. CASE UNCHANGED <<rows, raced>>
  <2>1. NoRow \notin DOMAIN rows
    BY DEF VInv, NoRow
  <2>2. PICK g : g = [q EXCEPT !.copies = Without(q.copies, i)]
    OBVIOUS
  <2>3. account' = account /\ raced \subseteq raced' /\ rows' = rows
    BY <1>2, <1>6 DEF outside
  <2>4. Good(g)'
    BY <1>2, <1>3, <2>1, <2>2, <2>3, OthersLeft
  <2>5. PICK h : h = (IF DOMAIN q.copies = {i} THEN Idle ELSE g)
    OBVIOUS
  <2>6. h = Idle \/ Good(h)'
    BY <2>4, <2>5
  <2>7. req' = [req EXCEPT ![r] = h]
    BY <1>4, <2>2, <2>5
  <2>8. listings' \in Nat /\ resty' \subseteq Plates
    BY <1>2 DEF outside, VInv
  <2>9. VInv'
    BY <1>2, <1>6, <2>3, <2>6, <2>7, <2>8, MoveStays
  <2>10. QED
    BY <2>3, <2>9
<1>7. QED
  BY <1>4, <1>5, <1>6

LEMMA CloseVehicleStores ==
    ASSUME VInv, NEW r \in Requests, CloseVehicle(r)
    PROVE  \E i, row, q : Stored(r, i, row, q)
<1>1. PICK q : q = req[r]
  OBVIOUS
<1>2. q.job = "close" /\ q.pc = "vehicles" /\ UNCHANGED outside /\ hidden' = hidden
  BY <1>1 DEF CloseVehicle, Doing
<1>3. q.todo = {}
  BY <1>1, <1>2 DEF VInv, Good, Formed, Idle
<1>4. PICK i \in DOMAIN q.copies :
        /\ Save(i, [q.copies[i] EXCEPT !.status = "deleted"])
        /\ Write(r, q.copies[i].plate)
        /\ req' = [req EXCEPT ![r] = IF DOMAIN q.copies = {i} THEN Idle
                                     ELSE [q EXCEPT !.copies = Without(@, i)]]
  BY <1>1 DEF CloseVehicle, Go
<1>5. PICK row : row = [q.copies[i] EXCEPT !.status = "deleted"]
  OBVIOUS
<1>6. \E h : Stored(r, i, row, h)
  BY <1>1, <1>2, <1>3, <1>4, <1>5, OneOfSeveralStores
<1>7. QED
  BY <1>6

LEMMA CloseCustomerStays ==
    ASSUME VInv, NEW r \in Requests, CloseCustomer(r)
    PROVE  VInv'
<1>1. PICK q : q = req[r]
  OBVIOUS
<1>2. /\ q.job = "close" /\ q.pc = "customer"
      /\ rows' = rows /\ raced' = raced /\ hidden' = hidden /\ account' = account
      /\ listings' = listings /\ resty' = resty
      /\ req' = [req EXCEPT ![r] = IF DOMAIN q.copies = {} THEN Idle
                                   ELSE [q EXCEPT !.pc = "vehicles"]]
  BY <1>1 DEF CloseCustomer, Doing, Go
<1>3. Good(q) /\ DOMAIN q = Fields /\ q.todo = {}
  BY <1>1, <1>2 DEF VInv, Good, Formed, Idle
<1>4. PICK g : g = [q EXCEPT !.pc = "vehicles"]
  OBVIOUS
<1>5. /\ DOMAIN g = Fields /\ g.pc = "vehicles" /\ g.account = q.account
      /\ g.plate = q.plate /\ g.job = q.job /\ g.listing = q.listing
      /\ g.copies = q.copies /\ g.todo = {}
  BY <1>3, <1>4 DEF Fields
<1>6. Missing(g)
  BY <1>5 DEF Missing
<1>7. Good(g)
  BY <1>2, <1>3, <1>5, <1>6, MovesOn
<1>8. PICK h : h = (IF DOMAIN q.copies = {} THEN Idle ELSE g)
  OBVIOUS
<1>9. (h = Idle \/ Good(h)) /\ req' = [req EXCEPT ![r] = h]
  BY <1>2, <1>4, <1>7, <1>8
<1>10. listings' \in Nat /\ resty' \subseteq Plates
  BY <1>2 DEF VInv
<1>11. QED
  BY <1>2, <1>9, <1>10, MoveStays

LEMMA TellRestyStays ==
    ASSUME VInv, NEW r \in Requests, TellResty(r)
    PROVE  VInv'
<1>1. PICK q : q = req[r]
  OBVIOUS
<1>2. /\ q.job = "manage" /\ q.pc = "tell" /\ resty' \in {resty, resty \cup {q.plate}}
      /\ rows' = rows /\ raced' = raced /\ hidden' = hidden /\ account' = account
      /\ listings' = listings /\ req' = [req EXCEPT ![r] = Idle]
  BY <1>1 DEF TellResty, Doing, Go, RestyWith
<1>3. q.plate \in Plates
  BY <1>1, <1>2 DEF VInv, Good, Formed, Idle, Single
<1>4. listings' \in Nat /\ resty' \subseteq Plates
  BY <1>2, <1>3 DEF VInv
<1>5. QED
  BY <1>2, <1>4, MoveStays

(* Steps of which nobody's request takes part.                             *)
LEMMA NobodyStays ==
    ASSUME VInv, SignUp \/ (\E p \in Plates : Visit(p)) \/ UNCHANGED vars
    PROVE  VInv'
<1>1. account \in Nat /\ listings \in Nat /\ resty \subseteq Plates /\ DOMAIN req = Requests
  BY DEF VInv
<1>2. /\ rows' = rows /\ raced' = raced /\ hidden' = hidden /\ req' = req
      /\ account' \in Nat /\ account <= account'
      /\ listings' \in Nat /\ resty' \subseteq Plates
  BY <1>1 DEF SignUp, Visit, vars, outside
<1>3. DOMAIN req' = Requests /\ \A s \in Requests : req'[s] \in {req[s], Idle}
  BY <1>1, <1>2
<1>4. QED
  BY <1>2, <1>3, QuietStays

LEMMA FailStays ==
    ASSUME VInv, NEW r \in Requests, Fail(r)
    PROVE  VInv'
<1>1. /\ rows' = rows /\ raced' = raced /\ hidden' = hidden /\ account' = account
      /\ listings' = listings /\ resty' = resty /\ req' = [req EXCEPT ![r] = Idle]
      /\ listings \in Nat /\ resty \subseteq Plates
  BY DEF Fail, Go, outside, VInv
<1>2. QED
  BY <1>1, MoveStays

-----------------------------------------------------------------------------
(* Every step.                                                             *)

LEMMA EveryStep ==
    ASSUME VInv, [Next]_vars
    PROVE  /\ VInv'
           /\ \/ rows' = rows
              \/ \E r \in Requests : \E i, row, q : Stored(r, i, row, q)
<1>1. ASSUME NEW r \in Requests, FindOrPrepare(r)
      PROVE  VInv' /\ rows' = rows
  BY <1>1, FindOrPrepareStays DEF FindOrPrepare, Step
<1>2. ASSUME NEW r \in Requests, Find(r) PROVE VInv' /\ rows' = rows
  BY <1>2, FindStays DEF Find, Step
<1>3. ASSUME NEW r \in Requests, PostListing(r) PROVE VInv' /\ rows' = rows
  BY <1>3, PostListingStays DEF PostListing
<1>4. ASSUME NEW r \in Requests, TellResty(r) PROVE VInv' /\ rows' = rows
  BY <1>4, TellRestyStays DEF TellResty
<1>5. ASSUME NEW r \in Requests, Fetch(r) PROVE VInv' /\ rows' = rows
  BY <1>5, FetchStays DEF Fetch, Step
<1>6. ASSUME NEW r \in Requests, ReadLocal(r) PROVE VInv' /\ rows' = rows
  BY <1>6, ReadLocalStays DEF ReadLocal, Step
<1>7. ASSUME NEW r \in Requests, Compare(r) PROVE VInv' /\ rows' = rows
  BY <1>7, CompareStays DEF Compare, Step
<1>8. ASSUME NEW r \in Requests, Show(r) PROVE VInv' /\ rows' = rows
  BY <1>8, ShowStays DEF Show, Step
<1>9. ASSUME NEW r \in Requests, CloseCustomer(r) PROVE VInv' /\ rows' = rows
  BY <1>9, CloseCustomerStays DEF CloseCustomer
<1>10. ASSUME NEW r \in Requests, Fail(r) PROVE VInv' /\ rows' = rows
  BY <1>10, FailStays DEF Fail
<1>11. ASSUME NEW r \in Requests,
              \/ \E p \in Plates : Manage(r, p)
              \/ \E p \in Plates : \E job \in {"images", "delete", "sell"} : Change(r, job, p)
              \/ List(r) \/ CloseAccount(r)
              \/ \E n \in 1 .. MaxListings : Webhook(r, n)
       PROVE  VInv' /\ rows' = rows
  <2>1. rows' = rows
    BY <1>11 DEF Manage, Change, List, CloseAccount, Webhook, Begin
  <2>2. QED
    BY <1>11, <2>1, BeginsStay
<1>12. ASSUME NEW r \in Requests,
              \/ SaveManaged(r) \/ SaveSynced(r) \/ SaveCopy(r) \/ SaveDeleted(r)
              \/ StoreListing(r) \/ CloseVehicle(r)
       PROVE  \E i, row, q : Stored(r, i, row, q)
  BY <1>12, SaveManagedStores, SaveSyncedStores, SaveCopyStores, SaveDeletedStores,
     StoreListingStores, CloseVehicleStores
<1>13. ASSUME NEW r \in Requests, Value(r)
       PROVE  (rows' = rows /\ VInv') \/ \E i, row, q : Stored(r, i, row, q)
  BY <1>13, ValueStays
<1>14. CASE SignUp \/ (\E p \in Plates : Visit(p)) \/ UNCHANGED vars
  <2>1. rows' = rows
    BY <1>14 DEF SignUp, Visit, vars
  <2>2. QED
    BY <1>14, <2>1, NobodyStays
<1>15. ASSUME NEW r \in Requests, NEW i, NEW row, NEW q, Stored(r, i, row, q) PROVE VInv'
  BY <1>15, StoredStays
<1>16. QED
  BY <1>1, <1>2, <1>3, <1>4, <1>5, <1>6, <1>7, <1>8, <1>9, <1>10, <1>11, <1>12, <1>13,
     <1>14, <1>15 DEF Next

LEMMA InitIsGood == Init => VInv
<1>1. SUFFICES ASSUME Init PROVE VInv
  OBVIOUS
<1>2. rows = <<>> /\ rows \in Seq(VehicleRows) /\ DOMAIN rows = {}
  BY <1>1 DEF Init
<1>3. \A a, p : Active(a, p) = {}
  BY <1>2 DEF Active
<1>4. QED
  BY <1>1, <1>2, <1>3 DEF Init, VInv, HiddenOK, OneRow

(* In every state of every behaviour a request's copies of the rows of a   *)
(* plate that is not raced are what the rows say, and the rows a request   *)
(* is about to insert are missing (the reads of VehiclesService before its *)
(* saves).                                                                 *)
THEOREM CopiesStayTrue == Spec => []VInv
<1>1. VInv /\ [Next]_vars => VInv'
  BY EveryStep
<1>2. QED
  BY <1>1, InitIsGood, PTL DEF Spec

(* A customer has a plate once: manageCustomerVehicle and the sync of      *)
(* getCustomerVehicleV1 insert a row only of a plate that is missing.      *)
THEOREM PlateOnce == Spec => []OneActivePerPlate
<1>1. ASSUME VInv PROVE OneActivePerPlate
  <2>1. SUFFICES ASSUME NEW a \in 1 .. MaxAccounts, NEW p \in Plates \ raced
                 PROVE  Cardinality(Active(a, p)) <= 1
    BY DEF OneActivePerPlate
  <2>2. \A i, j \in Active(a, p) : i = j
    BY <1>1 DEF VInv, OneRow
  <2>3. CASE Active(a, p) = {}
    BY <2>3, FS_EmptySet
  <2>4. ASSUME NEW i \in Active(a, p) PROVE Cardinality(Active(a, p)) <= 1
    <3>1. Active(a, p) = {i}
      BY <2>2, <2>4
    <3>2. Cardinality({i}) = 1
      BY FS_Singleton
    <3>3. QED
      BY <3>1, <3>2
  <2>5. QED
    BY <2>3, <2>4
<1>2. QED
  BY <1>1, CopiesStayTrue, PTL

(* A vehicle that softDeleteVehicle hid stays away until the customer adds *)
(* it again: getCustomerVehicleV1 passes a deleted plate of the number by. *)
THEOREM DeletedStaysHidden == Spec => []HiddenOnceDeleted
<1>1. ASSUME VInv PROVE HiddenOnceDeleted
  <2>1. SUFFICES ASSUME NEW h \in hidden, h[2] \notin raced, NEW a \in h[1] .. MaxAccounts
                 PROVE  Active(a, h[2]) = {}
    BY DEF HiddenOnceDeleted
  <2>2. h[1] \in Nat /\ a \in Nat /\ h[1] <= a
    BY <1>1, <2>1, VehiclesAssumption DEF VInv
  <2>3. QED
    BY <1>1, <2>1, <2>2 DEF VInv, HiddenOK
<1>2. QED
  BY <1>1, CopiesStayTrue, PTL

(* No save of an older copy takes away a valuation, a listing, or a        *)
(* deletion (save of a whole row after findOne).                           *)
THEOREM NoUpdateLost == Spec => NothingLost
<1> DEFINE Lossless ==
             \A i \in DOMAIN rows : rows[i].plate \notin raced' => Keeps(rows[i], rows'[i])
<1>1. ASSUME VInv, [Next]_vars PROVE [Lossless]_rows
  <2>1. CASE rows' = rows
    BY <2>1
  <2>2. ASSUME NEW r \in Requests, NEW i, NEW row, NEW q, Stored(r, i, row, q)
        PROVE  Lossless
    <3>1. Wrote(r, i, row) /\ (i # NoRow /\ row.plate \notin raced' => Keeps(rows[i], row))
      BY <2>2 DEF Stored
    <3>2. Written(i, row)
      BY <1>1, <3>1, WrittenRows
    <3>3. ASSUME NEW j \in DOMAIN rows, rows[j].plate \notin raced'
          PROVE  Keeps(rows[j], rows'[j])
      <4>1. CASE j # i
        <5>1. rows'[j] = rows[j]
          BY <3>2, <3>3, <4>1 DEF Written
        <5>2. QED
          BY <5>1 DEF Keeps
      <4>2. CASE j = i
        <5>1. i # NoRow /\ rows'[i] = row
          BY <3>2, <3>3, <4>2 DEF Written
        <5>2. row.plate \notin raced'
          BY <3>1, <3>3, <4>2, <5>1 DEF Wrote
        <5>3. QED
          BY <3>1, <4>2, <5>1, <5>2
      <4>3. QED
        BY <4>1, <4>2
    <3>4. QED
      BY <3>3
  <2>3. QED
    BY <1>1, <2>1, <2>2, EveryStep
<1>2. [Lossless]_rows <=> [\A i \in DOMAIN rows : rows[i].plate \notin raced' =>
         /\ rows[i].valued => rows'[i].valued
         /\ rows[i].listing # NotListed => rows'[i].listing # NotListed
         /\ rows[i].status = "deleted" => rows'[i].status = "deleted"]_rows
  BY DEF Keeps
<1>3. QED
  BY <1>1, <1>2, CopiesStayTrue, PTL DEF Spec, NothingLost

-----------------------------------------------------------------------------
(* The accounts of the number.  Handlers: where they are, and what they    *)
(* hold; E are the rows that exist.                                        *)

CustomerRows ==
    [status : -1 .. 3, login : Nat, code : Nat, referred : BOOLEAN, external : BOOLEAN]
KnownRow(row) == row \in CustomerRows /\ row.status # -1

Referring == {"reference", "referral", "refer"}
Places == {"idle", "send", "wallet", "login", "profile", "activate", "register", "add",
           "look", "grant"} \cup Referring

Follows(t, E) ==
    \/ t = Idle \/ t = [pc |-> "profile"]
    \/ /\ t.pc = "refer" /\ DOMAIN t = {"pc", "id", "by", "copy"}
       /\ t.by \in Referrers
       /\ t.id \in E /\ KnownRow(t.copy)

JobOK(q, E) ==
    /\ q.pc \in Places /\ (q.pc = "idle" => q = Idle)
    /\ q.pc \in {"wallet", "login", "register", "look", "grant"} \cup Referring => q.id \in E
    /\ q.pc \in {"send", "activate"} /\ q.id # None => q.id \in E
    /\ q.pc \in {"send", "login", "activate", "add"} \cup Referring => KnownRow(q.copy)
    /\ q.pc \in Referring => DOMAIN q = {"pc", "id", "by", "copy"} /\ q.by \in Referrers
    /\ q.pc = "wallet" => q.then = Idle
    /\ q.pc \in {"look", "grant"} => q.events \subseteq Events /\ Follows(q.then, E)
    /\ q.pc = "grant" => q.event \in Events

Existing == {c \in Ids : Exists(c)}

RewardsAreCounts == {references, referrals} \subseteq [Referrers -> Nat]

(* Without overlaps only one request is in flight.                         *)
AccountsBase ==
    /\ cust \in [Ids -> CustomerRows] /\ granted \in [Ids -> [Events -> Nat]]
    /\ RewardsAreCounts /\ {added, edits, failures} \subseteq Nat
    /\ nextCode \in Nat \ {0} /\ overlap \in BOOLEAN
    /\ wallets \cap Ids \subseteq Existing
    /\ DOMAIN req = Requests /\ \A r \in Requests : JobOK(req[r], Existing)
    /\ ~overlap => \A r, s \in Requests : req[r] # Idle /\ req[s] # Idle => r = s

(* The requests about to welcome a customer count as well.                 *)
Granting(c) ==
    {r \in Requests : req[r].pc = "grant" /\ req[r].id = c /\ req[r].event = "sign_up"}
WelcomeLimit == IF overlap THEN Cardinality(Requests) ELSE 1
AccountsWelcome == \A c \in Ids : granted[c]["sign_up"] + Cardinality(Granting(c)) <= WelcomeLimit

(* The copies of the only handler in flight are what the tables hold.      *)
CopyOK(q) ==
    /\ q.pc = "send" => IF q.id = None THEN Login = {} /\ q.copy = NewCust
                        ELSE q.id \in Login /\ q.copy = cust[q.id]
    /\ q.pc = "login" => q.id \in Login \cap wallets /\ q.copy = cust[q.id]
    /\ q.pc = "activate" =>
         IF q.id = None THEN Login = {} /\ q.copy = Partner
         ELSE cust[q.id].status = 2 /\ q.copy = [cust[q.id] EXCEPT !.status = 1]
    /\ q.pc = "add" => q.copy.login = 0
    /\ q.pc \in Referring => q.copy = cust[q.id]
    /\ q.pc \in {"look", "grant"} /\ q.then.pc = "refer" => q.then.copy = cust[q.then.id]

(* A handler that is on its way to welcome c.                              *)
Owes(q, c) ==
    /\ q.pc \in {"look", "grant", "register"} /\ q.id = c /\ cust[c].status = 1
    /\ q.pc = "register" => c \notin wallets
    /\ q.pc # "register" => "sign_up" \in q.events /\ c \in wallets

(* At most one reward without a referral, and only while one is under way. *)
Rewarded(q, p) ==
    /\ q.pc \in {"reference", "referral"} /\ q.by = p => referrals[p] = 0
    /\ referrals[p] <= 1
    /\ references[p] <= referrals[p] + failures
                         + (IF q.pc = "referral" /\ q.by = p THEN 1 ELSE 0)

Alone(q) ==
    /\ CopyOK(q)
    /\ Cardinality(Login) <= 1 + added
    /\ \A p \in Referrers : Rewarded(q, p)
    /\ failures = 0 =>
         \A c \in Ids : cust[c].login > 0 => granted[c]["sign_up"] >= 1 \/ Owes(q, c)

AccountsSerial ==
    Calm => /\ \A r \in Requests : req[r] # Idle => Alone(req[r])
            /\ ~Busy => Alone(Idle)

-----------------------------------------------------------------------------
LEMMA JobsGrow ==
    ASSUME NEW E, NEW F, E \subseteq F, NEW q, JobOK(q, E)
    PROVE  JobOK(q, F)
  BY DEF JobOK, Follows

LEMMA EarningIsAJob ==
    ASSUME NEW E, NEW c \in E, NEW events \in SUBSET Events, NEW t, Follows(t, E)
    PROVE  JobOK(Earning(c, events, t), E)
  BY DEF Earning, JobOK, Follows, Places, Referring, Idle

(* A step of one request, on or with the table of customers.               *)
LEMMA AccountsBaseStays ==
    ASSUME AccountsBase, NEW r \in Requests, NEW g, req' = [req EXCEPT ![r] = g],
           cust' \in [Ids -> CustomerRows], Existing \subseteq Existing', JobOK(g, Existing'),
           granted' \in [Ids -> [Events -> Nat]],
           RewardsAreCounts', {added', edits', failures'} \subseteq Nat,
           nextCode' \in Nat \ {0}, overlap' \in BOOLEAN, wallets' \cap Ids \subseteq Existing',
           ~overlap' => ~overlap /\ (req[r] # Idle \/ ~Busy)
    PROVE  AccountsBase'
<1>1. DOMAIN req' = Requests /\ \A s \in Requests : req'[s] = IF s = r THEN g ELSE req[s]
  BY DEF AccountsBase
<1>2. \A s \in Requests : JobOK(req'[s], Existing')
  <2>1. PICK F : F = Existing'
    OBVIOUS
  <2>2. \A s \in Requests : JobOK(req[s], F)
    BY <2>1, JobsGrow DEF AccountsBase
  <2>3. QED
    BY <1>1, <2>1, <2>2
<1>3. ~overlap' => \A s, t \in Requests : req'[s] # Idle /\ req'[t] # Idle => s = t
  BY <1>1 DEF AccountsBase, Busy
<1>4. QED
  BY <1>1, <1>2, <1>3 DEF AccountsBase

(* A step of one request, alone.                                           *)
LEMMA AccountsSerialStay ==
    ASSUME AccountsBase, AccountsSerial, NEW r \in Requests, NEW q, q = req[r], NEW g,
           req' = [req EXCEPT ![r] = g],
           Calm' => Calm /\ (q # Idle \/ ~Busy),
           Calm /\ Calm' /\ Alone(q) => Alone(g)'
    PROVE  AccountsSerial'
<1>1. SUFFICES ASSUME Calm'
               PROVE  /\ \A s \in Requests : req'[s] # Idle => Alone(req[s])'
                      /\ ~Busy' => Alone(Idle)'
  BY DEF AccountsSerial
<1>2. Calm /\ ~overlap
  BY <1>1 DEF Calm
<1>3. \A s \in Requests \ {r} : req[s] = Idle
  BY <1>1, <1>2 DEF AccountsBase, Busy
<1>4. Alone(q)
  BY <1>1, <1>2, <1>3 DEF AccountsSerial, Busy
<1>5. Alone(g)'
  BY <1>1, <1>2, <1>4
<1>6. \A s \in Requests : req'[s] = IF s = r THEN g ELSE Idle
  BY <1>3 DEF AccountsBase
<1>7. ASSUME NEW s \in Requests, req'[s] # Idle PROVE Alone(req[s])'
  <2>1. PICK h : h = req'[s]
    OBVIOUS
  <2>2. h = g
    BY <1>6, <1>7, <2>1
  <2>3. Alone(h)'
    BY <1>5, <2>2
  <2>4. QED
    BY <2>1, <2>3
<1>8. ~Busy' => Alone(Idle)'
  <2>1. ~Busy' => g = Idle
    BY <1>6 DEF Busy
  <2>2. g = Idle => Alone(Idle)'
    BY <1>5 DEF Idle
  <2>3. QED
    BY <2>1, <2>2
<1>9. QED
  BY <1>7, <1>8

(* A step that welcomes nobody and sends nobody to welcome.                *)
LEMMA WelcomeStays ==
    ASSUME AccountsBase, AccountsWelcome, NEW r \in Requests, NEW g, req' = [req EXCEPT ![r] = g],
           g.pc # "grant", overlap' \in BOOLEAN, overlap => overlap',
           \A c \in Ids : granted'[c]["sign_up"] = granted[c]["sign_up"]
    PROVE  AccountsWelcome'
<1>1. IsFiniteSet(Requests) /\ Cardinality(Requests) \in Nat /\ Cardinality(Requests) >= 1
  <2>1. IsFiniteSet(Requests) /\ Requests # {}
    BY AccountsAssumption
  <2>2. QED
    BY <2>1, FS_CardinalityType, FS_EmptySet
<1>2. WelcomeLimit \in Nat /\ WelcomeLimit' \in Nat /\ WelcomeLimit <= WelcomeLimit'
  BY <1>1 DEF WelcomeLimit, AccountsBase
<1>3. ASSUME NEW c \in Ids
      PROVE  granted'[c]["sign_up"] + Cardinality(Granting(c)') <= WelcomeLimit'
  <2>1. IsFiniteSet(Granting(c)) /\ Cardinality(Granting(c)) \in Nat
    BY <1>1, FS_Subset, FS_CardinalityType DEF Granting
  <2>2. Granting(c)' \subseteq Granting(c)
    BY DEF Granting, AccountsBase
  <2>3. Cardinality(Granting(c)') <= Cardinality(Granting(c)) /\ Cardinality(Granting(c)') \in Nat
    BY <2>1, <2>2, FS_Subset, FS_CardinalityType
  <2>4. granted[c]["sign_up"] \in Nat /\ granted[c]["sign_up"] + Cardinality(Granting(c)) <= WelcomeLimit
    BY DEF AccountsBase, AccountsWelcome, Events
  <2>5. QED
    BY <1>2, <2>1, <2>3, <2>4
<1>4. QED
  BY <1>3 DEF AccountsWelcome

-----------------------------------------------------------------------------
LEMMA LoginFinite == IsFiniteSet(Ids) /\ IsFiniteSet(Login) /\ Cardinality(Login) \in Nat
<1>1. IsFiniteSet(Ids)
  BY AccountsAssumption, FS_Interval DEF Ids
<1>2. QED
  BY <1>1, FS_Subset, FS_CardinalityType DEF Login

(* One more row that may log in.                                           *)
LEMMA LoginAdds ==
    ASSUME NEW c, Login' \subseteq Login \cup {c}
    PROVE  /\ Cardinality(Login') \in Nat /\ Cardinality(Login') <= Cardinality(Login) + 1
           /\ Login' \subseteq Login => Cardinality(Login') <= Cardinality(Login)
<1>a. IsFiniteSet(Login) /\ Cardinality(Login) \in Nat
  BY LoginFinite
<1>b. IsFiniteSet(Login \cup {c})
  BY <1>a, FS_AddElement
<1>c. Cardinality(Login \cup {c}) = IF c \in Login THEN Cardinality(Login) ELSE Cardinality(Login) + 1
  BY <1>a, FS_AddElement
<1>1. IsFiniteSet(Login \cup {c}) /\ Cardinality(Login \cup {c}) \in Nat
      /\ Cardinality(Login \cup {c}) <= Cardinality(Login) + 1
  BY <1>a, <1>b, <1>c
<1>2. QED
  BY <1>1, LoginFinite, FS_Subset, FS_CardinalityType

(* A step of the only handler in flight that changes no row.               *)
LEMMA AloneKeeps ==
    ASSUME AccountsBase, NEW q, NEW g, Alone(q), UNCHANGED <<cust, granted, references, referrals, failures, added>>,
           CopyOK(g)', q.pc # "referral", g.pc # "referral",
           g.pc = "reference" => referrals[g.by] = 0,
           failures = 0 => \A c \in Ids : Owes(q, c) => granted[c]["sign_up"] >= 1 \/ Owes(g, c)'
    PROVE  Alone(g)'
<1>1. Login' = Login
  BY DEF Login
<1>2. \A p \in Referrers : Rewarded(g, p)'
  BY DEF Alone, Rewarded
<1>3. QED
  BY <1>1, <1>2 DEF Alone

(* A step that rewards nobody and leaves the referral.                     *)
LEMMA RewardsStay ==
    ASSUME AccountsBase, NEW q, NEW g, Alone(q), UNCHANGED <<references, referrals>>,
           g.pc \notin {"reference", "referral"},
           \/ failures' = failures /\ q.pc # "referral"
           \/ failures' = failures + 1
    PROVE  \A p \in Referrers : Rewarded(g, p)'
<1>1. SUFFICES ASSUME NEW p \in Referrers PROVE Rewarded(g, p)'
  OBVIOUS
<1>2. references[p] \in Nat /\ referrals[p] \in Nat /\ failures \in Nat
  BY DEF AccountsBase, RewardsAreCounts
<1>3. Rewarded(q, p)
  BY DEF Alone
<1>4. QED
  BY <1>2, <1>3 DEF Rewarded

(* A request begins.                                                       *)
LEMMA StartStays ==
    ASSUME AccountsBase, AccountsSerial, NEW r \in Requests, NEW g, Start(r, g),
           UNCHANGED <<tables, expired, nextCode, edits, failures, added>>,
           JobOK(g, Existing), g.pc # "grant", g.pc # "referral", CopyOK(g),
           g.pc = "reference" => referrals[g.by] = 0
    PROVE  AccountsBase' /\ AccountsSerial' /\ (AccountsWelcome => AccountsWelcome')
<1>1. PICK q : q = req[r]
  OBVIOUS
<1>2. /\ req' = [req EXCEPT ![r] = g] /\ overlap' = (overlap \/ Busy) /\ overlap' \in BOOLEAN
      /\ q = Idle
      /\ UNCHANGED <<cust, wallets, granted, references, referrals, failures, added, edits, nextCode>>
  BY <1>1 DEF Start, Touch, tables, AccountsBase, JobOK, At
<1>3. Existing' = Existing
  BY <1>2 DEF Existing, Exists
<1>4. AccountsBase'
  <2>1. JobOK(g, Existing') /\ wallets' \cap Ids \subseteq Existing'
    BY <1>2, <1>3 DEF AccountsBase
  <2>2. ~overlap' => ~overlap /\ (req[r] # Idle \/ ~Busy)
    BY <1>2
  <2>3. /\ cust' \in [Ids -> CustomerRows] /\ granted' \in [Ids -> [Events -> Nat]]
        /\ RewardsAreCounts' /\ {added', edits', failures'} \subseteq Nat
        /\ nextCode' \in Nat \ {0}
    BY <1>2 DEF AccountsBase, RewardsAreCounts
  <2>4. QED
    BY <1>2, <1>3, <2>1, <2>2, <2>3, AccountsBaseStays
<1>5. AccountsSerial'
  <2>1. Calm' => Calm /\ (q # Idle \/ ~Busy)
    BY <1>2 DEF Calm
  <2>2. CopyOK(g)'
    BY <1>2 DEF CopyOK, Login
  <2>3. \A c \in Ids : ~Owes(q, c)
    BY <1>2 DEF Owes, Idle
  <2>4. Alone(q) => Alone(g)'
    BY <1>2, <2>2, <2>3, AloneKeeps DEF Idle
  <2>5. QED
    BY <1>1, <1>2, <2>1, <2>4, AccountsSerialStay
<1>6. AccountsWelcome => AccountsWelcome'
  BY <1>2, WelcomeStays
<1>7. QED
  BY <1>4, <1>5, <1>6

-----------------------------------------------------------------------------
LEMMA NewRows ==
    /\ KnownRow(NewCust) /\ NewCust.login = 0 /\ KnownRow(Partner) /\ Partner.status = 1
    /\ \A status \in {0, 1} :
          LET row == [NewCust EXCEPT !.status = status, !.external = TRUE]
          IN  KnownRow(row) /\ row.login = 0
<1>1. NoCust \in CustomerRows /\ NoCust.login = 0
  BY DEF NoCust, CustomerRows, None
<1>2. NewCust \in CustomerRows /\ NewCust.login = 0 /\ NewCust.status = 0
  BY <1>1 DEF NewCust, CustomerRows
<1>3. Partner \in CustomerRows /\ Partner.status = 1
  <2>1. PICK row : row = [NoCust EXCEPT !.status = 1]
    OBVIOUS
  <2>2. row \in CustomerRows /\ row.status = 1
    BY <1>1, <2>1 DEF CustomerRows
  <2>3. Partner = [row EXCEPT !.login = 1]
    BY <2>1 DEF Partner
  <2>4. QED
    BY <2>2, <2>3 DEF CustomerRows
<1>4. ASSUME NEW status \in {0, 1}
      PROVE  LET row == [NewCust EXCEPT !.status = status, !.external = TRUE]
             IN  row \in CustomerRows /\ row.status # -1 /\ row.login = 0
  <2>1. PICK row : row = [NewCust EXCEPT !.status = status]
    OBVIOUS
  <2>2. row \in CustomerRows /\ row.status = status /\ row.login = 0
    BY <1>2, <2>1 DEF CustomerRows
  <2>3. PICK theirs \in BOOLEAN : theirs = TRUE
    OBVIOUS
  <2>4. PICK new : new = [row EXCEPT !.external = theirs]
    OBVIOUS
  <2>5. new \in CustomerRows /\ new.status # -1 /\ new.login = 0
    BY <2>2, <2>4 DEF CustomerRows
  <2>6. QED
    BY <2>1, <2>3, <2>4, <2>5
<1>5. QED
  BY <1>2, <1>3, <1>4 DEF KnownRow

LEMMA GetOtpStays ==
    ASSUME AccountsBase, AccountsSerial, NEW r \in Requests, GetOtp(r)
    PROVE  AccountsBase' /\ AccountsSerial' /\ (AccountsWelcome => AccountsWelcome')
<1>1. UNCHANGED <<tables, expired, nextCode, edits, failures, added>>
  BY DEF GetOtp
<1>2. CASE \E c \in Login : Start(r, [pc |-> "send", id |-> c, copy |-> cust[c]])
  <2>1. PICK c \in Login : Start(r, [pc |-> "send", id |-> c, copy |-> cust[c]])
    BY <1>2
  <2>2. PICK g : g = [pc |-> "send", id |-> c, copy |-> cust[c]]
    OBVIOUS
  <2>3. JobOK(g, Existing)
    BY <2>2 DEF JobOK, Places, KnownRow, AccountsBase, Login, Existing, Exists, Referring
  <2>4. CopyOK(g) /\ g.pc = "send"
    BY <2>2 DEF CopyOK, Login, Ids, None, Referring
  <2>5. QED
    BY <1>1, <2>1, <2>2, <2>3, <2>4, StartStays
<1>3. CASE Login = {} /\ Start(r, [pc |-> "send", id |-> None, copy |-> NewCust])
  <2>2. PICK g : g = [pc |-> "send", id |-> None, copy |-> NewCust]
    OBVIOUS
  <2>3. JobOK(g, Existing)
    BY <2>2, NewRows DEF JobOK, Places, Referring
  <2>4. CopyOK(g) /\ g.pc = "send"
    BY <1>3, <2>2 DEF CopyOK, Referring
  <2>5. QED
    BY <1>1, <1>3, <2>2, <2>3, <2>4, StartStays
<1>4. QED
  BY <1>2, <1>3 DEF GetOtp

LEMMA VerifyOtpStays ==
    ASSUME AccountsBase, AccountsSerial, NEW r \in Requests, VerifyOtp(r)
    PROVE  AccountsBase' /\ AccountsSerial' /\ (AccountsWelcome => AccountsWelcome')
<1>1. PICK c \in Login \cap wallets : Start(r, [pc |-> "login", id |-> c, copy |-> cust[c]])
  BY DEF VerifyOtp
<1>2. PICK g : g = [pc |-> "login", id |-> c, copy |-> cust[c]]
  OBVIOUS
<1>3. JobOK(g, Existing)
  BY <1>2 DEF JobOK, Places, KnownRow, AccountsBase, Login, Existing, Exists, Referring
<1>4. CopyOK(g) /\ g.pc = "login"
  BY <1>2 DEF CopyOK, Referring
<1>5. QED
  BY <1>1, <1>2, <1>3, <1>4, StartStays DEF VerifyOtp

LEMMA RegisterStays ==
    ASSUME AccountsBase, AccountsSerial, NEW r \in Requests, Register(r)
    PROVE  AccountsBase' /\ AccountsSerial' /\ (AccountsWelcome => AccountsWelcome')
<1>1. UNCHANGED <<tables, expired, nextCode, edits, failures, added>>
  BY DEF Register
<1>2. ASSUME NEW c \in Ids, cust[c].status \in {0, 2, 3}, NEW g,
             g = [pc |-> IF cust[c].status = 2 THEN "activate" ELSE "register",
                  id |-> c, copy |-> [cust[c] EXCEPT !.status = 1]],
             Start(r, g)
      PROVE  AccountsBase' /\ AccountsSerial' /\ (AccountsWelcome => AccountsWelcome')
  <2>1. c \in Existing /\ c # None
    BY <1>2 DEF Existing, Exists, Ids, None
  <2>2. KnownRow(g.copy)
    BY <1>2 DEF AccountsBase, KnownRow, CustomerRows
  <2>3. JobOK(g, Existing)
    BY <1>2, <2>1, <2>2 DEF JobOK, Places, Referring
  <2>4. CopyOK(g) /\ g.pc \in {"activate", "register"}
    BY <1>2, <2>1 DEF CopyOK, Referring
  <2>5. QED
    BY <1>1, <1>2, <2>3, <2>4, StartStays
<1>3. ASSUME \A c \in Ids : ~Exists(c), NEW g,
             g = [pc |-> "activate", id |-> None, copy |-> Partner], Start(r, g)
      PROVE  AccountsBase' /\ AccountsSerial' /\ (AccountsWelcome => AccountsWelcome')
  <2>1. Login = {}
    BY <1>3 DEF Exists, Login
  <2>2. JobOK(g, Existing)
    BY <1>3, NewRows DEF JobOK, Places, Referring
  <2>3. CopyOK(g) /\ g.pc = "activate"
    BY <1>3, <2>1 DEF CopyOK, Referring
  <2>4. QED
    BY <1>1, <1>3, <2>2, <2>3, StartStays
<1>4. QED
  BY <1>2, <1>3 DEF Register

LEMMA AddingStays ==
    ASSUME AccountsBase, AccountsSerial, NEW r \in Requests, Import(r) \/ Upload(r)
    PROVE  AccountsBase' /\ AccountsSerial' /\ (AccountsWelcome => AccountsWelcome')
<1>1. PICK row : /\ KnownRow(row) /\ row.login = 0 /\ Start(r, [pc |-> "add", copy |-> row])
                 /\ UNCHANGED <<tables, expired, nextCode, edits, failures, added>>
  <2>1. CASE Import(r)
    <3>1. PICK status \in {0, 1} :
             Start(r, [pc   |-> "add",
                       copy |-> [NewCust EXCEPT !.status = status, !.external = TRUE]])
      BY <2>1 DEF Import
    <3>2. PICK row : row = [NewCust EXCEPT !.status = status, !.external = TRUE]
      OBVIOUS
    <3>3. KnownRow(row) /\ row.login = 0
      BY <3>2, NewRows
    <3>4. QED
      BY <2>1, <3>1, <3>2, <3>3 DEF Import
  <2>2. CASE Upload(r)
    <3>1. KnownRow(NewCust) /\ NewCust.login = 0
      BY NewRows
    <3>2. QED
      BY <2>2, <3>1 DEF Upload
  <2>3. QED
    BY <2>1, <2>2
<1>2. PICK g : g = [pc |-> "add", copy |-> row]
  OBVIOUS
<1>3. JobOK(g, Existing)
  BY <1>1, <1>2 DEF JobOK, Places, Referring
<1>4. CopyOK(g) /\ g.pc = "add"
  BY <1>1, <1>2 DEF CopyOK, Referring
<1>5. QED
  BY <1>1, <1>2, <1>3, <1>4, StartStays

LEMMA UpdateProfileStays ==
    ASSUME AccountsBase, AccountsSerial, NEW r \in Requests, NEW c \in Ids, UpdateProfile(r, c)
    PROVE  AccountsBase' /\ AccountsSerial' /\ (AccountsWelcome => AccountsWelcome')
<1>1. PICK g : g = Earning(c, {"email_addition"}, Idle)
  OBVIOUS
<1>2. JobOK(g, Existing)
  BY <1>1, EarningIsAJob DEF UpdateProfile, Existing, Exists, Events, Follows
<1>3. CopyOK(g) /\ g.pc = "look"
  BY <1>1 DEF CopyOK, Earning, Idle, Referring
<1>4. QED
  BY <1>1, <1>2, <1>3, StartStays DEF UpdateProfile

LEMMA ReferStays ==
    ASSUME AccountsBase, AccountsSerial, NEW r \in Requests, NEW c \in Ids, Refer(r, c)
    PROVE  AccountsBase' /\ AccountsSerial' /\ (AccountsWelcome => AccountsWelcome')
<1>1. PICK p \in Referrers :
         /\ Referable(c, p)
         /\ Start(r, [pc |-> "reference", id |-> c, by |-> p, copy |-> cust[c]])
  BY DEF Refer
<1> DEFINE g == [pc |-> "reference", id |-> c, by |-> p, copy |-> cust[c]]
<1>2. JobOK(g, Existing)
  BY <1>1 DEF JobOK, Places, Referring, Refer, Existing, Exists, KnownRow, AccountsBase
<1>3. CopyOK(g) /\ g.pc = "reference" /\ Start(r, g) /\ referrals[g.by] = 0
  BY <1>1 DEF CopyOK, Referring, Referable
<1>4. UNCHANGED <<tables, expired, nextCode, edits, failures, added>>
  BY DEF Refer
<1> HIDE DEF g
<1>5. QED
  BY <1>2, <1>3, <1>4, StartStays

-----------------------------------------------------------------------------
(* A row is written.                                                       *)
LEMMA RowWritten ==
    ASSUME AccountsBase, NEW c \in Ids, NEW row, KnownRow(row), cust' = [cust EXCEPT ![c] = row]
    PROVE  /\ cust' \in [Ids -> CustomerRows] /\ Existing \subseteq Existing' /\ c \in Existing'
           /\ cust'[c] = row /\ \A d \in Ids : d # c => cust'[d] = cust[d]
           /\ Login' \subseteq Login \cup {c}
           /\ (c \in Login \/ row.status = 3) => Login' \subseteq Login
  BY DEF AccountsBase, KnownRow, Existing, Exists, Login

(* A handler saves a row, or not, and goes on.                             *)
LEMMA SaveStays ==
    ASSUME AccountsBase, AccountsSerial, NEW r \in Requests, NEW q, q = req[r], NEW g,
           q # Idle, req' = [req EXCEPT ![r] = g], g.pc # "grant",
           cust' \in [Ids -> CustomerRows], Existing \subseteq Existing', JobOK(g, Existing'),
           wallets' \cap Ids \subseteq Existing',
           RewardsAreCounts', {added', failures'} \subseteq Nat,
           nextCode' \in Nat \ {0}, UNCHANGED <<granted, edits, overlap>>,
           Calm /\ Alone(q) => Alone(g)'
    PROVE  AccountsBase' /\ AccountsSerial' /\ (AccountsWelcome => AccountsWelcome')
<1>1. AccountsBase'
  <2>1. /\ RewardsAreCounts' /\ {added', edits', failures'} \subseteq Nat
        /\ granted' \in [Ids -> [Events -> Nat]] /\ overlap' \in BOOLEAN
        /\ (~overlap' => ~overlap /\ (req[r] # Idle \/ ~Busy))
    BY DEF AccountsBase
  <2>2. QED
    BY <2>1, AccountsBaseStays
<1>2. AccountsSerial'
  BY AccountsSerialStay DEF Calm
<1>3. AccountsWelcome => AccountsWelcome'
  BY WelcomeStays DEF AccountsBase
<1>4. QED
  BY <1>1, <1>2, <1>3

LEMMA SendOtpStays ==
    ASSUME AccountsBase, AccountsSerial, NEW r \in Requests, SendOtp(r)
    PROVE  AccountsBase' /\ AccountsSerial' /\ (AccountsWelcome => AccountsWelcome')
<1>1. PICK q : q = req[r]
  OBVIOUS
<1>2. q.pc = "send" /\ q # Idle /\ JobOK(q, Existing)
  BY <1>1 DEF SendOtp, At, AccountsBase, Idle
<1>3. PICK c \in Target(q.id) :
         /\ cust' = [cust EXCEPT ![c] = [q.copy EXCEPT !.code = nextCode]]
         /\ req' = [req EXCEPT ![r] = [pc |-> "wallet", id |-> c, then |-> Idle]]
  BY <1>1 DEF SendOtp, Go
<1>4. PICK g : g = [pc |-> "wallet", id |-> c, then |-> Idle]
  OBVIOUS
<1>5. PICK row : row = [q.copy EXCEPT !.code = nextCode]
  OBVIOUS
<1>6. KnownRow(q.copy) /\ KnownRow(row) /\ row.status = q.copy.status /\ row.login = q.copy.login
  BY <1>2, <1>5 DEF JobOK, KnownRow, CustomerRows, AccountsBase
<1>7. c \in Ids /\ (q.id # None => c = q.id)
  BY <1>2, <1>3 DEF Target, Fresh, JobOK, Existing
<1>8. /\ UNCHANGED <<wallets, granted, references, referrals, calls, edits, failures, added, overlap>>
      /\ nextCode' = nextCode + 1
  BY DEF SendOtp, history
<1>9. /\ cust' \in [Ids -> CustomerRows] /\ Existing \subseteq Existing' /\ c \in Existing'
      /\ cust'[c] = row /\ \A d \in Ids : d # c => cust'[d] = cust[d]
      /\ Login' \subseteq Login \cup {c} /\ (c \in Login => Login' \subseteq Login)
  BY <1>3, <1>5, <1>6, <1>7, RowWritten
<1>10. JobOK(g, Existing')
  BY <1>4, <1>9 DEF JobOK, Places, Referring
<1>11. ASSUME Alone(q) PROVE Alone(g)'
  <2>1. CopyOK(g)'
    BY <1>4 DEF CopyOK, Referring
  <2>2. Cardinality(Login') <= 1 + added'
    <3>1. Cardinality(Login') \in Nat /\ Cardinality(Login') <= Cardinality(Login) + 1
          /\ (Login' \subseteq Login => Cardinality(Login') <= Cardinality(Login))
      BY <1>9, LoginAdds
    <3>2. Cardinality(Login) <= 1 + added /\ Cardinality(Login) \in Nat /\ added \in Nat
      BY <1>11, LoginFinite DEF Alone, AccountsBase
    <3>3. CASE c \in Login
      BY <1>8, <1>9, <3>1, <3>2, <3>3
    <3>4. CASE q.id = None
      <4>1. Login = {}
        BY <1>2, <1>11, <3>4 DEF Alone, CopyOK
      <4>2. Cardinality(Login) = 0
        BY <4>1, FS_EmptySet
      <4>3. QED
        BY <1>8, <3>1, <3>2, <4>2
    <3>5. QED
      BY <1>2, <1>7, <1>11, <3>3, <3>4 DEF Alone, CopyOK
  <2>3. \A d \in Ids : cust'[d].login > 0 => cust[d].login > 0
    <3>1. cust'[c].login > 0 => cust[c].login > 0
      BY <1>2, <1>6, <1>7, <1>9, <1>11, NewRows DEF Alone, CopyOK
    <3>2. QED
      BY <1>9, <3>1
  <2>4. failures = 0 => \A d \in Ids : cust'[d].login > 0 => granted'[d]["sign_up"] >= 1
    BY <1>2, <1>8, <1>11, <2>3 DEF Alone, Owes
  <2>5. \A p \in Referrers : Rewarded(g, p)'
    BY <1>2, <1>4, <1>8, <1>11, RewardsStay
  <2>6. QED
    BY <1>4, <1>8, <1>11, <2>1, <2>2, <2>4, <2>5 DEF Alone
<1>12. wallets' \cap Ids \subseteq Existing' /\ nextCode' \in Nat \ {0}
       /\ RewardsAreCounts' /\ {added', failures'} \subseteq Nat /\ g.pc # "grant"
  BY <1>4, <1>8, <1>9 DEF AccountsBase, RewardsAreCounts
<1>13. QED
  BY <1>1, <1>2, <1>3, <1>4, <1>8, <1>9, <1>10, <1>11, <1>12, SaveStays

LEMMA EnsureWalletStays ==
    ASSUME AccountsBase, AccountsSerial, NEW r \in Requests, EnsureWallet(r)
    PROVE  AccountsBase' /\ AccountsSerial' /\ (AccountsWelcome => AccountsWelcome')
<1>1. PICK q : q = req[r]
  OBVIOUS
<1>2. q.pc = "wallet" /\ q # Idle /\ JobOK(q, Existing)
  BY <1>1 DEF EnsureWallet, At, AccountsBase, Idle
<1>3. /\ req' = [req EXCEPT ![r] = Idle] /\ wallets' = wallets \cup {q.id} /\ q.id \in Existing
      /\ UNCHANGED <<cust, granted, references, referrals, nextCode, calls, edits, failures, added, overlap>>
  BY <1>1, <1>2 DEF EnsureWallet, Go, history, JobOK
<1>4. Existing' = Existing
  BY <1>3 DEF Existing, Exists
<1>5. JobOK(Idle, Existing') /\ Idle.pc = "idle"
  BY DEF JobOK, Idle, Places, Referring
<1>6. ASSUME Alone(q) PROVE Alone(Idle)'
  <2>1. CopyOK(Idle)'
    BY DEF CopyOK, Idle, Referring
  <2>2. \A c \in Ids : ~Owes(q, c)
    BY <1>2 DEF Owes
  <2>3. QED
    BY <1>2, <1>3, <1>5, <1>6, <2>1, <2>2, AloneKeeps
<1>7. /\ cust' \in [Ids -> CustomerRows] /\ wallets' \cap Ids \subseteq Existing'
      /\ RewardsAreCounts' /\ {added', failures'} \subseteq Nat /\ nextCode' \in Nat \ {0}
  BY <1>3, <1>4 DEF AccountsBase, RewardsAreCounts
<1>8. QED
  BY <1>1, <1>2, <1>3, <1>4, <1>5, <1>6, <1>7, SaveStays

LEMMA SaveLoginStays ==
    ASSUME AccountsBase, AccountsSerial, NEW r \in Requests, SaveLogin(r)
    PROVE  AccountsBase' /\ AccountsSerial' /\ (AccountsWelcome => AccountsWelcome')
<1>1. PICK q : q = req[r]
  OBVIOUS
<1>2. q.pc = "login" /\ q # Idle /\ JobOK(q, Existing)
  BY <1>1 DEF SaveLogin, At, AccountsBase, Idle
<1>3. PICK row : row = LoggedIn(q.copy)
  OBVIOUS
<1>4. PICK g : g = Earning(q.id, IF FirstLogin(q.copy) THEN {"sign_up"} ELSE {}, [pc |-> "profile"])
  OBVIOUS
<1>5. /\ cust' = [cust EXCEPT ![q.id] = row] /\ req' = [req EXCEPT ![r] = g]
      /\ UNCHANGED <<wallets, granted, references, referrals, nextCode, edits, failures, added, overlap>>
  BY <1>1, <1>3, <1>4 DEF SaveLogin, Go
<1>6. KnownRow(q.copy) /\ q.id \in Ids
  BY <1>2 DEF JobOK, Existing
<1>7. KnownRow(row) /\ row.login > 0 /\ row.status = IF q.copy.login = 0 THEN 1 ELSE q.copy.status
  <2>1. PICK a : a = [q.copy EXCEPT !.login = @ + 1]
    OBVIOUS
  <2>2. a \in CustomerRows /\ a.login > 0 /\ a.status = q.copy.status /\ a.status # -1
    BY <1>6, <2>1 DEF KnownRow, CustomerRows
  <2>3. PICK b : b = [a EXCEPT !.status = IF q.copy.login = 0 THEN 1 ELSE @]
    OBVIOUS
  <2>4. /\ b \in CustomerRows /\ b.login > 0 /\ b.status # -1
        /\ b.status = IF q.copy.login = 0 THEN 1 ELSE q.copy.status
    BY <2>2, <2>3 DEF CustomerRows
  <2>5. row = [b EXCEPT !.code = None]
    BY <1>3, <2>1, <2>3 DEF LoggedIn
  <2>6. QED
    BY <2>4, <2>5 DEF KnownRow, CustomerRows, None
<1>8. /\ cust' \in [Ids -> CustomerRows] /\ Existing \subseteq Existing' /\ q.id \in Existing'
      /\ cust'[q.id] = row /\ \A d \in Ids : d # q.id => cust'[d] = cust[d]
      /\ (q.id \in Login => Login' \subseteq Login)
      /\ Login' \subseteq Login \cup {q.id}
  BY <1>5, <1>6, <1>7, RowWritten
<1>9. JobOK(g, Existing')
  BY <1>4, <1>8, EarningIsAJob DEF Events, Follows
<1>10. ASSUME Alone(q) PROVE Alone(g)'
  <2>1. q.id \in Login \cap wallets /\ q.copy = cust[q.id]
    BY <1>2, <1>10 DEF Alone, CopyOK
  <2>2. g.pc \in {"look", "profile"} /\ (g.pc = "look" => g.then.pc = "profile")
    BY <1>4 DEF Earning
  <2>3. CopyOK(g)'
    BY <2>2 DEF CopyOK, Referring
  <2>4. Cardinality(Login') <= 1 + added'
    <3>1. Cardinality(Login') \in Nat /\ Cardinality(Login') <= Cardinality(Login)
      BY <1>8, <2>1, LoginAdds
    <3>2. Cardinality(Login) <= 1 + added /\ Cardinality(Login) \in Nat /\ added \in Nat
      BY <1>10, LoginFinite DEF Alone, AccountsBase
    <3>3. QED
      BY <1>5, <3>1, <3>2
  <2>5. failures = 0 => \A d \in Ids \ {q.id} : cust'[d].login > 0 => granted'[d]["sign_up"] >= 1
    BY <1>2, <1>5, <1>8, <1>10 DEF Alone, Owes
  <2>6. failures = 0 => granted'[q.id]["sign_up"] >= 1 \/ Owes(g, q.id)'
    <3>1. CASE q.copy.login = 0
      <4>1. /\ g.pc = "look" /\ g.id = q.id /\ "sign_up" \in g.events
            /\ cust'[q.id].status = 1 /\ q.id \in wallets'
        BY <1>4, <1>5, <1>7, <1>8, <2>1, <3>1 DEF Earning, FirstLogin
      <4>2. QED
        BY <4>1 DEF Owes
    <3>2. CASE q.copy.login # 0
      <4>1. cust[q.id].login > 0
        BY <1>6, <2>1, <3>2 DEF KnownRow, CustomerRows
      <4>2. QED
        BY <1>2, <1>5, <1>6, <1>10, <4>1 DEF Alone, Owes
    <3>3. QED
      BY <3>1, <3>2
  <2>7. \A p \in Referrers : Rewarded(g, p)'
    BY <1>2, <1>5, <1>10, <2>2, RewardsStay
  <2>8. QED
    BY <1>5, <1>10, <2>2, <2>3, <2>4, <2>5, <2>6, <2>7 DEF Alone
<1>11. wallets' \cap Ids \subseteq Existing' /\ nextCode' \in Nat \ {0}
       /\ RewardsAreCounts' /\ {added', failures'} \subseteq Nat
  BY <1>5, <1>8 DEF AccountsBase, RewardsAreCounts
<1>12. g.pc # "grant"
  BY <1>4 DEF Earning
<1>13. QED
  BY <1>1, <1>2, <1>5, <1>8, <1>9, <1>10, <1>11, <1>12, SaveStays

LEMMA FetchProfilesStays ==
    ASSUME AccountsBase, AccountsSerial, NEW r \in Requests, FetchProfiles(r)
    PROVE  AccountsBase' /\ AccountsSerial' /\ (AccountsWelcome => AccountsWelcome')
<1>1. PICK q : q = req[r]
  OBVIOUS
<1>2. q.pc = "profile" /\ q # Idle
  BY <1>1 DEF FetchProfiles, At, Idle
<1>3. /\ req' = [req EXCEPT ![r] = Idle]
      /\ UNCHANGED <<cust, wallets, granted, references, referrals, nextCode, calls, edits, failures, added, overlap>>
  BY DEF FetchProfiles, Go, history
<1>4. Existing' = Existing
  BY <1>3 DEF Existing, Exists
<1>5. JobOK(Idle, Existing') /\ Idle.pc = "idle"
  BY DEF JobOK, Idle, Places, Referring
<1>6. ASSUME Alone(q) PROVE Alone(Idle)'
  <2>1. CopyOK(Idle)'
    BY DEF CopyOK, Idle, Referring
  <2>2. \A c \in Ids : ~Owes(q, c)
    BY <1>2 DEF Owes
  <2>3. QED
    BY <1>2, <1>3, <1>5, <1>6, <2>1, <2>2, AloneKeeps
<1>7. /\ cust' \in [Ids -> CustomerRows] /\ wallets' \cap Ids \subseteq Existing'
      /\ RewardsAreCounts' /\ {added', failures'} \subseteq Nat /\ nextCode' \in Nat \ {0}
  BY <1>3, <1>4 DEF AccountsBase, RewardsAreCounts
<1>8. QED
  BY <1>1, <1>2, <1>3, <1>4, <1>5, <1>6, <1>7, SaveStays

LEMMA AddCustomerStays ==
    ASSUME AccountsBase, AccountsSerial, NEW r \in Requests, AddCustomer(r)
    PROVE  AccountsBase' /\ AccountsSerial' /\ (AccountsWelcome => AccountsWelcome')
<1>1. PICK q : q = req[r]
  OBVIOUS
<1>2. q.pc = "add" /\ q # Idle /\ JobOK(q, Existing)
  BY <1>1 DEF AddCustomer, At, AccountsBase, Idle
<1>3. PICK c \in Fresh :
         /\ cust' = [cust EXCEPT ![c] = q.copy]
         /\ req' = [req EXCEPT ![r] = [pc |-> "wallet", id |-> c, then |-> Idle]]
  BY <1>1 DEF AddCustomer, Go
<1>4. PICK g : g = [pc |-> "wallet", id |-> c, then |-> Idle]
  OBVIOUS
<1>5. /\ UNCHANGED <<wallets, granted, references, referrals, nextCode, edits, failures, overlap>>
      /\ added' = added + 1
  BY DEF AddCustomer
<1>6. KnownRow(q.copy) /\ c \in Ids
  BY <1>2, <1>3 DEF JobOK, Fresh
<1>7. /\ cust' \in [Ids -> CustomerRows] /\ Existing \subseteq Existing' /\ c \in Existing'
      /\ cust'[c] = q.copy /\ \A d \in Ids : d # c => cust'[d] = cust[d]
      /\ Login' \subseteq Login \cup {c}
  BY <1>3, <1>6, RowWritten
<1>8. JobOK(g, Existing')
  BY <1>4, <1>7 DEF JobOK, Places, Referring
<1>9. ASSUME Alone(q) PROVE Alone(g)'
  <2>1. CopyOK(g)'
    BY <1>4 DEF CopyOK, Referring
  <2>2. Cardinality(Login') <= 1 + added'
    <3>1. Cardinality(Login') \in Nat /\ Cardinality(Login') <= Cardinality(Login) + 1
      BY <1>7, LoginAdds
    <3>2. Cardinality(Login) <= 1 + added /\ Cardinality(Login) \in Nat /\ added \in Nat
      BY <1>9, LoginFinite DEF Alone, AccountsBase
    <3>3. QED
      BY <1>5, <3>1, <3>2
  <2>3. \A d \in Ids : cust'[d].login > 0 => cust[d].login > 0
    BY <1>2, <1>7, <1>9 DEF Alone, CopyOK
  <2>4. failures = 0 => \A d \in Ids : cust'[d].login > 0 => granted'[d]["sign_up"] >= 1
    BY <1>2, <1>5, <1>9, <2>3 DEF Alone, Owes
  <2>5. \A p \in Referrers : Rewarded(g, p)'
    BY <1>2, <1>4, <1>5, <1>9, RewardsStay
  <2>6. QED
    BY <1>4, <1>5, <1>9, <2>1, <2>2, <2>4, <2>5 DEF Alone
<1>10. wallets' \cap Ids \subseteq Existing' /\ nextCode' \in Nat \ {0}
       /\ RewardsAreCounts' /\ {added', failures'} \subseteq Nat /\ g.pc # "grant"
  BY <1>4, <1>5, <1>7 DEF AccountsBase, RewardsAreCounts
<1>11. QED
  BY <1>1, <1>2, <1>3, <1>4, <1>5, <1>7, <1>8, <1>9, <1>10, SaveStays

LEMMA ActivateStays ==
    ASSUME AccountsBase, AccountsSerial, NEW r \in Requests, Activate(r)
    PROVE  AccountsBase' /\ AccountsSerial' /\ (AccountsWelcome => AccountsWelcome')
<1>1. PICK q : q = req[r]
  OBVIOUS
<1>2. q.pc = "activate" /\ q # Idle /\ JobOK(q, Existing)
  BY <1>1 DEF Activate, At, AccountsBase, Idle
<1>3. PICK c \in Target(q.id) :
         /\ cust' = [cust EXCEPT ![c] = q.copy]
         /\ req' = [req EXCEPT ![r] = [pc |-> "register", id |-> c]]
  BY <1>1 DEF Activate, Go
<1>4. PICK g : g = [pc |-> "register", id |-> c]
  OBVIOUS
<1>5. UNCHANGED <<wallets, granted, references, referrals, nextCode, edits, failures, added, overlap>>
  BY DEF Activate, history
<1>6. KnownRow(q.copy) /\ c \in Ids /\ (q.id # None => c = q.id)
      /\ (q.id = None => c \in Fresh)
  BY <1>2, <1>3 DEF JobOK, Target, Fresh, Existing
<1>7. /\ cust' \in [Ids -> CustomerRows] /\ Existing \subseteq Existing' /\ c \in Existing'
      /\ cust'[c] = q.copy /\ \A d \in Ids : d # c => cust'[d] = cust[d]
      /\ Login' \subseteq Login \cup {c} /\ (c \in Login => Login' \subseteq Login)
  BY <1>3, <1>6, RowWritten
<1>8. JobOK(g, Existing')
  BY <1>4, <1>7 DEF JobOK, Places, Referring
<1>9. ASSUME Alone(q) PROVE Alone(g)'
  <2>1. CopyOK(g)'
    BY <1>4 DEF CopyOK, Referring
  <2>2. Cardinality(Login') <= 1 + added'
    <3>1. Cardinality(Login') \in Nat /\ Cardinality(Login') <= Cardinality(Login) + 1
          /\ (Login' \subseteq Login => Cardinality(Login') <= Cardinality(Login))
      BY <1>7, LoginAdds
    <3>2. Cardinality(Login) <= 1 + added /\ Cardinality(Login) \in Nat /\ added \in Nat
      BY <1>9, LoginFinite DEF Alone, AccountsBase
    <3>3. CASE q.id # None
      <4>1. c \in Login
        BY <1>2, <1>6, <1>9, <3>3 DEF Alone, CopyOK, Login
      <4>2. QED
        BY <1>5, <1>7, <3>1, <3>2, <4>1
    <3>4. CASE q.id = None
      <4>1. Login = {}
        BY <1>2, <1>9, <3>4 DEF Alone, CopyOK
      <4>2. Cardinality(Login) = 0
        BY <4>1, FS_EmptySet
      <4>3. QED
        BY <1>5, <3>1, <3>2, <4>2
    <3>5. QED
      BY <3>3, <3>4
  <2>3. failures = 0 => \A d \in Ids : cust[d].login > 0 => granted'[d]["sign_up"] >= 1
    BY <1>2, <1>5, <1>9 DEF Alone, Owes
  <2>4. failures = 0 => (cust'[c].login > 0 => granted'[c]["sign_up"] >= 1 \/ Owes(g, c)')
    <3>1. CASE q.id # None
      <4>1. cust'[c].login = cust[c].login
        BY <1>2, <1>6, <1>7, <1>9, <3>1 DEF Alone, CopyOK, AccountsBase, CustomerRows
      <4>2. QED
        BY <1>6, <2>3, <4>1
    <3>2. CASE q.id = None
      <4>1. cust'[c].status = 1
        BY <1>2, <1>7, <1>9, <3>2, NewRows DEF Alone, CopyOK
      <4>2. c \notin wallets'
        BY <1>5, <1>6, <3>2 DEF AccountsBase, Fresh, Existing
      <4>3. QED
        BY <1>4, <4>1, <4>2 DEF Owes
    <3>3. QED
      BY <3>1, <3>2
  <2>5. \A p \in Referrers : Rewarded(g, p)'
    BY <1>2, <1>4, <1>5, <1>9, RewardsStay
  <2>6. failures' = 0 => \A d \in Ids : cust'[d].login > 0 => granted'[d]["sign_up"] >= 1 \/ Owes(g, d)'
    BY <1>5, <1>7, <2>3, <2>4
  <2>7. QED
    BY <1>4, <1>5, <1>9, <2>1, <2>2, <2>5, <2>6 DEF Alone
<1>10. wallets' \cap Ids \subseteq Existing' /\ nextCode' \in Nat \ {0}
       /\ RewardsAreCounts' /\ {added', failures'} \subseteq Nat /\ g.pc # "grant"
  BY <1>4, <1>5, <1>7 DEF AccountsBase, RewardsAreCounts
<1>11. QED
  BY <1>1, <1>2, <1>3, <1>4, <1>5, <1>7, <1>8, <1>9, <1>10, SaveStays

LEMMA RegisterWalletStays ==
    ASSUME AccountsBase, AccountsSerial, NEW r \in Requests, RegisterWallet(r)
    PROVE  AccountsBase' /\ AccountsSerial' /\ (AccountsWelcome => AccountsWelcome')
<1>1. PICK q : q = req[r]
  OBVIOUS
<1>2. q.pc = "register" /\ q # Idle /\ JobOK(q, Existing)
  BY <1>1 DEF RegisterWallet, At, AccountsBase, Idle
<1>3. PICK events \in {{"sign_up"}, {"sign_up", "email_addition"}} :
        req' = [req EXCEPT ![r] = IF q.id \in wallets THEN Idle ELSE Earning(q.id, events, Idle)]
  BY <1>1 DEF RegisterWallet, Go
<1>4. PICK g : g = IF q.id \in wallets THEN Idle ELSE Earning(q.id, events, Idle)
  OBVIOUS
<1>5. /\ wallets' = wallets \cup {q.id} /\ q.id \in Existing
      /\ UNCHANGED <<cust, granted, references, referrals, nextCode, edits, failures, added, overlap>>
  BY <1>1, <1>2 DEF RegisterWallet, history, JobOK
<1>6. Existing' = Existing
  BY <1>5 DEF Existing, Exists
<1>7. JobOK(g, Existing')
  <2>1. JobOK(Idle, Existing) /\ Follows(Idle, Existing)
    BY DEF JobOK, Idle, Places, Referring, Follows
  <2>2. events \subseteq Events
    BY DEF Events
  <2>3. JobOK(Earning(q.id, events, Idle), Existing)
    BY <1>5, <2>1, <2>2, EarningIsAJob
  <2>4. QED
    BY <1>4, <1>6, <2>1, <2>3
<1>8. /\ g.pc \in {"idle", "look"} /\ (g.pc = "look" => g.then = Idle)
      /\ q.id \notin wallets => g.pc = "look" /\ g.id = q.id /\ "sign_up" \in g.events
  BY <1>4 DEF Earning, Idle
<1>9. ASSUME Alone(q) PROVE Alone(g)'
  <2>1. CopyOK(g)'
    BY <1>8 DEF CopyOK, Idle, Referring
  <2>2. \A c \in Ids : Owes(q, c) => Owes(g, c)'
    BY <1>2, <1>5, <1>8 DEF Owes
  <2>3. QED
    BY <1>2, <1>5, <1>8, <1>9, <2>1, <2>2, AloneKeeps
<1>10. /\ cust' \in [Ids -> CustomerRows] /\ wallets' \cap Ids \subseteq Existing'
       /\ RewardsAreCounts' /\ {added', failures'} \subseteq Nat /\ nextCode' \in Nat \ {0}
       /\ g.pc # "grant"
  BY <1>5, <1>6, <1>8 DEF AccountsBase, RewardsAreCounts
<1>11. QED
  BY <1>1, <1>2, <1>3, <1>4, <1>5, <1>6, <1>7, <1>9, <1>10, SaveStays

LEMMA RewardReferrerStays ==
    ASSUME AccountsBase, AccountsSerial, NEW r \in Requests, RewardReferrer(r)
    PROVE  AccountsBase' /\ AccountsSerial' /\ (AccountsWelcome => AccountsWelcome')
<1>1. PICK q : q = req[r]
  OBVIOUS
<1>2. q.pc = "reference" /\ q # Idle /\ JobOK(q, Existing)
  BY <1>1 DEF RewardReferrer, At, AccountsBase, Idle
<1>3. PICK g : g = [q EXCEPT !.pc = "referral"]
  OBVIOUS
<1>4. /\ req' = [req EXCEPT ![r] = g] /\ references' = [references EXCEPT ![q.by] = @ + 1]
      /\ UNCHANGED <<cust, wallets, granted, referrals, nextCode, edits, failures, added, overlap>>
  BY <1>1, <1>3 DEF RewardReferrer, Go, history
<1>5. Existing' = Existing /\ Login' = Login
  BY <1>4 DEF Existing, Exists, Login
<1>6. g.pc = "referral" /\ g.id = q.id /\ g.copy = q.copy /\ g.by = q.by /\ q.by \in Referrers
      /\ DOMAIN g = {"pc", "id", "by", "copy"}
  BY <1>2, <1>3 DEF JobOK, Referring
<1>7. JobOK(g, Existing')
  BY <1>2, <1>5, <1>6 DEF JobOK, Places, Referring
<1>8. ASSUME Alone(q) PROVE Alone(g)'
  <2>1. CopyOK(g)'
    BY <1>2, <1>4, <1>6, <1>8 DEF CopyOK, Alone, Referring
  <2>2. ASSUME NEW p \in Referrers PROVE Rewarded(g, p)'
    <3>1. Rewarded(q, p) /\ references[p] \in Nat /\ referrals[p] \in Nat /\ failures \in Nat
      BY <1>8 DEF Alone, AccountsBase, RewardsAreCounts
    <3>2. references'[p] = IF p = q.by THEN references[p] + 1 ELSE references[p]
      BY <1>4, <1>6 DEF AccountsBase, RewardsAreCounts
    <3>3. QED
      BY <1>2, <1>4, <1>6, <3>1, <3>2 DEF Rewarded
  <2>3. failures' = 0 => \A c \in Ids : cust'[c].login > 0 => granted'[c]["sign_up"] >= 1
    BY <1>2, <1>4, <1>8 DEF Alone, Owes
  <2>4. QED
    BY <1>4, <1>5, <1>6, <1>8, <2>1, <2>2, <2>3 DEF Alone
<1>9. /\ cust' \in [Ids -> CustomerRows] /\ wallets' \cap Ids \subseteq Existing'
      /\ RewardsAreCounts' /\ {added', failures'} \subseteq Nat /\ nextCode' \in Nat \ {0}
  BY <1>4, <1>5, <1>6 DEF AccountsBase, RewardsAreCounts
<1>10. QED
  BY <1>1, <1>2, <1>4, <1>5, <1>6, <1>7, <1>8, <1>9, SaveStays

LEMMA AddReferralStays ==
    ASSUME AccountsBase, AccountsSerial, NEW r \in Requests, AddReferral(r)
    PROVE  AccountsBase' /\ AccountsSerial' /\ (AccountsWelcome => AccountsWelcome')
<1>1. PICK q : q = req[r]
  OBVIOUS
<1>2. q.pc = "referral" /\ q # Idle /\ JobOK(q, Existing)
  BY <1>1 DEF AddReferral, At, AccountsBase, Idle
<1>3. PICK t : t = [q EXCEPT !.pc = "refer"]
  OBVIOUS
<1>4. PICK g : g = Earning(q.id, {"referral"}, t)
  OBVIOUS
<1>5. /\ req' = [req EXCEPT ![r] = g] /\ referrals' = [referrals EXCEPT ![q.by] = @ + 1]
      /\ UNCHANGED <<cust, wallets, granted, references, nextCode, edits, failures, added, overlap>>
  BY <1>1, <1>3, <1>4 DEF AddReferral, Go, history
<1>6. Existing' = Existing /\ Login' = Login
  BY <1>5 DEF Existing, Exists, Login
<1>7. /\ t.pc = "refer" /\ t.id = q.id /\ t.copy = q.copy /\ DOMAIN t = {"pc", "id", "by", "copy"}
      /\ t.by = q.by /\ q.by \in Referrers
  BY <1>2, <1>3 DEF JobOK, Referring
<1>8. JobOK(g, Existing') /\ g.pc = "look" /\ g.then = t
  <2>1. q.id \in Existing' /\ KnownRow(q.copy)
    BY <1>2, <1>6 DEF JobOK, Referring
  <2>2. Follows(t, Existing') /\ {"referral"} \subseteq Events
    BY <1>7, <2>1 DEF Follows, Events
  <2>3. QED
    BY <1>4, <2>1, <2>2, EarningIsAJob DEF Earning
<1>9. ASSUME Alone(q) PROVE Alone(g)'
  <2>1. CopyOK(g)'
    BY <1>2, <1>5, <1>7, <1>8, <1>9 DEF CopyOK, Alone, Referring
  <2>2. ASSUME NEW p \in Referrers PROVE Rewarded(g, p)'
    <3>1. Rewarded(q, p) /\ references[p] \in Nat /\ referrals[p] \in Nat /\ failures \in Nat
      BY <1>9 DEF Alone, AccountsBase, RewardsAreCounts
    <3>2. referrals'[p] = IF p = q.by THEN referrals[p] + 1 ELSE referrals[p]
      BY <1>5, <1>7 DEF AccountsBase, RewardsAreCounts
    <3>3. QED
      BY <1>2, <1>5, <1>8, <3>1, <3>2 DEF Rewarded
  <2>4. failures' = 0 => \A c \in Ids : cust'[c].login > 0 => granted'[c]["sign_up"] >= 1
    BY <1>2, <1>5, <1>9 DEF Alone, Owes
  <2>5. QED
    BY <1>5, <1>6, <1>8, <1>9, <2>1, <2>2, <2>4 DEF Alone
<1>10. /\ cust' \in [Ids -> CustomerRows] /\ wallets' \cap Ids \subseteq Existing'
       /\ RewardsAreCounts' /\ {added', failures'} \subseteq Nat /\ nextCode' \in Nat \ {0}
  BY <1>5, <1>6, <1>7 DEF AccountsBase, RewardsAreCounts
<1>11. QED
  BY <1>1, <1>2, <1>5, <1>6, <1>8, <1>9, <1>10, SaveStays

LEMMA SaveReferredStays ==
    ASSUME AccountsBase, AccountsSerial, NEW r \in Requests, SaveReferred(r)
    PROVE  AccountsBase' /\ AccountsSerial' /\ (AccountsWelcome => AccountsWelcome')
<1>1. PICK q : q = req[r]
  OBVIOUS
<1>2. q.pc = "refer" /\ q # Idle /\ JobOK(q, Existing)
  BY <1>1 DEF SaveReferred, At, AccountsBase, Idle
<1>3. PICK referred \in BOOLEAN : referred = TRUE
  OBVIOUS
<1>4. PICK row : row = [q.copy EXCEPT !.referred = referred]
  OBVIOUS
<1>5. /\ cust' = [cust EXCEPT ![q.id] = row] /\ req' = [req EXCEPT ![r] = Idle]
      /\ UNCHANGED <<wallets, granted, references, referrals, nextCode, edits, failures, added, overlap>>
  BY <1>1, <1>3, <1>4 DEF SaveReferred, Go, history
<1>6. KnownRow(q.copy) /\ q.id \in Ids
  BY <1>2 DEF JobOK, Existing, Referring
<1>7. KnownRow(row) /\ row.login = q.copy.login /\ row.status = q.copy.status
  BY <1>4, <1>6 DEF KnownRow, CustomerRows
<1>8. /\ cust' \in [Ids -> CustomerRows] /\ Existing \subseteq Existing'
      /\ cust'[q.id] = row /\ \A d \in Ids : d # q.id => cust'[d] = cust[d]
  BY <1>5, <1>6, <1>7, RowWritten
<1>9. JobOK(Idle, Existing') /\ Idle.pc = "idle"
  BY DEF JobOK, Idle, Places, Referring
<1>10. ASSUME Alone(q) PROVE Alone(Idle)'
  <2>1. CopyOK(Idle)'
    BY DEF CopyOK, Idle, Referring
  <2>2. q.copy = cust[q.id]
    BY <1>2, <1>10 DEF Alone, CopyOK, Referring
  <2>3. Login' = Login /\ \A d \in Ids : cust'[d].login = cust[d].login
    BY <1>7, <1>8, <2>2 DEF Login
  <2>4. failures' = 0 => \A c \in Ids : cust'[c].login > 0 => granted'[c]["sign_up"] >= 1
    BY <1>2, <1>5, <1>10, <2>3 DEF Alone, Owes
  <2>5. \A p \in Referrers : Rewarded(Idle, p)'
    BY <1>2, <1>5, <1>9, <1>10, RewardsStay
  <2>6. QED
    BY <1>5, <1>9, <1>10, <2>1, <2>3, <2>4, <2>5 DEF Alone
<1>11. /\ wallets' \cap Ids \subseteq Existing'
       /\ RewardsAreCounts' /\ {added', failures'} \subseteq Nat /\ nextCode' \in Nat \ {0}
  BY <1>5, <1>8 DEF AccountsBase, RewardsAreCounts
<1>12. QED
  BY <1>1, <1>2, <1>5, <1>8, <1>9, <1>10, <1>11, SaveStays

-----------------------------------------------------------------------------
(* Failures.                                                               *)
LEMMA DieStays ==
    ASSUME AccountsBase, AccountsSerial, NEW r \in Requests, Die(r)
    PROVE  AccountsBase' /\ AccountsSerial' /\ (AccountsWelcome => AccountsWelcome')
<1>1. PICK q : q = req[r]
  OBVIOUS
<1>2. q # Idle
  BY <1>1 DEF Die, At, Idle
<1>3. /\ req' = [req EXCEPT ![r] = Idle] /\ failures' = failures + 1
      /\ UNCHANGED <<cust, wallets, granted, references, referrals, nextCode, edits, added, overlap>>
  BY DEF Die, Go, tables
<1>4. Existing' = Existing /\ Login' = Login
  BY <1>3 DEF Existing, Exists, Login
<1>5. JobOK(Idle, Existing') /\ Idle.pc = "idle"
  BY DEF JobOK, Idle, Places, Referring
<1>6. ASSUME Alone(q) PROVE Alone(Idle)'
  <2>1. CopyOK(Idle)'
    BY DEF CopyOK, Idle, Referring
  <2>2. (\A p \in Referrers : Rewarded(Idle, p)') /\ failures' # 0
    BY <1>3, <1>5, <1>6, RewardsStay DEF AccountsBase
  <2>3. QED
    BY <1>3, <1>4, <1>5, <1>6, <2>1, <2>2 DEF Alone
<1>7. /\ cust' \in [Ids -> CustomerRows] /\ wallets' \cap Ids \subseteq Existing'
      /\ RewardsAreCounts' /\ {added', failures'} \subseteq Nat /\ nextCode' \in Nat \ {0}
  BY <1>3, <1>4 DEF AccountsBase, RewardsAreCounts
<1>8. QED
  BY <1>1, <1>2, <1>3, <1>4, <1>5, <1>6, <1>7, SaveStays

LEMMA EarningCopies ==
    ASSUME NEW q, NEW E, q.pc \in {"look", "grant"}, JobOK(q, E), CopyOK(q), NEW events
    PROVE  CopyOK(Earning(q.id, events, q.then))
  BY DEF CopyOK, JobOK, Follows, Earning, Idle, Referring

LEMMA GrantFailsStays ==
    ASSUME AccountsBase, AccountsSerial, NEW r \in Requests, GrantFails(r)
    PROVE  AccountsBase' /\ AccountsSerial' /\ (AccountsWelcome => AccountsWelcome')
<1>1. PICK q : q = req[r]
  OBVIOUS
<1>2. q.pc \in {"grant", "reference", "referral"} /\ q # Idle /\ JobOK(q, Existing)
  BY <1>1 DEF GrantFails, At, AccountsBase, Idle
<1>3. PICK t : t = [q EXCEPT !.pc = "refer"]
  OBVIOUS
<1>4. PICK g : /\ req' = [req EXCEPT ![r] = g]
               /\ g = IF q.pc = "grant" THEN Earning(q.id, q.events \ {q.event}, q.then)
                      ELSE Earning(q.id, {"referral"}, t)
  BY <1>1, <1>2, <1>3 DEF GrantFails, Go, At
<1>5. /\ failures' = failures + 1
      /\ UNCHANGED <<cust, wallets, granted, references, referrals, nextCode, edits, added, overlap>>
  BY DEF GrantFails, tables
<1>6. Existing' = Existing /\ Login' = Login
  BY <1>5 DEF Existing, Exists, Login
<1>7. q.pc # "grant" =>
        /\ t.pc = "refer" /\ t.id = q.id /\ t.copy = q.copy /\ DOMAIN t = {"pc", "id", "by", "copy"}
        /\ t.by \in Referrers
        /\ g.pc = "look" /\ g.then = t
  BY <1>2, <1>3, <1>4 DEF JobOK, Referring, Earning
<1>8. JobOK(g, Existing')
  <2>1. CASE q.pc = "grant"
    <3>1. q.id \in Existing' /\ Follows(q.then, Existing') /\ q.events \ {q.event} \subseteq Events
      BY <1>2, <1>6, <2>1 DEF JobOK
    <3>2. QED
      BY <1>4, <2>1, <3>1, EarningIsAJob
  <2>2. CASE q.pc # "grant"
    <3>1. q.id \in Existing' /\ KnownRow(q.copy)
      BY <1>2, <1>6, <2>2 DEF JobOK, Referring
    <3>2. Follows(t, Existing') /\ {"referral"} \subseteq Events
      BY <1>7, <2>2, <3>1 DEF Follows, Events
    <3>3. QED
      BY <1>4, <2>2, <3>1, <3>2, EarningIsAJob
  <2>3. QED
    BY <2>1, <2>2
<1>9. g.pc \notin {"grant", "reference", "referral"}
  <2>1. q.pc = "grant" => Follows(q.then, Existing)
    BY <1>2 DEF JobOK
  <2>2. QED
    BY <1>4, <1>7, <2>1 DEF Follows, Earning, Idle
<1>10. ASSUME Alone(q) PROVE Alone(g)'
  <2>1. CopyOK(g)'
    <3>1. CASE q.pc = "grant"
      <4>1. CopyOK(g)
        BY <1>2, <1>4, <1>10, <3>1, EarningCopies DEF Alone
      <4>2. QED
        BY <1>5, <1>6, <4>1 DEF CopyOK
    <3>2. CASE q.pc # "grant"
      BY <1>2, <1>5, <1>7, <1>10, <3>2 DEF CopyOK, Alone, Referring
    <3>3. QED
      BY <3>1, <3>2
  <2>2. (\A p \in Referrers : Rewarded(g, p)') /\ failures' # 0
    BY <1>5, <1>9, <1>10, RewardsStay DEF AccountsBase
  <2>3. QED
    BY <1>5, <1>6, <1>9, <1>10, <2>1, <2>2 DEF Alone
<1>11. /\ cust' \in [Ids -> CustomerRows] /\ wallets' \cap Ids \subseteq Existing'
       /\ RewardsAreCounts' /\ {added', failures'} \subseteq Nat /\ nextCode' \in Nat \ {0}
  BY <1>5, <1>6 DEF AccountsBase, RewardsAreCounts
<1>12. QED
  BY <1>1, <1>2, <1>4, <1>5, <1>6, <1>8, <1>9, <1>10, <1>11, SaveStays

-----------------------------------------------------------------------------
(* Points.                                                                 *)
LEMMA GrantingFinite ==
    /\ IsFiniteSet(Requests) /\ Cardinality(Requests) \in Nat
    /\ \A c : IsFiniteSet(Granting(c)) /\ Cardinality(Granting(c)) \in Nat
<1>1. IsFiniteSet(Requests)
  BY AccountsAssumption
<1>2. QED
  BY <1>1, FS_Subset, FS_CardinalityType DEF Granting

LEMMA GrantingShrinks ==
    ASSUME NEW c, Granting(c)' \subseteq Granting(c)
    PROVE  Cardinality(Granting(c)') \in Nat /\ Cardinality(Granting(c)') <= Cardinality(Granting(c))
<1>1. IsFiniteSet(Granting(c))
  BY GrantingFinite
<1>2. QED
  BY <1>1, FS_Subset, FS_CardinalityType

LEMMA LookStays ==
    ASSUME AccountsBase, AccountsSerial, NEW r \in Requests, Look(r)
    PROVE  AccountsBase' /\ AccountsSerial' /\ ("sign_up" \in Once /\ AccountsWelcome => AccountsWelcome')
<1>1. PICK q : q = req[r]
  OBVIOUS
<1>2. q.pc = "look" /\ q # Idle /\ JobOK(q, Existing)
  BY <1>1 DEF Look, At, AccountsBase, Idle
<1>3. PICK e \in q.events :
        req' = [req EXCEPT ![r] =
                  IF Earns(q.id, e)
                    THEN [pc |-> "grant", id |-> q.id, event |-> e,
                          events |-> q.events, then |-> q.then]
                    ELSE Earning(q.id, q.events \ {e}, q.then)]
  BY <1>1 DEF Look, Go
<1>4. PICK g : g = IF Earns(q.id, e)
                    THEN [pc |-> "grant", id |-> q.id, event |-> e,
                          events |-> q.events, then |-> q.then]
                    ELSE Earning(q.id, q.events \ {e}, q.then)
  OBVIOUS
<1>5. /\ req' = [req EXCEPT ![r] = g]
      /\ UNCHANGED <<cust, wallets, granted, references, referrals, nextCode, edits, failures, added, overlap>>
  BY <1>3, <1>4 DEF Look, history, tables
<1>6. Existing' = Existing /\ Login' = Login
  BY <1>5 DEF Existing, Exists, Login
<1>7. /\ q.id \in Existing /\ Follows(q.then, Existing)
      /\ q.events \subseteq Events /\ q.events \ {e} \subseteq Events /\ e \in Events
  BY <1>2 DEF JobOK
<1>8. JobOK(g, Existing')
  <2>1. JobOK(Earning(q.id, q.events \ {e}, q.then), Existing)
    BY <1>7, EarningIsAJob
  <2>2. Earns(q.id, e) => JobOK(g, Existing)
    BY <1>4, <1>7 DEF JobOK, Places, Referring
  <2>3. QED
    BY <1>4, <1>6, <2>1, <2>2
<1>9. g.pc \notin {"reference", "referral"} /\ (g.pc = "grant" => Earns(q.id, e))
  BY <1>4, <1>7 DEF Earning, Follows, Idle
<1>10. AccountsBase'
  <2>1. /\ cust' \in [Ids -> CustomerRows] /\ wallets' \cap Ids \subseteq Existing'
        /\ granted' \in [Ids -> [Events -> Nat]] /\ overlap' \in BOOLEAN
        /\ RewardsAreCounts' /\ {added', edits', failures'} \subseteq Nat /\ nextCode' \in Nat \ {0}
        /\ (~overlap' => ~overlap /\ (req[r] # Idle \/ ~Busy))
    BY <1>1, <1>2, <1>5, <1>6 DEF AccountsBase, RewardsAreCounts
  <2>2. QED
    BY <1>5, <1>6, <1>8, <2>1, AccountsBaseStays
<1>11. AccountsSerial'
  <2>1. ASSUME Alone(q) PROVE Alone(g)'
    <3>1. CopyOK(g)
      <4>1. CASE Earns(q.id, e)
        BY <1>2, <1>4, <2>1, <4>1 DEF Alone, CopyOK, Referring
      <4>2. CASE ~Earns(q.id, e)
        BY <1>2, <1>4, <2>1, <4>2, EarningCopies DEF Alone
      <4>3. QED
        BY <4>1, <4>2
    <3>2. CopyOK(g)'
      BY <1>5, <1>6, <3>1 DEF CopyOK
    <3>3. ASSUME NEW c \in Ids, Owes(q, c) PROVE granted[c]["sign_up"] >= 1 \/ Owes(g, c)'
      <4>1. q.id = c /\ cust[c].status = 1 /\ "sign_up" \in q.events /\ c \in wallets
        BY <1>2, <3>3 DEF Owes
      <4>2. CASE Earns(c, e)
        BY <1>4, <1>5, <4>1, <4>2 DEF Owes
      <4>3. CASE ~Earns(c, e) /\ e = "sign_up"
        BY <4>1, <4>3 DEF Earns, AccountsBase, Events
      <4>4. CASE ~Earns(c, e) /\ e # "sign_up"
        <5>1. g.pc = "look" /\ g.id = c /\ "sign_up" \in g.events
          BY <1>4, <4>1, <4>4 DEF Earning
        <5>2. QED
          BY <1>5, <4>1, <5>1 DEF Owes
      <4>5. QED
        BY <4>2, <4>3, <4>4
    <3>4. QED
      BY <1>2, <1>5, <1>9, <2>1, <3>2, <3>3, AloneKeeps
  <2>2. Calm' => Calm
    BY <1>5 DEF Calm
  <2>3. QED
    BY <1>1, <1>2, <1>5, <2>1, <2>2, AccountsSerialStay
<1>12. ASSUME "sign_up" \in Once, AccountsWelcome PROVE AccountsWelcome'
  <2>1. WelcomeLimit' = WelcomeLimit /\ WelcomeLimit \in Nat
    BY <1>5, GrantingFinite DEF WelcomeLimit
  <2>2. ASSUME NEW c \in Ids
        PROVE  granted'[c]["sign_up"] + Cardinality(Granting(c)') <= WelcomeLimit'
    <3>1. granted[c]["sign_up"] \in Nat /\ granted'[c]["sign_up"] = granted[c]["sign_up"]
      BY <1>5 DEF AccountsBase, Events
    <3>2. CASE g.pc = "grant" /\ c = q.id /\ e = "sign_up"
      <4>1. granted[c]["sign_up"] = 0
        BY <1>9, <1>12, <3>2 DEF Earns
      <4>2. Cardinality(Granting(c)') \in Nat /\ Cardinality(Granting(c)') <= WelcomeLimit
        <5>1. CASE overlap
          <6>1. Granting(c)' \subseteq Requests
            BY DEF Granting
          <6>2. QED
            BY <5>1, <6>1, GrantingFinite, FS_Subset, FS_CardinalityType DEF WelcomeLimit
        <5>2. CASE ~overlap
          <6>1. \A s \in Requests \ {r} : req'[s] = Idle
            BY <1>1, <1>2, <1>5, <5>2 DEF AccountsBase
          <6>2. Granting(c)' \subseteq {r}
            BY <6>1 DEF Granting, Idle
          <6>3. IsFiniteSet({r}) /\ Cardinality({r}) = 1
            BY FS_Singleton
          <6>4. Cardinality(Granting(c)') \in Nat /\ Cardinality(Granting(c)') <= 1
            BY <6>2, <6>3, FS_Subset, FS_CardinalityType
          <6>5. QED
            BY <5>2, <6>4 DEF WelcomeLimit
        <5>3. QED
          BY <5>1, <5>2 DEF AccountsBase
      <4>3. QED
        BY <2>1, <3>1, <4>1, <4>2
    <3>3. CASE ~(g.pc = "grant" /\ c = q.id /\ e = "sign_up")
      <4>1. g.pc = "grant" => g.id = q.id /\ g.event = e
        BY <1>4, <1>9
      <4>2. \A s \in Requests : req'[s] = IF s = r THEN g ELSE req[s]
        BY <1>5 DEF AccountsBase
      <4>3. Granting(c)' \subseteq Granting(c)
        BY <3>3, <4>1, <4>2 DEF Granting
      <4>4. Cardinality(Granting(c)') \in Nat /\ Cardinality(Granting(c)') <= Cardinality(Granting(c))
        BY <4>3, GrantingShrinks
      <4>5. Cardinality(Granting(c)) \in Nat /\ granted[c]["sign_up"] + Cardinality(Granting(c)) <= WelcomeLimit
        BY <1>12, GrantingFinite DEF AccountsWelcome
      <4>6. QED
        BY <2>1, <3>1, <4>4, <4>5
    <3>4. QED
      BY <3>2, <3>3
  <2>3. QED
    BY <2>2 DEF AccountsWelcome
<1>13. QED
  BY <1>10, <1>11, <1>12

LEMMA GrantStays ==
    ASSUME AccountsBase, AccountsSerial, NEW r \in Requests, Grant(r)
    PROVE  AccountsBase' /\ AccountsSerial' /\ (AccountsWelcome => AccountsWelcome')
<1>1. PICK q : q = req[r]
  OBVIOUS
<1>2. q.pc = "grant" /\ q # Idle /\ JobOK(q, Existing)
  BY <1>1 DEF Grant, At, AccountsBase, Idle
<1>3. PICK g : g = Earning(q.id, q.events \ {q.event}, q.then)
  OBVIOUS
<1>4. /\ req' = [req EXCEPT ![r] = g]
      /\ granted' = [granted EXCEPT ![q.id][q.event] = @ + 1]
      /\ UNCHANGED <<cust, wallets, references, referrals, nextCode, edits, failures, added, overlap>>
  BY <1>1, <1>3 DEF Grant, Go, history
<1>5. Existing' = Existing /\ Login' = Login
  BY <1>4 DEF Existing, Exists, Login
<1>6. /\ q.id \in Ids /\ q.id \in Existing /\ Follows(q.then, Existing) /\ q.event \in Events
      /\ q.events \subseteq Events /\ q.events \ {q.event} \subseteq Events
  BY <1>2 DEF JobOK, Existing
<1>7. JobOK(g, Existing')
  BY <1>3, <1>5, <1>6, EarningIsAJob
<1>8. g.pc \notin {"reference", "referral", "grant"}
  BY <1>3, <1>6 DEF Earning, Follows, Idle
<1>9. /\ granted' \in [Ids -> [Events -> Nat]]
      /\ \A c \in Ids : /\ granted[c]["sign_up"] \in Nat
                        /\ granted'[c]["sign_up"] = granted[c]["sign_up"] +
                             IF c = q.id /\ q.event = "sign_up" THEN 1 ELSE 0
  BY <1>4, <1>6 DEF AccountsBase, Events
<1>10. AccountsBase'
  <2>1. /\ cust' \in [Ids -> CustomerRows] /\ wallets' \cap Ids \subseteq Existing'
        /\ overlap' \in BOOLEAN
        /\ RewardsAreCounts' /\ {added', edits', failures'} \subseteq Nat /\ nextCode' \in Nat \ {0}
        /\ (~overlap' => ~overlap /\ (req[r] # Idle \/ ~Busy))
    BY <1>1, <1>2, <1>4, <1>5 DEF AccountsBase, RewardsAreCounts
  <2>2. QED
    BY <1>4, <1>5, <1>7, <1>9, <2>1, AccountsBaseStays
<1>11. AccountsSerial'
  <2>1. ASSUME Alone(q) PROVE Alone(g)'
    <3>1. CopyOK(g)
      BY <1>2, <1>3, <2>1, EarningCopies DEF Alone
    <3>2. CopyOK(g)'
      BY <1>4, <1>5, <3>1 DEF CopyOK
    <3>3. ASSUME NEW c \in Ids, granted[c]["sign_up"] >= 1 \/ Owes(q, c)
          PROVE  granted'[c]["sign_up"] >= 1 \/ Owes(g, c)'
      <4>1. CASE granted[c]["sign_up"] >= 1
        BY <1>9, <4>1
      <4>2. CASE Owes(q, c) /\ q.event = "sign_up"
        BY <1>2, <1>9, <4>2 DEF Owes
      <4>3. CASE Owes(q, c) /\ q.event # "sign_up"
        <5>1. q.id = c /\ cust[c].status = 1 /\ "sign_up" \in q.events /\ c \in wallets
          BY <1>2, <4>3 DEF Owes
        <5>2. g.pc = "look" /\ g.id = c /\ "sign_up" \in g.events
          BY <1>3, <4>3, <5>1 DEF Earning
        <5>3. QED
          BY <1>4, <5>1, <5>2 DEF Owes
      <4>4. QED
        BY <3>3, <4>1, <4>2, <4>3
    <3>4. \A p \in Referrers : Rewarded(g, p)'
      BY <1>2, <1>4, <1>8, <2>1, RewardsStay
    <3>5. failures' = 0 => \A c \in Ids : cust'[c].login > 0 => granted'[c]["sign_up"] >= 1 \/ Owes(g, c)'
      BY <1>4, <2>1, <3>3 DEF Alone
    <3>6. QED
      BY <1>4, <1>5, <1>8, <2>1, <3>2, <3>4, <3>5 DEF Alone
  <2>2. Calm' => Calm
    BY <1>4 DEF Calm
  <2>3. QED
    BY <1>1, <1>2, <1>4, <2>1, <2>2, AccountsSerialStay
<1>12. ASSUME AccountsWelcome PROVE AccountsWelcome'
  <2>1. WelcomeLimit' = WelcomeLimit /\ WelcomeLimit \in Nat
    BY <1>4, GrantingFinite DEF WelcomeLimit
  <2>2. \A s \in Requests : req'[s] = IF s = r THEN g ELSE req[s]
    BY <1>4 DEF AccountsBase
  <2>3. ASSUME NEW c \in Ids
        PROVE  granted'[c]["sign_up"] + Cardinality(Granting(c)') <= WelcomeLimit'
    <3>1. /\ IsFiniteSet(Granting(c)) /\ Cardinality(Granting(c)) \in Nat
          /\ granted[c]["sign_up"] + Cardinality(Granting(c)) <= WelcomeLimit
      BY <1>12, GrantingFinite DEF AccountsWelcome
    <3>2. CASE c = q.id /\ q.event = "sign_up"
      <4>1. r \in Granting(c)
        BY <1>1, <1>2, <3>2 DEF Granting
      <4>2. Granting(c)' = Granting(c) \ {r}
        BY <1>8, <2>2 DEF Granting
      <4>3. IsFiniteSet(Granting(c))
        BY <3>1
      <4>4. Cardinality(Granting(c) \ {r}) = Cardinality(Granting(c)) - 1
        BY <4>1, <4>3, FS_RemoveElement
      <4>5. granted'[c]["sign_up"] = granted[c]["sign_up"] + 1 /\ granted[c]["sign_up"] \in Nat
        BY <1>9, <3>2
      <4>6. QED
        BY <2>1, <3>1, <4>2, <4>4, <4>5
    <3>3. CASE ~(c = q.id /\ q.event = "sign_up")
      <4>1. Granting(c)' \subseteq Granting(c)
        BY <1>8, <2>2 DEF Granting
      <4>2. Cardinality(Granting(c)') \in Nat /\ Cardinality(Granting(c)') <= Cardinality(Granting(c))
        BY <4>1, GrantingShrinks
      <4>3. granted'[c]["sign_up"] = granted[c]["sign_up"] /\ granted[c]["sign_up"] \in Nat
        BY <1>9, <3>3
      <4>4. QED
        BY <2>1, <3>1, <4>2, <4>3
    <3>4. QED
      BY <3>2, <3>3
  <2>4. QED
    BY <2>3 DEF AccountsWelcome
<1>13. QED
  BY <1>10, <1>11, <1>12

-----------------------------------------------------------------------------
(* Steps that touch no handler.                                            *)
LEMMA RowEdited ==
    ASSUME AccountsBase, NEW c \in Ids, NEW row, KnownRow(row), cust' = [cust EXCEPT ![c] = row], Touch,
           UNCHANGED <<wallets, granted, references, referrals, req, nextCode, failures, added>>,
           edits' \in Nat
    PROVE  AccountsBase' /\ (AccountsWelcome => AccountsWelcome')
<1>1. cust' \in [Ids -> CustomerRows] /\ Existing \subseteq Existing'
  BY RowWritten
<1>2. overlap' \in BOOLEAN /\ overlap' = (overlap \/ Busy)
  BY DEF Touch, AccountsBase
<1>3. AccountsBase'
  <2>1. PICK F : F = Existing'
    OBVIOUS
  <2>2. \A r \in Requests : JobOK(req[r], F)
    BY <1>1, <2>1, JobsGrow DEF AccountsBase
  <2>3. \A r \in Requests : JobOK(req'[r], Existing')
    BY <2>1, <2>2
  <2>4. wallets' \cap Ids \subseteq Existing'
    BY <1>1 DEF AccountsBase
  <2>5. ~overlap' => \A r, s \in Requests : req'[r] # Idle /\ req'[s] # Idle => r = s
    BY <1>2 DEF AccountsBase
  <2>6. QED
    BY <1>1, <1>2, <2>3, <2>4, <2>5 DEF AccountsBase, RewardsAreCounts
<1>4. ASSUME AccountsWelcome PROVE AccountsWelcome'
  <2>1. CASE Busy
    <3>1. PICK r \in Requests : req[r] # Idle
      BY <2>1 DEF Busy
    <3>2. IsFiniteSet(Requests) /\ Cardinality(Requests) >= 1
      BY <3>1, GrantingFinite, FS_EmptySet
    <3>3. WelcomeLimit <= WelcomeLimit' /\ WelcomeLimit \in Nat /\ WelcomeLimit' \in Nat
      BY <1>2, <2>1, <3>2, GrantingFinite DEF WelcomeLimit, AccountsBase
    <3>4. ASSUME NEW c_1 \in Ids
          PROVE  granted'[c_1]["sign_up"] + Cardinality(Granting(c_1)') <= WelcomeLimit'
      <4>1. Granting(c_1)' = Granting(c_1)
        BY DEF Granting
      <4>2. granted[c_1]["sign_up"] \in Nat /\ granted'[c_1]["sign_up"] = granted[c_1]["sign_up"]
        BY DEF AccountsBase, Events
      <4>3. Cardinality(Granting(c_1)) \in Nat
            /\ granted[c_1]["sign_up"] + Cardinality(Granting(c_1)) <= WelcomeLimit
        BY <1>4, GrantingFinite DEF AccountsWelcome
      <4>4. QED
        BY <3>3, <4>1, <4>2, <4>3
    <3>5. QED
      BY <3>4 DEF AccountsWelcome
  <2>2. CASE ~Busy
    BY <1>2, <1>4, <2>2 DEF AccountsWelcome, Granting, WelcomeLimit, AccountsBase
  <2>3. QED
    BY <2>1, <2>2
<1>5. QED
  BY <1>3, <1>4

LEMMA ConfirmDeletionStays ==
    ASSUME AccountsBase, AccountsSerial, NEW c \in Ids, ConfirmDeletion(c)
    PROVE  AccountsBase' /\ AccountsSerial' /\ (AccountsWelcome => AccountsWelcome')
<1>1. PICK row : row = Deleted(cust[c])
  OBVIOUS
<1>2. cust[c] \in CustomerRows
  BY DEF AccountsBase
<1>3. KnownRow(row) /\ row.status = 3 /\ row.login = cust[c].login
  BY <1>1, <1>2 DEF Deleted, KnownRow, CustomerRows
<1>4. /\ cust' = [cust EXCEPT ![c] = row] /\ Touch /\ cust[c].status = 1
      /\ UNCHANGED <<wallets, granted, references, referrals, req, nextCode, edits, failures, added>>
  BY <1>1 DEF ConfirmDeletion, AccountsBase
<1>5. /\ cust'[c] = row /\ (\A d \in Ids : d # c => cust'[d] = cust[d]) /\ Login' \subseteq Login
  BY <1>3, <1>4, RowWritten
<1>6. AccountsBase' /\ (AccountsWelcome => AccountsWelcome')
  BY <1>3, <1>4, RowEdited DEF AccountsBase
<1>7. AccountsSerial'
  <2>1. SUFFICES ASSUME Calm' PROVE ~Busy' /\ Alone(Idle)'
    BY DEF AccountsSerial, Busy
  <2>2. Calm /\ ~Busy
    BY <1>4, <2>1 DEF Calm, Touch, AccountsBase
  <2>3. Alone(Idle)
    BY <2>2 DEF AccountsSerial
  <2>4. ~Busy'
    BY <1>4, <2>2 DEF Busy
  <2>5. CopyOK(Idle)'
    BY DEF CopyOK, Idle, Referring
  <2>6. Cardinality(Login') <= 1 + added'
    <3>1. Cardinality(Login') \in Nat /\ Cardinality(Login') <= Cardinality(Login)
      BY <1>5, LoginAdds
    <3>2. Cardinality(Login) <= 1 + added /\ Cardinality(Login) \in Nat /\ added \in Nat
      BY <2>3, LoginFinite DEF Alone, AccountsBase
    <3>3. QED
      BY <1>4, <3>1, <3>2
  <2>7. failures' = 0 => \A d \in Ids : cust'[d].login > 0 => granted'[d]["sign_up"] >= 1
    BY <1>3, <1>4, <1>5, <2>3 DEF Alone, Owes, Idle
  <2>8. \A p \in Referrers : Rewarded(Idle, p)'
    BY <1>4, <2>3, RewardsStay DEF Idle
  <2>9. QED
    BY <1>4, <2>3, <2>4, <2>5, <2>6, <2>7, <2>8 DEF Alone, Idle
<1>8. QED
  BY <1>6, <1>7

LEMMA UpdateStatusStays ==
    ASSUME AccountsBase, NEW c \in Ids, UpdateStatus(c)
    PROVE  AccountsBase' /\ AccountsSerial' /\ (AccountsWelcome => AccountsWelcome')
<1>1. PICK status \in {0, 1} : cust' = [cust EXCEPT ![c].status = status]
  BY DEF UpdateStatus
<1>2. PICK row : row = [cust[c] EXCEPT !.status = status]
  OBVIOUS
<1>3. cust[c] \in CustomerRows
  BY DEF AccountsBase
<1>4. KnownRow(row)
  BY <1>2, <1>3 DEF KnownRow, CustomerRows
<1>5. cust' = [cust EXCEPT ![c] = row] /\ Touch /\ edits' = edits + 1 /\ edits \in Nat
      /\ UNCHANGED <<wallets, granted, references, referrals, req, nextCode, failures, added>>
  BY <1>1, <1>2 DEF UpdateStatus, AccountsBase
<1>6. AccountsBase' /\ (AccountsWelcome => AccountsWelcome')
  <2>1. edits' \in Nat
    BY <1>5
  <2>2. QED
    BY <1>4, <1>5, <2>1, RowEdited
<1>7. ~Calm'
  BY <1>5 DEF Calm
<1>8. QED
  BY <1>6, <1>7 DEF AccountsSerial

LEMMA ProfileStepsStay ==
    ASSUME AccountsBase, AccountsSerial, SelectProfile \/ Expire \/ UNCHANGED accountsVars
    PROVE  AccountsBase' /\ AccountsSerial' /\ (AccountsWelcome => AccountsWelcome')
<1>1. UNCHANGED <<cust, wallets, granted, references, referrals, req, nextCode, edits, failures, added, overlap>>
  BY DEF SelectProfile, Expire, accountsVars, tables, history
<1>2. Existing' = Existing /\ Login' = Login /\ Busy' = Busy /\ Calm' = Calm /\ WelcomeLimit' = WelcomeLimit
  BY <1>1 DEF Existing, Exists, Login, Busy, Calm, WelcomeLimit
<1>3. AccountsBase'
  BY <1>1, <1>2 DEF AccountsBase, RewardsAreCounts
<1>4. \A q : Alone(q) => Alone(q)'
  BY <1>1, <1>2 DEF Alone, CopyOK, Owes, Rewarded
<1>5. AccountsSerial'
  BY <1>1, <1>2, <1>4 DEF AccountsSerial
<1>6. AccountsWelcome => AccountsWelcome'
  BY <1>1, <1>2 DEF AccountsWelcome, Granting
<1>7. QED
  BY <1>3, <1>5, <1>6

-----------------------------------------------------------------------------
LEMMA AccountsStart ==
    ASSUME AccountsInit PROVE AccountsBase /\ AccountsSerial /\ AccountsWelcome
<1>1. NoCust \in CustomerRows /\ NoCust.login = 0 /\ NoCust.status = -1
  BY DEF NoCust, CustomerRows, None
<1>2. PICK shop : shop = [NoCust EXCEPT !.status = 2]
  OBVIOUS
<1>3. shop \in CustomerRows /\ shop.login = 0 /\ shop.status = 2
  BY <1>1, <1>2 DEF CustomerRows
<1>4. /\ cust \in [Ids -> CustomerRows] /\ wallets \cap Ids \subseteq Existing
      /\ \A c \in Ids : cust[c].login = 0 /\ (cust[c].status \in 0 .. 2 => c = 1)
  <2>1. CASE cust = [c \in Ids |-> NoCust] /\ wallets = {}
    BY <1>1, <2>1
  <2>2. CASE cust = [c \in Ids |-> IF c = 1 THEN shop ELSE NoCust] /\ wallets \in {{}, {1}}
    BY <1>1, <1>3, <2>2 DEF Existing, Exists
  <2>3. QED
    BY <1>2, <2>1, <2>2 DEF AccountsInit
<1>5. AccountsBase
  <2>1. JobOK(Idle, Existing)
    BY DEF JobOK, Idle, Places, Referring
  <2>2. granted \in [Ids -> [Events -> Nat]]
    BY DEF AccountsInit
  <2>3. DOMAIN req = Requests /\ (\A r \in Requests : req[r] = Idle)
    BY DEF AccountsInit
  <2>4. /\ RewardsAreCounts /\ {added, edits, failures} \subseteq Nat
        /\ nextCode \in Nat \ {0}
    BY DEF AccountsInit, RewardsAreCounts
  <2>5. overlap \in BOOLEAN
    BY Zenon DEF AccountsInit
  <2>6. QED
    BY <1>4, <2>1, <2>2, <2>3, <2>4, <2>5 DEF AccountsBase
<1>6. AccountsSerial
  <2>1. Cardinality(Login) <= 1 + added
    <3>1. Login \subseteq {1}
      BY <1>4 DEF Login
    <3>2. IsFiniteSet({1}) /\ Cardinality({1}) = 1
      BY FS_Singleton
    <3>3. Cardinality(Login) <= 1
      BY <3>1, <3>2, FS_Subset
    <3>4. QED
      BY <3>3 DEF AccountsInit
  <2>2. \A p \in Referrers : Rewarded(Idle, p)
    BY DEF AccountsInit, Rewarded, Idle
  <2>3. Alone(Idle)
    BY <1>4, <2>1, <2>2 DEF AccountsInit, Alone, CopyOK, Idle, Referring
  <2>4. QED
    BY <2>3 DEF AccountsSerial, AccountsInit
<1>7. AccountsWelcome
  <2>1. \A c \in Ids : Granting(c) = {} /\ granted[c]["sign_up"] = 0
    BY DEF AccountsInit, Granting, Idle, Events
  <2>2. Cardinality({}) = 0
    BY FS_EmptySet
  <2>3. WelcomeLimit = 1
    BY DEF AccountsInit, WelcomeLimit
  <2>4. QED
    BY <2>1, <2>2, <2>3 DEF AccountsWelcome
<1>8. QED
  BY <1>5, <1>6, <1>7

LEMMA AccountsStep ==
    ASSUME AccountsBase, AccountsSerial, [AccountsNext]_accountsVars
    PROVE  AccountsBase' /\ AccountsSerial' /\ ("sign_up" \in Once /\ AccountsWelcome => AccountsWelcome')
<1>1. ASSUME NEW r \in Requests,
             \/ GetOtp(r) \/ SendOtp(r) \/ EnsureWallet(r)
             \/ VerifyOtp(r) \/ SaveLogin(r) \/ FetchProfiles(r)
             \/ Import(r) \/ Upload(r) \/ AddCustomer(r)
             \/ Register(r) \/ Activate(r) \/ RegisterWallet(r)
      PROVE  AccountsBase' /\ AccountsSerial' /\ (AccountsWelcome => AccountsWelcome')
  BY <1>1, GetOtpStays, SendOtpStays, EnsureWalletStays, VerifyOtpStays, SaveLoginStays,
     FetchProfilesStays, AddingStays, AddCustomerStays, RegisterStays, ActivateStays,
     RegisterWalletStays
<1>2. ASSUME NEW r \in Requests,
             \/ \E c \in Ids : UpdateProfile(r, c) \/ Refer(r, c)
             \/ RewardReferrer(r) \/ AddReferral(r) \/ SaveReferred(r)
             \/ Grant(r) \/ GrantFails(r) \/ Die(r)
      PROVE  AccountsBase' /\ AccountsSerial' /\ (AccountsWelcome => AccountsWelcome')
  BY <1>2, UpdateProfileStays, ReferStays, RewardReferrerStays, AddReferralStays,
     SaveReferredStays, GrantStays, GrantFailsStays, DieStays
<1>3. ASSUME NEW r \in Requests, Look(r)
      PROVE  AccountsBase' /\ AccountsSerial' /\ ("sign_up" \in Once /\ AccountsWelcome => AccountsWelcome')
  BY <1>3, LookStays
<1>4. ASSUME \E c \in Ids : ConfirmDeletion(c) \/ UpdateStatus(c)
      PROVE  AccountsBase' /\ AccountsSerial' /\ (AccountsWelcome => AccountsWelcome')
  BY <1>4, ConfirmDeletionStays, UpdateStatusStays
<1>5. ASSUME SelectProfile \/ Expire \/ UNCHANGED accountsVars
      PROVE  AccountsBase' /\ AccountsSerial' /\ (AccountsWelcome => AccountsWelcome')
  BY <1>5, ProfileStepsStay
<1>6. QED
  BY <1>1, <1>2, <1>3, <1>4, <1>5 DEF AccountsNext

(* The inductive invariant: whatever requests overlap or die, what they    *)
(* hold are accounts of the number; and one at a time, the number has one  *)
(* account, with what the only handler is about to change.                 *)
THEOREM AccountsHold == AccountsSpec => [](AccountsBase /\ AccountsSerial)
<1>1. AccountsInit => AccountsBase /\ AccountsSerial
  BY AccountsStart
<1>2. AccountsBase /\ AccountsSerial /\ [AccountsNext]_accountsVars => (AccountsBase /\ AccountsSerial)'
  BY AccountsStep
<1>3. QED
  BY <1>1, <1>2, PTL DEF AccountsSpec

(* As long as requests come one at a time, a number has one account that   *)
(* is not deleted, and the rows that getOtp did not add (OneAccount).      *)
THEOREM NumberHasOneAccount == AccountsSpec => []OneAccount
<1>1. AccountsBase /\ AccountsSerial => OneAccount
  BY DEF AccountsSerial, OneAccount, Alone, Login, Busy
<1>2. QED
  BY <1>1, AccountsHold, PTL

(* As long as requests come one at a time, nobody is rewarded twice for    *)
(* referring the number, also by later accounts of it: only a handler that *)
(* dies after the reward and before the referral repeats it.  What         *)
(* UpdateReferralInfo searches is each referrer's own history, so this     *)
(* holds per referrer (ReferredOnce).                                      *)
THEOREM ReferrerRewardedOnce == AccountsSpec => []ReferredOnce
<1>1. AccountsBase /\ AccountsSerial => ReferredOnce
  <2>1. SUFFICES ASSUME AccountsBase, AccountsSerial, Calm, NEW p \in Referrers
                 PROVE  references[p] <= 1 + failures
    BY DEF ReferredOnce
  <2>2. PICK q : Alone(q)
    BY <2>1 DEF AccountsSerial, Busy
  <2>3. Rewarded(q, p) /\ references[p] \in Nat /\ referrals[p] \in Nat /\ failures \in Nat
    BY <2>1, <2>2 DEF Alone, AccountsBase, RewardsAreCounts
  <2>4. (q.pc = "referral" /\ q.by = p) => referrals[p] = 0
    BY <2>3 DEF Rewarded
  <2>5. QED
    BY <2>3, <2>4 DEF Rewarded
<1>2. QED
  BY <1>1, AccountsHold, PTL

(* Where the rule for signing up gives once, a customer is welcomed once,  *)
(* whatever dies and is repeated, or once by each request at once; and one *)
(* request at a time without failures, nobody is forgotten (WelcomedOnce). *)
THEOREM CustomerWelcomedOnce ==
    ASSUME "sign_up" \in Once PROVE AccountsSpec => []WelcomedOnce
<1>1. AccountsInit => AccountsWelcome
  BY AccountsStart
<1>2. AccountsBase /\ AccountsSerial /\ AccountsWelcome /\ [AccountsNext]_accountsVars => AccountsWelcome'
  BY AccountsStep
<1>3. AccountsBase /\ AccountsSerial /\ AccountsWelcome => WelcomedOnce
  <2>1. SUFFICES ASSUME AccountsBase, AccountsSerial, AccountsWelcome, NEW c \in Ids
                 PROVE  /\ granted[c]["sign_up"] <= WelcomeLimit
                        /\ Calm /\ failures = 0 /\ ~Busy /\ cust[c].login > 0
                             => granted[c]["sign_up"] = 1
    BY DEF WelcomedOnce, WelcomeLimit
  <2>2. granted[c]["sign_up"] \in Nat /\ WelcomeLimit \in Nat
    <3>1. "sign_up" \in Events /\ Cardinality(Requests) \in Nat
      BY GrantingFinite DEF Events
    <3>2. QED
      BY <2>1, <3>1 DEF AccountsBase, WelcomeLimit
  <2>3. granted[c]["sign_up"] <= WelcomeLimit
    BY <2>1, <2>2, GrantingFinite DEF AccountsWelcome
  <2>4. Calm /\ failures = 0 /\ ~Busy /\ cust[c].login > 0 => granted[c]["sign_up"] >= 1
    BY <2>1 DEF AccountsSerial, Alone, Owes, Idle
  <2>5. QED
    BY <2>2, <2>3, <2>4 DEF Calm, WelcomeLimit
<1>4. QED
  BY <1>1, <1>2, <1>3, AccountsHold, PTL DEF AccountsSpec

=============================================================================
