-------------------------------- MODULE Vehicles --------------------------------
(***************************************************************************)
(* The vehicles of one phone number, over the accounts it has one after    *)
(* another (VehiclesService): customers add and change them, list them     *)
(* for sale at GoGoMotor, delete them, and delete their accounts; the list *)
(* of vehicles is first brought up to date with the one the workshops keep *)
(* (Resty), and then values the cars in the background.  Customers with    *)
(* other numbers only meet at the workshop: each has rows of her own.      *)
(*                                                                         *)
(* A handler loads rows and later saves the whole of its copies, or, with  *)
(* a copy without an id, inserts a row.  A load is one step, a save is one.*)
(*                                                                         *)
(* Abstracted: what a vehicle is (make, model, images, mileage, price);    *)
(* the workshop's list has a plate once, since it is sent there under it.  *)
(***************************************************************************)
EXTENDS Handlers, Integers, Sequences, FiniteSets

CONSTANTS
    Plates,
    MaxRows,        \* bound: rows of vehicles
    MaxAccounts,    \* bound: accounts of the number
    MaxListings,    \* bound: listings at GoGoMotor
    MaxStarts,      \* bound: requests
    MaxFailures     \* bound: handlers that die or throw

ASSUME VehiclesAssumption ==
    {MaxRows, MaxAccounts, MaxListings, MaxStarts, MaxFailures} \subseteq Nat

VARIABLES
    rows,       \* vehicle
    account,    \* the number's latest customer row
    open,       \* customer.status = 1 for it
    resty,      \* external: the plates the workshops know for the number
    listings,   \* external: listings GoGoMotor has numbered so far
    hidden,     \* history: <<account, plate>> the customer deleted and
                \* did not add again
    raced,      \* history: plates written between a read and the write that
                \* is based on it
    starts, deaths  \* requests so far, and handlers that died or threw

outside == <<account, open, resty, listings>>
vars == <<rows, outside, req, hidden, raced, starts, deaths>>

-----------------------------------------------------------------------------

NoRow == 0                  \* the id of a copy that is not in the table yet
NotListed == 0
Nothing == [i \in {} |-> i]
Every == "every plate"

NewRow(a, p, valued) ==
    [account |-> a, plate |-> p, status |-> "active", listing |-> NotListed, valued |-> valued]

(* findOne of a customer's vehicle by its plate, not deleted.              *)
Active(a, p) == {i \in DOMAIN rows : /\ rows[i].account = a /\ rows[i].plate = p
                                     /\ rows[i].status = "active"}

(* Mutant: a set of VINs is asked for plates.                              *)
Vins(a) == {}

LocalPlates(a) == {p \in Plates : Active(a, p) # {}}

(* Mutant: deleted vehicles are looked for by customer.                    *)
DeletedInAccount(a, p) ==
    \E i \in DOMAIN rows : /\ rows[i].account = a /\ rows[i].plate = p
                           /\ rows[i].status = "deleted"

(* A deleted row of the plate whose customer has the same phone number,    *)
(* which every account here has.                                           *)
DeletedBefore(a, p) ==
    \E i \in DOMAIN rows : rows[i].plate = p /\ rows[i].status = "deleted"

(* Mutant: a request without a valuation takes the car's away.             *)
Flushed(row, valued) == [row EXCEPT !.valued = valued]

(* The client's data over the row's: a valuation only if it is complete.   *)
Updated(row, valued) == [row EXCEPT !.valued = @ \/ valued]

-----------------------------------------------------------------------------
(* Requests: what they do, for which account and plate, the copies they    *)
(* carry, and, for the list, the workshop's plates still to look at and    *)
(* those known from the table.                                             *)

Doing(r, job, pc) == req[r].pc = pc /\ req[r].job = job

Job(job, pc, p) ==
    [job |-> job, pc |-> pc, account |-> account, plate |-> p,
     copies |-> Nothing, todo |-> {}, known |-> {}, listing |-> NotListed]

(* The copies of a request without the one it is done with.                *)
Without(copies, i) == [j \in DOMAIN copies \ {i} |-> copies[j]]

(* The plates a request has read and is yet to write, or will insert       *)
(* because it did not find them.                                           *)
Holds(r) ==
    IF req[r] = Idle \/ req[r].job = "sell" THEN {}
    ELSE {req[r].copies[i].plate : i \in DOMAIN req[r].copies} \cup (req[r].todo \ req[r].known)

(* A write to a plate's rows.                                              *)
Write(r, p) == raced' = raced \cup {q \in {p} : \E s \in Requests \ {r} : q \in Holds(s)}

(* save: an update of the row with the copy's id, or an insert.            *)
Save(i, row) == rows' = IF i = NoRow THEN Append(rows, row) ELSE [rows EXCEPT ![i] = row]
HasRoom(i) == i = NoRow => Len(rows) < MaxRows

Begin(r, q) ==
    /\ req[r] = Idle /\ starts < MaxStarts
    /\ Go(r, q)
    /\ starts' = starts + 1
    /\ UNCHANGED <<rows, outside, hidden, raced, deaths>>

(* A step of a request that writes nothing.                                *)
Step(r, q) == Go(r, q) /\ UNCHANGED <<rows, outside, hidden, raced, starts, deaths>>

-----------------------------------------------------------------------------
(* The services outside, which may fail, or take too long.                 *)

(* The list of plates that Resty answers with, in any order, or none.      *)
RestyVehicles == {{}, resty}

(* A vehicle is sent to Resty, an error is swallowed.                      *)
RestyWith(p) == {resty, resty \cup {p}}

(* Whether GoGoMotor has a valuation of a car.                             *)
CarValuations == BOOLEAN

-----------------------------------------------------------------------------
(* manageCustomerVehicle: the customer, then the vehicle.                  *)

Manage(r, p) == open /\ Begin(r, Job("manage", "find", p))

(* A found vehicle takes the client's data.  A new one has the client's    *)
(* valuation or GoGoMotor's, or none; rewardPoints may take its time.      *)
FindOrPrepare(r) ==
    LET q == req[r]
        found == Active(q.account, q.plate) IN
    /\ Doing(r, "manage", "find")
    /\ \E valued \in CarValuations :
         \/ \E i \in found :
              Step(r, [q EXCEPT !.pc = "save",
                                !.copies = [j \in {i} |-> Updated(rows[i], valued)]])
         \/ /\ found = {}
            /\ Step(r, [q EXCEPT !.pc = "save",
                  !.copies = [j \in {NoRow} |-> NewRow(q.account, q.plate, valued)]])

SaveManaged(r) ==
    LET q == req[r] IN
    /\ Doing(r, "manage", "save")
    /\ \E i \in DOMAIN q.copies :
         /\ HasRoom(i)
         /\ Save(i, q.copies[i])
         /\ hidden' = IF i = NoRow THEN {h \in hidden : h[2] # q.plate} ELSE hidden
    /\ Write(r, q.plate)
    /\ Go(r, [q EXCEPT !.pc = "tell", !.copies = Nothing])
    /\ UNCHANGED <<outside, starts, deaths>>

(* The workshops are told, unless the login or the search for the customer *)
(* fails or takes three seconds.                                           *)
TellResty(r) ==
    /\ Doing(r, "manage", "tell")
    /\ resty' \in RestyWith(req[r].plate)
    /\ Go(r, Idle)
    /\ UNCHANGED <<rows, account, open, listings, hidden, raced, starts, deaths>>

-----------------------------------------------------------------------------
(* manageCustomerVehicleImages and softDeleteVehicle of a customer's       *)
(* vehicle, and selfCarListing, which does not ask for the customer's      *)
(* status.                                                                 *)

Change(r, job, p) == (open \/ job = "sell") /\ Begin(r, Job(job, "find", p))

Find(r) ==
    LET q == req[r]
        found == Active(q.account, q.plate) IN
    /\ q.pc = "find" /\ q.job \in {"images", "delete", "sell"}
    /\ \/ found = {} /\ Step(r, Idle)
       \/ \E i \in found :
            Step(r, [q EXCEPT !.pc = "save", !.copies = [j \in {i} |-> rows[i]]])

(* The images, the mileage and the price are in the copy.                  *)
SaveCopy(r) ==
    LET q == req[r] IN
    /\ q.pc = "save" /\ q.job \in {"images", "webhook"}
    /\ \E i \in DOMAIN q.copies : Save(i, q.copies[i]) /\ Write(r, q.copies[i].plate)
    /\ Go(r, Idle)
    /\ UNCHANGED <<outside, hidden, starts, deaths>>

SaveDeleted(r) ==
    LET q == req[r] IN
    /\ Doing(r, "delete", "save")
    /\ \E i \in DOMAIN q.copies : Save(i, [q.copies[i] EXCEPT !.status = "deleted"])
    /\ hidden' = hidden \cup {h \in {<<q.account, q.plate>>} : h[1] = account}
    /\ Write(r, q.plate)
    /\ Go(r, Idle)
    /\ UNCHANGED <<outside, starts, deaths>>

(* GoGoMotor numbers the listing.  The numbers grow: another one answered   *)
(* in between is stored over or under it, whichever comes last.            *)
PostListing(r) ==
    /\ Doing(r, "sell", "save") /\ listings < MaxListings
    /\ listings' = listings + 1
    /\ Go(r, [req[r] EXCEPT !.pc = "store", !.listing = listings'])
    /\ UNCHANGED <<rows, account, open, resty, hidden, raced, starts, deaths>>

(* update of these columns alone.                                          *)
StoreListing(r) ==
    LET q == req[r] IN
    /\ Doing(r, "sell", "store")
    /\ \E i \in DOMAIN q.copies : rows' = [rows EXCEPT ![i].listing = q.listing]
    /\ Write(r, q.plate)
    /\ Go(r, Idle)
    /\ UNCHANGED <<outside, hidden, starts, deaths>>

(* handleGogoWebhook: GoGoMotor calls with a listing's number.             *)
Webhook(r, n) ==
    \E i \in DOMAIN rows :
         /\ rows[i].listing = n /\ rows[i].status = "active"
         /\ Begin(r, [Job("webhook", "save", rows[i].plate) EXCEPT
                        !.copies = [j \in {i} |-> rows[i]]])

-----------------------------------------------------------------------------
(* getCustomerVehicleV1: the workshops' list, if they answer with one.     *)

List(r) == open /\ Begin(r, Job("list", "fetch", Every))

Fetch(r) ==
    /\ Doing(r, "list", "fetch")
    /\ \E list \in RestyVehicles :   \* nothing of it is held before ReadLocal
         Step(r, [req[r] EXCEPT !.pc = IF list = {} THEN "show" ELSE "compare",
                                !.todo = list, !.known = list])

ReadLocal(r) ==
    /\ Doing(r, "list", "compare")
    /\ Step(r, [req[r] EXCEPT !.pc = "each", !.known = LocalPlates(req[r].account)])

(* A vehicle of the list that is in the table is read again, one that the  *)
(* customer deleted is passed over, another one is inserted.               *)
Compare(r) ==
    LET q == req[r] IN
    /\ Doing(r, "list", "each")
    /\ \E p \in q.todo :
         LET found == Active(q.account, p)
             done  == [q EXCEPT !.todo = @ \ {p}] IN
         \/ /\ p \in q.known /\ found = {}
            /\ Step(r, done)
         \/ \E i \in found :
              /\ p \in q.known
              /\ Step(r, [done EXCEPT !.pc = "sync", !.copies = [j \in {i} |-> rows[i]]])
         \/ /\ p \notin q.known /\ DeletedBefore(q.account, p)
            /\ Step(r, done)
         \/ /\ p \notin q.known /\ ~DeletedBefore(q.account, p)
            /\ Step(r, [done EXCEPT !.pc = "sync",
                  !.copies = [j \in {NoRow} |-> NewRow(q.account, p, FALSE)]])

SaveSynced(r) ==
    LET q == req[r] IN
    /\ Doing(r, "list", "sync")
    /\ \E i \in DOMAIN q.copies :
         HasRoom(i) /\ Save(i, q.copies[i]) /\ Write(r, q.copies[i].plate)
    /\ Go(r, [q EXCEPT !.pc = "each", !.copies = Nothing])
    /\ UNCHANGED <<outside, hidden, starts, deaths>>

(* The list is read and answered; updateMissingCarValuations goes on with  *)
(* the cars that have no value.                                            *)
Show(r) ==
    LET q == req[r]
        a == q.account
        unvalued == {i \in DOMAIN rows : /\ rows[i].account = a /\ ~rows[i].valued
                                         /\ rows[i].status = "active"} IN
    /\ q.pc \in {"show", "each"} /\ q.job = "list" /\ q.todo = {}
    /\ Step(r, IF unvalued = {} THEN Idle
               ELSE [q EXCEPT !.pc = "value", !.known = {},
                              !.copies = [i \in unvalued |-> rows[i]]])

(* GoGoMotor's valuation of the next car, or none.                         *)
Value(r) ==
    LET q == req[r] IN
    /\ Doing(r, "list", "value")
    /\ \E i \in DOMAIN q.copies, valued \in CarValuations :
         /\ IF valued
            THEN Save(i, [q.copies[i] EXCEPT !.valued = TRUE]) /\ Write(r, q.copies[i].plate)
            ELSE UNCHANGED <<rows, raced>>
         /\ Go(r, IF DOMAIN q.copies = {i} THEN Idle
                  ELSE [q EXCEPT !.copies = Without(@, i)])
    /\ UNCHANGED <<outside, hidden, starts, deaths>>

-----------------------------------------------------------------------------
(* confirmAccountDeletion: the customer with the vehicles, deleted ones    *)
(* too; the customer's status, then every vehicle's.                       *)

CloseAccount(r) ==
    LET mine == {i \in DOMAIN rows : rows[i].account = account} IN
    /\ open
    /\ Begin(r, [Job("close", "customer", Every) EXCEPT !.copies = [i \in mine |-> rows[i]]])

CloseCustomer(r) ==
    /\ Doing(r, "close", "customer")
    /\ open' = (open /\ req[r].account # account)
    /\ Go(r, IF DOMAIN req[r].copies = {} THEN Idle ELSE [req[r] EXCEPT !.pc = "vehicles"])
    /\ UNCHANGED <<rows, account, resty, listings, hidden, raced, starts, deaths>>

CloseVehicle(r) ==
    LET q == req[r] IN
    /\ Doing(r, "close", "vehicles")
    /\ \E i \in DOMAIN q.copies :
         /\ Save(i, [q.copies[i] EXCEPT !.status = "deleted"])
         /\ Write(r, q.copies[i].plate)
         /\ Go(r, IF DOMAIN q.copies = {i} THEN Idle
                  ELSE [q EXCEPT !.copies = Without(@, i)])
    /\ UNCHANGED <<outside, hidden, starts, deaths>>

(* The number signs up again (module Accounts), as another customer.       *)
SignUp ==
    /\ ~open /\ account < MaxAccounts
    /\ account' = account + 1 /\ open' = TRUE
    /\ UNCHANGED <<rows, resty, listings, req, hidden, raced, starts, deaths>>

(* External: the customer takes a car to a workshop.                       *)
Visit(p) ==
    /\ resty' = resty \cup {p}
    /\ UNCHANGED <<rows, account, open, listings, req, hidden, raced, starts, deaths>>

(* A handler dies or throws: nothing it wrote is undone.                   *)
Fail(r) ==
    /\ req[r] # Idle /\ deaths < MaxFailures
    /\ Go(r, Idle)
    /\ deaths' = deaths + 1
    /\ UNCHANGED <<rows, outside, hidden, raced, starts>>

-----------------------------------------------------------------------------

Init ==
    /\ rows = <<>> /\ account = 1 /\ open = TRUE
    /\ resty = {} /\ listings = 0
    /\ req = [r \in Requests |-> Idle]
    /\ hidden = {} /\ raced = {}
    /\ starts = 0 /\ deaths = 0

Next ==
    \/ \E r \in Requests :
         \/ FindOrPrepare(r) \/ SaveManaged(r) \/ TellResty(r)
         \/ Find(r) \/ SaveCopy(r) \/ SaveDeleted(r) \/ PostListing(r) \/ StoreListing(r)
         \/ List(r) \/ Fetch(r) \/ ReadLocal(r) \/ Compare(r) \/ SaveSynced(r)
         \/ Show(r) \/ Value(r)
         \/ CloseAccount(r) \/ CloseCustomer(r) \/ CloseVehicle(r) \/ Fail(r)
         \/ \E p \in Plates :
              Manage(r, p) \/ \E job \in {"images", "delete", "sell"} : Change(r, job, p)
         \/ \E n \in 1 .. MaxListings : Webhook(r, n)
    \/ SignUp
    \/ \E p \in Plates : Visit(p)

Spec == Init /\ [][Next]_vars

-----------------------------------------------------------------------------
(* Properties.  They are about the plates of which no request wrote a row  *)
(* while another stood between its read and the write based on it: what    *)
(* such a pair does to the plate is a matter of luck.                      *)

(* A customer has a plate once, whether it came by the app, from the       *)
(* workshops' list or both, and whatever the customer deleted before.      *)
OneActivePerPlate ==
    \A a \in 1 .. MaxAccounts, p \in Plates \ raced : Cardinality(Active(a, p)) <= 1

(* A vehicle that the customer deleted does not come back with the         *)
(* workshops' list, nor under a later account of the number, until the     *)
(* customer adds it again.                                                 *)
HiddenOnceDeleted ==
    \A h \in hidden : h[2] \notin raced =>
      \A a \in h[1] .. MaxAccounts : Active(a, h[2]) = {}

(* No request loses what another has stored of a vehicle: neither its      *)
(* valuation nor its listing for sale, which is only replaced by another,  *)
(* and a deleted row stays deleted.                                        *)
NothingLost ==
    [][\A i \in DOMAIN rows : rows[i].plate \notin raced' =>
         /\ rows[i].valued => rows'[i].valued
         /\ rows[i].listing # NotListed => rows'[i].listing # NotListed
         /\ rows[i].status = "deleted" => rows'[i].status = "deleted"]_rows

=============================================================================
