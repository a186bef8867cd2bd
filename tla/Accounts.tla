-------------------------------- MODULE Accounts --------------------------------
(***************************************************************************)
(* The accounts of one phone number: they begin with a one-time code       *)
(* (AuthService.getOtp, verifyOtp), at a partner (registerFromSpareit), in *)
(* another system (CustomerService.createCustomer) or in the file of a     *)
(* segment (CustomerSegmentService.bulkUpload),                            *)
(* earn points for signing up, for an email address and for a referral     *)
(* (rewardPoints, CustomerProfileService.updateProfile and                 *)
(* UpdateReferralInfo, all through CustomerService.earnWithEvent), and are *)
(* deleted (confirmAccountDeletion); afterwards the number may sign up     *)
(* again, as another customer.                                             *)
(*                                                                         *)
(* A handler loads a customer, and later saves the whole of its copy.  The *)
(* loads are one step, every save is one.                                  *)
(*                                                                         *)
(* Not modelled: names and addresses, QR codes, preferences and device     *)
(* tokens, test users (whose code is fixed), and the points' amounts.      *)
(***************************************************************************)
EXTENDS Handlers, Integers, FiniteSets

CONSTANTS
    Referrers,      \* customers whose codes the customers of this number may name
    MaxCustomers,   \* bound: customer rows the number may get
    Once,           \* events whose rule has the frequency once
    MaxCodes,       \* bound: one-time codes
    MaxCalls,       \* bound: requests one at a time
    MaxRacing,      \* bound: requests if some overlap
    MaxDisturbances \* bound: an administrator's edits, saves that fail, and
                    \* handlers that die

Events == {"sign_up", "email_addition", "referral"}

ASSUME AccountsAssumption ==
    /\ Once \subseteq Events
    /\ {MaxCustomers, MaxCodes, MaxCalls, MaxRacing, MaxDisturbances} \subseteq Nat
    /\ IsFiniteSet(Requests)

VARIABLES
    cust,       \* customer: the rows with the phone's hashed_number
    wallets,    \* customers with a wallet
    granted,    \* EARN transactions per customer and event
    references, \* EARN transactions for this number, per referrer
    referrals,  \* referrals with a customer of this number, per referrer
    profile,    \* resty_customer_profile_selection of the number
    expired,    \* codes older than five minutes
    nextCode,
    calls, edits, failures,
    added,      \* history: rows of other systems and of files
    overlap     \* history: a request began while another was in flight

tables == <<cust, wallets, granted, references, referrals, profile>>
history == <<calls, edits, failures, added, overlap>>
accountsVars == <<tables, expired, nextCode, req, history>>

-----------------------------------------------------------------------------

None == 0
Ids == 1 .. MaxCustomers    \* in the order of their creation
Codes == 1 .. MaxCodes

(* status is -1 if there is no such row; 0: a code was sent, 1: active,    *)
(* 2: known from a shop only, 3: deleted.                                  *)
NoCust == [status |-> -1, login |-> 0, code |-> None, referred |-> FALSE,
           external |-> FALSE]

Exists(c) == cust[c].status # -1
Fresh == {c \in Ids : ~Exists(c) /\ \A d \in Ids : d < c => Exists(d)}

(* Mutant: customers who never logged in are not looked for.               *)
LoggedInOnce == {c \in Ids : cust[c].status \in {1, 2}}

(* The rows that getOtp and verifyOtp look at.                             *)
Login == {c \in Ids : cust[c].status \in 0 .. 2}

Touch == overlap' = (overlap \/ Busy)

Start(r, q) == /\ At(r, "idle") /\ calls < IF overlap \/ Busy THEN MaxRacing ELSE MaxCalls
               /\ req' = [req EXCEPT ![r] = q]
               /\ calls' = calls + 1
               /\ Touch

Undisturbed == edits + failures < MaxDisturbances

-----------------------------------------------------------------------------
(* Points for an event.  Every handler that gives points goes through a    *)
(* list of events, each of which may fail without consequences, and then   *)
(* on to what comes after them.                                            *)

Earning(c, events, then) ==
    IF events = {} THEN then ELSE [pc |-> "look", id |-> c, events |-> events, then |-> then]

(* Mutant: the earlier transaction is not looked at.                       *)
AlwaysEarns(c, e) == cust[c].status = 1 /\ c \in wallets

(* earnWithEvent: an active customer, a wallet, and the rule's frequency.  *)
Earns(c, e) ==
    /\ cust[c].status = 1 /\ c \in wallets
    /\ e \in Once => granted[c][e] = 0

Look(r) ==
    /\ At(r, "look")
    /\ \E e \in req[r].events :
         LET q == req[r] IN
           Go(r, IF Earns(q.id, e)
                   THEN [pc |-> "grant", id |-> q.id, event |-> e,
                         events |-> q.events, then |-> q.then]
                   ELSE Earning(q.id, q.events \ {e}, q.then))
    /\ UNCHANGED <<tables, expired, nextCode, history>>

Grant(r) ==
    /\ At(r, "grant")
    /\ granted' = [granted EXCEPT ![req[r].id][req[r].event] = @ + 1]
    /\ Go(r, Earning(req[r].id, req[r].events \ {req[r].event}, req[r].then))
    /\ UNCHANGED <<cust, wallets, references, referrals, profile,
                   expired, nextCode, history>>

-----------------------------------------------------------------------------
(* getOtp: a code for the customer that was found, or for a new one.       *)

NewCust == [NoCust EXCEPT !.status = 0]

GetOtp(r) ==
    /\ \/ \E c \in Login : Start(r, [pc |-> "send", id |-> c, copy |-> cust[c]])
       \/ /\ Login = {}
          /\ \E c \in Fresh : Start(r, [pc |-> "send", id |-> None, copy |-> NewCust])
    /\ nextCode <= MaxCodes
    /\ UNCHANGED <<tables, expired, nextCode, edits, failures, added>>

(* The row that is written: its own, or the next of the table.             *)
Target(id) == IF id = None THEN Fresh ELSE {id}

SendOtp(r) ==
    /\ At(r, "send") /\ nextCode <= MaxCodes
    /\ \E c \in Target(req[r].id) :
         /\ cust' = [cust EXCEPT ![c] = [req[r].copy EXCEPT !.code = nextCode]]
         /\ Go(r, [pc |-> "wallet", id |-> c, then |-> Idle])
    /\ nextCode' = nextCode + 1
    /\ UNCHANGED <<wallets, granted, references, referrals, profile,
                   expired, history>>

(* If there is none yet.                                                   *)
EnsureWallet(r) ==
    /\ At(r, "wallet")
    /\ wallets' = wallets \cup {req[r].id}
    /\ Go(r, req[r].then)
    /\ UNCHANGED <<cust, granted, references, referrals, profile,
                   expired, nextCode, history>>

Expire ==
    /\ \E code \in {cust[c].code : c \in Ids} \ (expired \cup {None}) :
         expired' = expired \cup {code}
    /\ UNCHANGED <<tables, nextCode, req, history>>

-----------------------------------------------------------------------------
(* verifyOtp                                                               *)

(* The first login makes the customer active; the code is used up.         *)
LoggedIn(row) == [row EXCEPT !.login  = @ + 1,
                             !.status = IF row.login = 0 THEN 1 ELSE @,
                             !.code   = None]

VerifyOtp(r) ==
    /\ \E c \in Login \cap wallets :
         /\ cust[c].code # None /\ cust[c].code \notin expired
         /\ Start(r, [pc |-> "login", id |-> c, copy |-> cust[c]])
    /\ UNCHANGED <<tables, expired, nextCode, edits, failures, added>>

FirstLogin(row) == row.login = 0

SaveLogin(r) ==
    /\ At(r, "login")
    /\ LET q == req[r] IN
         /\ cust' = [cust EXCEPT ![q.id] = LoggedIn(q.copy)]
         /\ Go(r, Earning(q.id, IF FirstLogin(q.copy) THEN {"sign_up"} ELSE {},
                          [pc |-> "profile"]))
    /\ UNCHANGED <<wallets, granted, references, referrals, profile,
                   expired, nextCode, calls, edits, failures, added, overlap>>

(* The shops' system is asked once for its profiles of the number, within  *)
(* three seconds: no answer, one profile or none, or several to choose     *)
(* from.                                                                   *)
FetchProfiles(r) ==
    /\ At(r, "profile")
    /\ profile' \in IF profile = "none" THEN {"none", "selected", "pending"} ELSE {profile}
    /\ Go(r, Idle)
    /\ UNCHANGED <<cust, wallets, granted, references, referrals,
                   expired, nextCode, history>>

(* saveSelectedProfile, after the shops' system has merged them.           *)
SelectProfile ==
    /\ profile = "pending"
    /\ profile' = "selected"
    /\ UNCHANGED <<cust, wallets, granted, references, referrals,
                   expired, nextCode, req, history>>

-----------------------------------------------------------------------------
(* registerFromSpareit: a row of any status is the customer's.             *)

Partner == [NoCust EXCEPT !.status = 1, !.login = 1]

Register(r) ==
    /\ \/ \E c \in Ids :
            /\ cust[c].status \in {0, 2, 3}
            /\ Start(r, [pc |-> IF cust[c].status = 2 THEN "activate" ELSE "register",
                         id |-> c, copy |-> [cust[c] EXCEPT !.status = 1]])
       \/ /\ \A c \in Ids : ~Exists(c)
          /\ Start(r, [pc |-> "activate", id |-> None, copy |-> Partner])
    /\ UNCHANGED <<tables, expired, nextCode, edits, failures, added>>

Activate(r) ==
    /\ At(r, "activate")
    /\ \E c \in Target(req[r].id) :
         /\ cust' = [cust EXCEPT ![c] = req[r].copy]
         /\ Go(r, [pc |-> "register", id |-> c])
    /\ UNCHANGED <<wallets, granted, references, referrals, profile,
                   expired, nextCode, history>>

(* A second wallet is refused by the table's key, and the request fails.   *)
RegisterWallet(r) ==
    /\ At(r, "register")
    /\ wallets' = wallets \cup {req[r].id}
    /\ \E events \in {{"sign_up"}, {"sign_up", "email_addition"}} :
         Go(r, IF req[r].id \in wallets THEN Idle ELSE Earning(req[r].id, events, Idle))
    /\ UNCHANGED <<cust, granted, references, referrals, profile,
                   expired, nextCode, history>>

-----------------------------------------------------------------------------
(* Rows that others add.                                                   *)

(* createCustomer: another system sends the customer with its own id, and  *)
(* perhaps a status.  Who is active and has that id exists already; the    *)
(* number is not looked for.                                               *)
Import(r) ==
    /\ \A c \in Ids : ~(cust[c].status = 1 /\ cust[c].external)
    /\ \E status \in {0, 1} :
          Start(r, [pc   |-> "add",
                    copy |-> [NewCust EXCEPT !.status = status, !.external = TRUE]])
    /\ UNCHANGED <<tables, expired, nextCode, edits, failures, added>>

(* findOrCreateCustomer, for a line of the file: one row of the number, in *)
(* whatever order they come, and if that one is deleted a new customer.    *)
(* The code that the new row holds is told to nobody.                      *)
Upload(r) ==
    /\ (\E c \in Ids : cust[c].status = 3) \/ (\A c \in Ids : ~Exists(c))
    /\ Start(r, [pc |-> "add", copy |-> NewCust])
    /\ UNCHANGED <<tables, expired, nextCode, edits, failures, added>>

AddCustomer(r) ==
    /\ At(r, "add")
    /\ \E c \in Fresh :
         /\ cust' = [cust EXCEPT ![c] = req[r].copy]
         /\ Go(r, [pc |-> "wallet", id |-> c, then |-> Idle])
    /\ added' = added + 1
    /\ UNCHANGED <<wallets, granted, references, referrals, profile,
                   expired, nextCode, calls, edits, failures, overlap>>

-----------------------------------------------------------------------------
(* The profile.                                                            *)

UpdateProfile(r, c) ==
    /\ cust[c].status = 1
    /\ Start(r, Earning(c, {"email_addition"}, Idle))
    /\ UNCHANGED <<tables, expired, nextCode, edits, failures, added>>

(* Mutant: the history is not looked at.                                   *)
HasNoReferrer(c, p) == ~cust[c].referred

(* getReferralHistory has the referrals of the one whose code is given;    *)
(* they are searched for the number, not for the customer.                 *)
Referable(c, p) == ~cust[c].referred /\ referrals[p] = 0

(* UpdateReferralInfo: the points of the one who referred, the referral,   *)
(* the customer's points, and the customer's row at last.                  *)
Refer(r, c) ==
    /\ Exists(c)
    /\ \E p \in Referrers :
         /\ Referable(c, p)
         /\ Start(r, [pc |-> "reference", id |-> c, by |-> p, copy |-> cust[c]])
    /\ UNCHANGED <<tables, expired, nextCode, edits, failures, added>>

RewardReferrer(r) ==
    /\ At(r, "reference")
    /\ references' = [references EXCEPT ![req[r].by] = @ + 1]
    /\ Go(r, [req[r] EXCEPT !.pc = "referral"])
    /\ UNCHANGED <<cust, wallets, granted, referrals, profile,
                   expired, nextCode, history>>

AddReferral(r) ==
    /\ At(r, "referral")
    /\ referrals' = [referrals EXCEPT ![req[r].by] = @ + 1]
    /\ Go(r, Earning(req[r].id, {"referral"}, [req[r] EXCEPT !.pc = "refer"]))
    /\ UNCHANGED <<cust, wallets, granted, references, profile,
                   expired, nextCode, history>>

SaveReferred(r) ==
    /\ At(r, "refer")
    /\ cust' = [cust EXCEPT ![req[r].id] = [req[r].copy EXCEPT !.referred = TRUE]]
    /\ Go(r, Idle)
    /\ UNCHANGED <<wallets, granted, references, referrals, profile,
                   expired, nextCode, history>>

Deleted(row) == [row EXCEPT !.status = 3]

(* Only the columns named are written; the profile selection goes as well. *)
ConfirmDeletion(c) ==
    /\ cust[c].status = 1
    /\ cust' = [cust EXCEPT ![c] = Deleted(@)]
    /\ profile' = "none"
    /\ Touch
    /\ UNCHANGED <<wallets, granted, references, referrals, expired, nextCode,
                   req, calls, edits, failures, added>>

(* updateStatus, by an administrator.                                      *)
UpdateStatus(c) ==
    /\ Exists(c) /\ Undisturbed /\ edits' = edits + 1
    /\ \E status \in {0, 1} : cust' = [cust EXCEPT ![c].status = status]
    /\ Touch
    /\ UNCHANGED <<wallets, granted, references, referrals, profile, expired,
                   nextCode, req, calls, failures, added>>

-----------------------------------------------------------------------------
(* A save of the points fails, which is logged and passed over.            *)
GrantFails(r) ==
    /\ \/ /\ At(r, "grant")
          /\ Go(r, Earning(req[r].id, req[r].events \ {req[r].event}, req[r].then))
       \/ /\ At(r, "reference") \/ At(r, "referral")
          /\ Go(r, Earning(req[r].id, {"referral"}, [req[r] EXCEPT !.pc = "refer"]))
    /\ Undisturbed /\ failures' = failures + 1
    /\ UNCHANGED <<tables, expired, nextCode, calls, edits, added, overlap>>

Die(r) ==
    /\ ~At(r, "idle") /\ Undisturbed /\ failures' = failures + 1
    /\ Go(r, Idle)
    /\ UNCHANGED <<tables, expired, nextCode, calls, edits, added, overlap>>

-----------------------------------------------------------------------------
(* The number is new, or known from a shop, with a wallet or without.      *)
AccountsInit ==
    /\ \/ cust = [c \in Ids |-> NoCust] /\ wallets = {}
       \/ /\ cust = [c \in Ids |-> IF c = 1 THEN [NoCust EXCEPT !.status = 2] ELSE NoCust]
          /\ wallets \in {{}, {1}}
    /\ granted = [c \in Ids |-> [e \in Events |-> 0]]
    /\ references = [p \in Referrers |-> 0] /\ referrals = [p \in Referrers |-> 0]
    /\ profile = "none"
    /\ expired = {} /\ nextCode = 1
    /\ req = [r \in Requests |-> Idle]
    /\ calls = 0 /\ edits = 0 /\ failures = 0 /\ added = 0 /\ overlap = FALSE

AccountsNext ==
    \/ \E r \in Requests :
         \/ GetOtp(r) \/ SendOtp(r) \/ EnsureWallet(r)
         \/ VerifyOtp(r) \/ SaveLogin(r) \/ FetchProfiles(r)
         \/ Import(r) \/ Upload(r) \/ AddCustomer(r)
         \/ Register(r) \/ Activate(r) \/ RegisterWallet(r)
         \/ \E c \in Ids : UpdateProfile(r, c) \/ Refer(r, c)
         \/ RewardReferrer(r) \/ AddReferral(r) \/ SaveReferred(r)
         \/ Look(r) \/ Grant(r) \/ GrantFails(r) \/ Die(r)
    \/ \E c \in Ids : ConfirmDeletion(c) \/ UpdateStatus(c)
    \/ SelectProfile \/ Expire

AccountsSpec == AccountsInit /\ [][AccountsNext]_accountsVars

-----------------------------------------------------------------------------
(* Properties.                                                             *)

Calm == ~overlap /\ edits = 0

(* A customer is welcomed once, however she signs up and whatever fails;   *)
(* requests in flight at once may do it once each.  One request at a time, *)
(* and if nothing fails, everyone who logged in was welcomed.              *)
WelcomedOnce ==
    \A c \in Ids :
      /\ granted[c]["sign_up"] <= IF overlap THEN Cardinality(Requests) ELSE 1
      /\ Calm /\ failures = 0 /\ ~Busy /\ cust[c].login > 0
           => granted[c]["sign_up"] = 1

(* One request at a time, a number has one account: another one begins     *)
(* only after the first was deleted, though a handler may die before the   *)
(* new customer has a wallet.  Only rows that another system or a file     *)
(* added, which do not ask for the number or find a deleted account, come  *)
(* on top.                                                                 *)
OneAccount ==
    Calm => Cardinality({c \in Ids : cust[c].status \in 0 .. 2}) <= 1 + added

(* One request at a time, nobody is rewarded twice for referring the same  *)
(* number, also if its customer deletes the account and signs up again;    *)
(* once more only for a handler that died.  (Somebody else may be rewarded *)
(* for the second account: only one's own referrals are looked at.)        *)
ReferredOnce == Calm => \A p \in Referrers : references[p] <= 1 + failures

=============================================================================
