--------------------------------- MODULE Qitaf ---------------------------------
(***************************************************************************)
(* Points that live at a partner: QitafService redeems, reverses, rewards  *)
(* and reduces rewards by calls to STC, and keeps a log of them that       *)
(* refunds are looked up in; CheckoutService uses it for the programs of   *)
(* type otp.                                                               *)
(*                                                                         *)
(* A call to STC carries a GlobalId and has no certain outcome: the answer *)
(* may be late, the connection may break, and a request nobody waits for   *)
(* any more may still be executed.  STC executes a GlobalId at most once.  *)
(* STC itself is external: it is modelled from what QitafService says of   *)
(* it.                                                                     *)
(*                                                                         *)
(* One customer and one terminal.  Not modelled: amounts, PINs, payloads,  *)
(* headers and certificates, rewardStatus and the two histories (they      *)
(* change nothing), the audit rows of failed otp calls, and the refusal of *)
(* a call whose integration or terminal is disabled (it changes nothing).  *)
(***************************************************************************)
EXTENDS Integers, FiniteSets, FiniteSetsExt, Sequences

CONSTANTS
    Requests,           \* slots for requests in flight
    Invoices,
    UpdateMaxRetries,   \* UPDATE_MAX_RETRIES, 5 in the code
    MaxIds,             \* bound: GlobalIds
    MaxOtps,            \* bound: requests for a PIN
    MaxFailures         \* bound: broken connections, failed saves, crashes

ASSUME QitafAssumption ==
    /\ UpdateMaxRetries \in Nat \ {0, 1}
    /\ MaxIds \in Nat /\ MaxOtps \in Nat /\ MaxFailures \in Nat

VARIABLES
    qtx,        \* qitaf_transactions, in order of created_at
    call,       \* the requests in flight
    ops,        \* GlobalId -> the operation it was sent for
    net,        \* requests STC has yet to receive
    executed,   \* GlobalIds STC has executed
    reversed,   \* redeems STC has reversed
    told,       \* history: what callers have been told of a redeem
    failures

local == <<qtx, call, told, failures>>
stc == <<executed, reversed>>
vars == <<local, ops, net, stc>>

-----------------------------------------------------------------------------
(* Rows, handlers and messages.                                            *)

Ids == 1 .. MaxIds
NoInvoice == "none"

Kinds == {"redeem", "reverse", "earn", "update"}

(* ref is the GlobalId a reverse or update is about; first is the GlobalId *)
(* of the first attempt of the call (history).                             *)
Operations == [kind : Kinds, ref : 0 .. MaxIds, first : Ids]

Rows == [type : Kinds \cup {"otp"}, id : 0 .. MaxIds, ref : 0 .. MaxIds,
         status : {"success", "failed", "auto_reversed"},
         invoice : Invoices \cup {NoInvoice}]

Steps == {"redeem", "logRedeem", "autoReverse", "reverse", "autoEarn",
          "earn", "update"}

Codes == {"ok", "1040", "2311", "critical", "refused"}

Calls == [pc : Steps \cup {"idle"}, id : 0 .. MaxIds, ref : 0 .. MaxIds,
          attempt : 1 .. UpdateMaxRetries,
          invoice : Invoices \cup {NoInvoice},
          reply : Codes \cup {"none"},     \* the answer, once it is there
          checkout : BOOLEAN]   \* the call came through confirmTransaction

Idle == [pc |-> "idle", id |-> 0, ref |-> 0, attempt |-> 1,
         invoice |-> NoInvoice, reply |-> "none", checkout |-> FALSE]

Messages == [id : Ids, attempt : 1 .. UpdateMaxRetries]

Answers == {"redeemed", "failed", "automatically reversed", "reversed"}

InFlight == {r \in Requests : call[r].pc # "idle"}
At(r, pc) == call[r].pc = pc

(* newGlobalId                                                             *)
NextId == Cardinality(DOMAIN ops) + 1

(* GlobalIds a call in flight may still need: a redeem for its reversal or *)
(* for the two attempts at its reward, a retried call for its attempts.    *)
Needs(c) == CASE c.pc \in {"redeem", "logRedeem", "autoEarn"} -> 2
              [] c.pc = "earn"   -> 2 - c.attempt
              [] c.pc = "update" -> UpdateMaxRetries - c.attempt
              [] OTHER           -> 0

(* Room for a call that needs n, whatever those in flight come to need.    *)
Room(n) == Cardinality(DOMAIN ops) + n
             + MapThenSumSet(LAMBDA r : Needs(call[r]), InFlight) <= MaxIds

(* Sends one request; the caller waits for its answer.                     *)
Send(r, c, kind, ref, first) ==
    /\ c.id \in Ids
    /\ ops' = [i \in DOMAIN ops \cup {c.id} |->
                  IF i \in DOMAIN ops THEN ops[i]
                  ELSE [kind |-> kind, ref |-> ref, first |-> first]]
    /\ net' = net \cup {[id |-> c.id, attempt |-> c.attempt]}
    /\ call' = [call EXCEPT ![r] = c]

Return(r) == call' = [call EXCEPT ![r] = Idle]

(* logTransaction.  Where the code does not wait for it nobody reads the   *)
(* row, which may as well be written at once.                              *)
Log(type, id, ref, status, invoice) ==
    qtx' = Append(qtx, [type |-> type, id |-> id, ref |-> ref,
                        status |-> status, invoice |-> invoice])

Tell(id, answer) == told' = told \cup {[id |-> id, answer |-> answer]}

-----------------------------------------------------------------------------
(* STC (external).                                                         *)

(* 2311 refuses a GlobalId without executing it; 1, 2310 and, of a redeem, *)
(* 2311 leave it open whether the redeem was executed.                     *)
Process(m) ==
    LET id == m.id
        op == ops[id]
        Waiting == {r \in InFlight : call[r].id = id /\ call[r].attempt = m.attempt}
        Reply(code) == call' = [r \in Requests |->
                           IF r \in Waiting THEN [call[r] EXCEPT !.reply = code]
                                            ELSE call[r]]
        Execute == executed' = executed \cup {id} /\ UNCHANGED reversed
    IN  /\ net' = net \ {m}
        /\ \/ id \in executed /\ Reply("ok") /\ UNCHANGED stc
           \/ /\ id \notin executed /\ op.kind = "redeem"
              /\ \/ Execute /\ Reply("ok")
                 \/ Execute /\ Reply("critical")
                 \/ \E code \in {"critical", "refused"} :
                        Reply(code) /\ UNCHANGED stc
           \/ /\ op.kind = "reverse" /\ id \notin executed
              /\ \/ /\ op.ref \in executed \ reversed
                    /\ executed' = executed \cup {id}
                    /\ reversed' = reversed \cup {op.ref}
                    /\ Reply("ok")
                 \/ op.ref \in reversed /\ Reply("1040") /\ UNCHANGED stc
                 \/ Reply("refused") /\ UNCHANGED stc
           \/ /\ op.kind \in {"earn", "update"} /\ id \notin executed
              /\ \/ /\ op.kind = "update" => op.ref \in executed
                    /\ Execute /\ Reply("ok")
                 \/ \E code \in {"2311", "refused"} :
                        Reply(code) /\ UNCHANGED stc
        /\ UNCHANGED <<qtx, told, failures, ops>>

(* callStc: the code of the answer, a timeout of 60 s, or an error of the  *)
(* connection.  The request may be executed in all of these cases.         *)
Outcome(r, outcome) ==
    \/ outcome \in Codes /\ call[r].reply = outcome /\ UNCHANGED failures
    \/ outcome = "timeout" /\ UNCHANGED failures
    \/ /\ outcome = "network" /\ failures < MaxFailures
       /\ failures' = failures + 1

Outcomes == Codes \cup {"timeout", "network"}

-----------------------------------------------------------------------------
(* Decisions on an outcome, with the mutants of each.                      *)

SucceedsUnlessRefused(outcome) == outcome \in {"ok", "2311"}
Succeeds(outcome) == outcome = "ok"

(* Mutant: only a timeout is worth reversing.                              *)
MustReverseTimeouts(outcome) == outcome = "timeout"

(* REDEEM_AUTO_REVERSE_CODES, or a timeout.                                *)
MustReverse(outcome) == outcome \in {"timeout", "critical"}

ReverseSucceeds(outcome) == outcome \in {"ok", "1040"}

Retriable(outcome) == outcome \in {"timeout", "2311"}

(* Mutant: a new id for every attempt.                                     *)
RetryWithNew(id, outcome) == NextId

(* Timeout: the same GlobalId.  2311: a new one.                           *)
RetryId(id, outcome) == IF outcome = "timeout" THEN id ELSE NextId

-----------------------------------------------------------------------------
(* requestOtp, from CheckoutService.requestTransaction: STC sends a PIN,   *)
(* and the invoice is logged for the confirmation.                         *)

RequestOtp ==
    /\ Cardinality({i \in DOMAIN qtx : qtx[i].type = "otp"}) < MaxOtps
    /\ \E invoice \in Invoices : Log("otp", 0, 0, "success", invoice)
    /\ UNCHANGED <<call, told, failures, ops, net, stc>>

-----------------------------------------------------------------------------
(* redeemPoints, called directly or by confirmTransaction.                 *)

Redeem(r) ==
    /\ At(r, "idle") /\ Room(3)
    /\ \E c \in {[Idle EXCEPT !.pc = "redeem", !.id = NextId]} \cup
                {[Idle EXCEPT !.pc = "redeem", !.id = NextId,
                    !.checkout = TRUE, !.invoice = qtx[i].invoice]
                   : i \in {j \in DOMAIN qtx : qtx[j].type = "otp"}} :
          Send(r, c, "redeem", 0, NextId)
    /\ UNCHANGED <<qtx, told, failures, stc>>

RedeemSucceeds(r) ==
    /\ At(r, "redeem")
    /\ \E outcome \in Outcomes : Outcome(r, outcome) /\ Succeeds(outcome)
    /\ call' = [call EXCEPT ![r].pc = "logRedeem"]
    /\ UNCHANGED <<qtx, told, ops, net, stc>>

(* The row a refund will be looked up in is awaited; the caller is told,   *)
(* and confirmTransaction goes on to tryAutoEarnRemaining by itself.       *)
RedeemLogged(r) ==
    /\ At(r, "logRedeem")
    /\ Log("redeem", call[r].id, 0, "success", call[r].invoice)
    /\ Tell(call[r].id, "redeemed")
    /\ IF call[r].checkout
       THEN call' = [call EXCEPT ![r] = [Idle EXCEPT !.pc = "autoEarn"]]
       ELSE Return(r)
    /\ UNCHANGED <<failures, ops, net, stc>>

(* The save throws inside the try: neither a timeout nor an answer of STC, *)
(* so the redeem is reported failed and is not reversed.                   *)
RedeemNotLogged(r) ==
    /\ At(r, "logRedeem") /\ failures < MaxFailures
    /\ failures' = failures + 1
    /\ Log("redeem", call[r].id, 0, "failed", call[r].invoice)
    /\ Tell(call[r].id, "failed")
    /\ Return(r)
    /\ UNCHANGED <<ops, net, stc>>

RedeemReverses(r) ==
    /\ At(r, "redeem")
    /\ \E outcome \in Outcomes : /\ Outcome(r, outcome)
                                 /\ ~Succeeds(outcome) /\ MustReverse(outcome)
    /\ Log("redeem", call[r].id, 0, "auto_reversed", call[r].invoice)
    /\ Send(r, [call[r] EXCEPT !.pc = "autoReverse", !.id = NextId,
                               !.ref = call[r].id, !.reply = "none"],
            "reverse", call[r].id, NextId)
    /\ UNCHANGED <<told, stc>>

RedeemFails(r) ==
    /\ At(r, "redeem")
    /\ \E outcome \in Outcomes : /\ Outcome(r, outcome)
                                 /\ ~Succeeds(outcome) /\ ~MustReverse(outcome)
    /\ Log("redeem", call[r].id, 0, "failed", call[r].invoice)
    /\ Tell(call[r].id, "failed")
    /\ Return(r)
    /\ UNCHANGED <<ops, net, stc>>

-----------------------------------------------------------------------------
(* executeReverse: never throws.  Whatever it returns, redeemPoints says   *)
(* "Transaction automatically reversed" and the manual endpoints           *)
(* "Redemption reversed successfully".                                     *)

Reversed(r) ==
    /\ At(r, "autoReverse") \/ At(r, "reverse")
    /\ \E outcome \in Outcomes :
         /\ Outcome(r, outcome)
         /\ Log("reverse", call[r].id, call[r].ref,
                IF ReverseSucceeds(outcome) THEN "success" ELSE "failed",
                NoInvoice)
    /\ Tell(call[r].ref, IF At(r, "autoReverse") THEN "automatically reversed"
                                                 ELSE "reversed")
    /\ Return(r)
    /\ UNCHANGED <<ops, net, stc>>

StartReverse(r, id) ==
    /\ At(r, "idle") /\ Room(1)
    /\ Send(r, [Idle EXCEPT !.pc = "reverse", !.id = NextId, !.ref = id],
            "reverse", id, NextId)
    /\ UNCHANGED <<qtx, told, failures, stc>>

RedeemRows == {i \in DOMAIN qtx : /\ qtx[i].type = "redeem"
                                  /\ qtx[i].status = "success"}

(* order: { created_at: 'DESC' }                                           *)
Latest(rows) == {i \in rows : \A j \in rows : j <= i}

(* reverseRedeem: the cashier names a redeem whose GlobalId it was given.   *)
ReverseRedeem(r) ==
    \E t \in told : /\ t.answer \in {"redeemed", "automatically reversed"}
                    /\ StartReverse(r, t.id)

(* reverseRedeemByMsisdn: the customer's most recent one.                  *)
ReverseRedeemByMsisdn(r) ==
    \E i \in Latest(RedeemRows) : StartReverse(r, qtx[i].id)

(* CheckoutService.refund: the most recent one of the invoice.             *)
Refund(r) ==
    \E invoice \in Invoices :
      \E i \in Latest({j \in RedeemRows : qtx[j].invoice = invoice}) :
          StartReverse(r, qtx[i].id)

-----------------------------------------------------------------------------
(* Rewards.                                                                *)

EarnReward(r) ==
    /\ At(r, "idle") /\ Room(2)
    /\ Send(r, [Idle EXCEPT !.pc = "earn", !.id = NextId], "earn", 0, NextId)
    /\ UNCHANGED <<qtx, told, failures, stc>>

(* Part of the invoice was paid otherwise, and the tenant rewards it.      *)
TryAutoEarn(r) ==
    /\ At(r, "autoEarn")
    /\ Send(r, [Idle EXCEPT !.pc = "earn", !.id = NextId], "earn", 0, NextId)
    /\ UNCHANGED <<qtx, told, failures, stc>>

(* Nothing remains, autoEarnOnPartialRedemption is off, or the integration *)
(* was disabled in the meantime.                                           *)
NoAutoEarn(r) ==
    /\ At(r, "autoEarn")
    /\ Return(r)
    /\ UNCHANGED <<qtx, told, failures, ops, net, stc>>

(* Mutant: as many retries as attempts.                                    *)
OneAttemptMore(pc) == IF pc = "earn" THEN 3 ELSE UpdateMaxRetries + 1

(* Attempts of callRewardWithRetry: the second is the last.                *)
MaxAttempts(pc) == IF pc = "earn" THEN 2 ELSE UpdateMaxRetries

RewardReturns(r) ==
    /\ At(r, "earn") \/ At(r, "update")
    /\ \E outcome \in Outcomes :
         /\ Outcome(r, outcome)
         /\ \/ Succeeds(outcome) \/ ~Retriable(outcome)
            \/ call[r].attempt >= MaxAttempts(call[r].pc)
         /\ Log(call[r].pc, call[r].id, call[r].ref,
                IF Succeeds(outcome) THEN "success" ELSE "failed", NoInvoice)
    /\ Return(r)
    /\ UNCHANGED <<told, ops, net, stc>>

RewardRetries(r) ==
    /\ At(r, "earn") \/ At(r, "update")
    /\ call[r].attempt < MaxAttempts(call[r].pc)
    /\ \E outcome \in Outcomes :
         /\ Outcome(r, outcome)
         /\ ~Succeeds(outcome) /\ Retriable(outcome)
         /\ LET c == call[r]
            IN  Send(r, [c EXCEPT !.id = RetryId(c.id, outcome),
                                  !.attempt = @ + 1,
                                  !.reply = "none"],
                     c.pc, c.ref, ops[c.id].first)
    /\ UNCHANGED <<qtx, told, stc>>

(* updateReward: reduces a reward the cashier has the GlobalId of.         *)
UpdateReward(r) ==
    /\ At(r, "idle") /\ Room(UpdateMaxRetries)
    /\ \E i \in DOMAIN qtx :
         /\ qtx[i].type = "earn" /\ qtx[i].status = "success"
         /\ Send(r, [Idle EXCEPT !.pc = "update", !.id = NextId,
                                 !.ref = qtx[i].id],
                 "update", qtx[i].id, NextId)
    /\ UNCHANGED <<qtx, told, failures, stc>>

-----------------------------------------------------------------------------
(* The process dies: its requests are gone, STC's are not.                 *)
Crash ==
    /\ failures < MaxFailures /\ InFlight # {}
    /\ failures' = failures + 1
    /\ call' = [r \in Requests |-> Idle]
    /\ UNCHANGED <<qtx, told, ops, net, stc>>

Init ==
    /\ qtx = <<>> /\ told = {} /\ failures = 0
    /\ call = [r \in Requests |-> Idle]
    /\ ops = [i \in {} |-> [kind |-> "redeem", ref |-> 0, first |-> 1]]
    /\ net = {}
    /\ executed = {} /\ reversed = {}

Start(r) == Redeem(r) \/ ReverseRedeem(r)
            \/ ReverseRedeemByMsisdn(r) \/ Refund(r) \/ EarnReward(r)
            \/ UpdateReward(r)

Continue(r) == RedeemSucceeds(r) \/ RedeemLogged(r)
               \/ RedeemNotLogged(r) \/ RedeemReverses(r) \/ RedeemFails(r)
               \/ Reversed(r) \/ TryAutoEarn(r) \/ NoAutoEarn(r)
               \/ RewardReturns(r) \/ RewardRetries(r)

Next == \/ \E r \in Requests : Start(r) \/ Continue(r)
        \/ \E m \in net : Process(m)
        \/ RequestOtp \/ Crash

Spec == Init /\ [][Next]_vars

-----------------------------------------------------------------------------
(* Properties.                                                             *)

(* Every variable stays in its range.                                      *)
TypeOK ==
    /\ qtx \in Seq(Rows)
    /\ call \in [Requests -> Calls]
    /\ DOMAIN ops \subseteq Ids /\ ops \in [DOMAIN ops -> Operations]
    /\ net \subseteq Messages
    /\ reversed \subseteq executed /\ executed \subseteq DOMAIN ops
    /\ told \subseteq [id : DOMAIN ops, answer : Answers]
    /\ failures \in 0 .. MaxFailures

Logged(type, status) ==
    {qtx[i].id : i \in {j \in DOMAIN qtx : /\ qtx[j].type = type
                                           /\ qtx[j].status = status}}

Recorded == UNION {Logged(type, "success") : type \in {"redeem", "earn", "update"}}

ReturnsLogged ==
    {qtx[i].ref : i \in {j \in DOMAIN qtx : /\ qtx[j].type = "reverse"
                                            /\ qtx[j].status = "success"}}

Account == INSTANCE PartnerAccount
    WITH done <- executed, returned <- reversed,
         recorded <- Recorded, recordedReturns <- ReturnsLogged

(* The log and STC together are the partner's account: what the log calls  *)
(* a success STC has done, a redeem is logged before it can be returned,   *)
(* and a return that is logged took place, also where STC answered 1040,   *)
(* "already reversed".                                                     *)
ImplementsAccount == Account!Spec

SameCall(i, j) == ops[i].kind = ops[j].kind /\ ops[i].first = ops[j].first

(* "Timeout: use SAME GlobalId so STC treats it as the same transaction":  *)
(* a reward is given once, although the call tries twice and the first     *)
(* request may arrive after the second.                                    *)
RewardedOncePerCall ==
    \A i, j \in executed : ops[i].kind = "earn" /\ SameCall(i, j) => i = j

Standing == {id \in executed \ reversed : ops[id].kind = "redeem"}

(* Unless a connection or a save failed, points STC has taken are points   *)
(* the log knows of: as redeemed, or as reversed automatically.            *)
StandingIsLogged ==
    failures = 0 =>
        \A id \in Standing :
            \/ id \in Logged("redeem", "success")
                        \cup Logged("redeem", "auto_reversed")
            \/ \E r \in Requests : call[r].id = id

=============================================================================
