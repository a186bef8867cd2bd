------------------------------ MODULE QitafProofs ------------------------------
(***************************************************************************)
(* Qitaf implements PartnerAccount, gives a reward once per call, and has  *)
(* the points STC took in its log, for every number of requests in flight, *)
(* of retries and of failures.                                             *)
(***************************************************************************)
EXTENDS Qitaf, FiniteSetTheorems, TLAPS

-----------------------------------------------------------------------------
(* The inductive invariant.                                                *)

Redeeming(c) == c.pc \in {"redeem", "logRedeem"}
Reversing(c) == c.pc \in {"autoReverse", "reverse"}
Rewarding(c) == c.pc \in {"earn", "update"}

(* GlobalIds are given out in order.                                       *)
Numbered == \E n \in Nat : DOMAIN ops = 1 .. n

(* A reverse is about a redeem, and executing it has reversed that.        *)
OpsOK ==
    \A i \in DOMAIN ops : ops[i].kind = "reverse" =>
        /\ ops[i].ref \in DOMAIN ops /\ ops[ops[i].ref].kind = "redeem"
        /\ i \in executed => ops[i].ref \in reversed

ReversedOK ==
    \A i \in reversed :
        /\ ops[i].kind = "redeem"
        /\ \E j \in DOMAIN ops : ops[j].kind = "reverse" /\ ops[j].ref = i

NetOK == \A m \in net : m.id \in DOMAIN ops

(* A call in flight waits for the operation it was sent for, and an answer *)
(* it has got is true.                                                     *)
CallOK(c) ==
    /\ Redeeming(c) => c.id \in DOMAIN ops /\ ops[c.id].kind = "redeem"
    /\ Reversing(c) => /\ c.id \in DOMAIN ops
                       /\ ops[c.id].kind = "reverse" /\ ops[c.id].ref = c.ref
    /\ Rewarding(c) => c.id \in DOMAIN ops /\ ops[c.id].kind = c.pc

ReplyOK(c) ==
    /\ c.pc \notin {"idle", "autoEarn"} /\ c.reply = "ok" => c.id \in executed
    /\ c.pc = "logRedeem" => c.id \in executed
    /\ Reversing(c) /\ c.reply = "1040" => c.ref \in reversed

Entries(q) == {q[k] : k \in DOMAIN q}

(* Nobody can ask for the reversal of a redeem before its call returns.    *)
Unknown(id) ==
    /\ \A t \in told : t.id # id
    /\ \A row \in Entries(qtx) : row.type = "redeem" => row.id # id
    /\ \A j \in DOMAIN ops : ops[j].kind = "reverse" => ops[j].ref # id

OpenOK ==
    \A r \in Requests : Redeeming(call[r]) =>
        /\ Unknown(call[r].id)
        /\ \A s \in Requests \ {r} : Redeeming(call[s]) => call[s].id # call[r].id

RowOK(row) ==
    /\ row.type = "redeem" => row.id \in DOMAIN ops /\ ops[row.id].kind = "redeem"
    /\ row.status = "success" =>
         /\ row.type \in {"redeem", "earn", "update"} => row.id \in executed
         /\ row.type = "reverse" => row.ref \in reversed

LogOK == \A row \in Entries(qtx) : RowOK(row)

ToldOK == \A t \in told : ops[t.id].kind = "redeem"

QInv == /\ TypeOK
        /\ Numbered /\ OpsOK /\ ReversedOK /\ NetOK
        /\ \A r \in Requests : CallOK(call[r]) /\ ReplyOK(call[r])
        /\ OpenOK /\ LogOK /\ ToldOK

-----------------------------------------------------------------------------
(* The log.                                                                *)

LEMMA EntryAdded ==
    ASSUME NEW q \in Seq(Rows), NEW row \in Rows
    PROVE  /\ Append(q, row) \in Seq(Rows)
           /\ Entries(Append(q, row)) = Entries(q) \cup {row}
<1>1. /\ Append(q, row) \in Seq(Rows)
      /\ DOMAIN Append(q, row) = 1 .. Len(q) + 1
      /\ DOMAIN q = 1 .. Len(q) /\ Len(q) \in Nat
      /\ \A k \in 1 .. Len(q) : Append(q, row)[k] = q[k]
      /\ Append(q, row)[Len(q) + 1] = row
  OBVIOUS
<1>2. 1 .. Len(q) + 1 = (1 .. Len(q)) \cup {Len(q) + 1}
  BY <1>1
<1>3. QED
  BY <1>1, <1>2 DEF Entries

LEMMA LoggedRows ==
    ASSUME NEW type, NEW status, NEW id
    PROVE  id \in Logged(type, status) <=>
             \E row \in Entries(qtx) : /\ row.type = type /\ row.status = status
                                      /\ row.id = id
  BY DEF Logged, Entries

(* Ids are given out one after another.                                    *)
LEMMA NextIdIsNew ==
    ASSUME Numbered
    PROVE  /\ NextId \notin DOMAIN ops
           /\ \E n \in Nat : DOMAIN ops \cup {NextId} = 1 .. n
<1>1. PICK n \in Nat : DOMAIN ops = 1 .. n
  BY DEF Numbered
<1>2. Cardinality(1 .. n) = n
  BY <1>1, FS_Interval
<1>3. NextId = n + 1
  BY <1>1, <1>2 DEF NextId
<1>4. (1 .. n) \cup {n + 1} = 1 .. n + 1
  BY <1>1
<1>5. QED
  BY <1>1, <1>3, <1>4

LEMMA IdleIsACall == Idle \in Calls
  BY QitafAssumption DEF Idle, Calls

-----------------------------------------------------------------------------
(* Steps that send nothing.                                                *)

LEMMA Settles ==
    ASSUME QInv, NEW r \in Requests, NEW c \in Calls,
           call' = [call EXCEPT ![r] = c],
           UNCHANGED <<ops, net, stc>>,
           failures' \in 0 .. MaxFailures,
           qtx' \in Seq(Rows), Entries(qtx) \subseteq Entries(qtx'),
           told \subseteq told',
           CallOK(c), ReplyOK(c),
           Redeeming(c) => /\ Redeeming(call[r]) /\ c.id = call[r].id
                           /\ UNCHANGED <<qtx, told>>,
           \A row \in Entries(qtx') \ Entries(qtx) :
               /\ RowOK(row)
               /\ row.type = "redeem" => /\ Redeeming(call[r])
                                        /\ row.id = call[r].id,
           \A t \in told' \ told :
               /\ t \in [id : DOMAIN ops, answer : Answers]
               /\ ops[t.id].kind = "redeem"
               /\ \/ Redeeming(call[r]) /\ t.id = call[r].id
                  \/ \E j \in DOMAIN ops : /\ ops[j].kind = "reverse"
                                          /\ ops[j].ref = t.id
    PROVE  QInv'
<1> DEFINE R == Entries(qtx') \ Entries(qtx)
           T == told' \ told
<1>0. Entries(qtx') = Entries(qtx) \cup R /\ told' = told \cup T
  OBVIOUS
<1> USE DEF stc
<1>1. TypeOK'
  BY DEF QInv, TypeOK
<1>2. (Numbered /\ OpsOK /\ ReversedOK /\ NetOK)'
  BY DEF QInv, Numbered, OpsOK, ReversedOK, NetOK
<1>3. ASSUME NEW s \in Requests
      PROVE  CallOK(call[s])' /\ ReplyOK(call[s])'
  <2>1. call'[s] = c \/ call'[s] = call[s]
    BY DEF QInv, TypeOK
  <2>2. CallOK(call[s]) /\ ReplyOK(call[s])
    BY DEF QInv
  <2>3. QED
    BY <2>1, <2>2 DEF CallOK, ReplyOK, Redeeming, Reversing, Rewarding
<1>4. OpenOK'
  <2>1. \A s \in Requests : Redeeming(call'[s]) => Redeeming(call[s]) /\ call'[s].id = call[s].id
    BY DEF QInv, TypeOK
  <2>2. SUFFICES ASSUME NEW s \in Requests, Redeeming(call'[s])
                 PROVE  Unknown(call[s].id)'
    BY <2>1 DEF QInv, OpenOK, Redeeming
  <2>3. Unknown(call[s].id) /\ call'[s].id = call[s].id
    BY <2>1, <2>2 DEF QInv, OpenOK
  <2>4. CASE s = r
    <3>1. call'[s] = c
      BY <2>4 DEF QInv, TypeOK
    <3>2. UNCHANGED <<qtx, told>>
      BY <3>1, <2>2
    <3>3. QED
      BY <3>2, <2>3 DEF Unknown
  <2>5. CASE s # r
    <3>1. Redeeming(call[r]) => call[s].id # call[r].id
      BY <2>1, <2>2, <2>5 DEF QInv, OpenOK
    <3>2. \A row \in R : row.type = "redeem" => row.id # call[s].id
      BY <3>1
    <3>3. \A t \in T : t.id # call[s].id
      BY <3>1, <2>3 DEF Unknown
    <3>4. QED
      BY <3>2, <3>3, <2>3, <1>0 DEF Unknown
  <2>6. QED
    BY <2>4, <2>5
<1>5. LogOK'
  <2>1. \A row \in Entries(qtx') : RowOK(row)
    BY DEF QInv, LogOK
  <2>2. QED
    BY <2>1 DEF LogOK, RowOK
<1>6. ToldOK'
  BY DEF QInv, ToldOK
<1>7. QED
  BY <1>1, <1>2, <1>3, <1>4, <1>5, <1>6 DEF QInv

-----------------------------------------------------------------------------
(* Steps that send a request.                                              *)

(* What a request is for, as the caller has it in memory.                  *)
Matches(c, kind, ref) ==
    \/ c.pc = "redeem" /\ kind = "redeem"
    \/ Rewarding(c) /\ kind = c.pc
    \/ /\ Reversing(c) /\ kind = "reverse" /\ ref = c.ref
       /\ ref \in DOMAIN ops /\ ops[ref].kind = "redeem"

(* With an id of its own.                                                  *)
LEMMA Sends ==
    ASSUME QInv, NEW r \in Requests, NEW c \in Calls,
           NEW kind \in Kinds, NEW ref \in 0 .. MaxIds, NEW first \in Ids,
           Send(r, c, kind, ref, first), c.id = NextId, c.reply = "none",
           Matches(c, kind, ref),
           Reversing(c) => \A s \in Requests \ {r} :
                              Redeeming(call[s]) => call[s].id # ref,
           UNCHANGED <<told, stc>>, failures' \in 0 .. MaxFailures,
           qtx' \in Seq(Rows), Entries(qtx) \subseteq Entries(qtx'),
           c.pc = "redeem" => UNCHANGED qtx,
           \A row \in Entries(qtx') \ Entries(qtx) :
               /\ RowOK(row)
               /\ row.type = "redeem" => /\ Redeeming(call[r])
                                        /\ row.id = call[r].id
    PROVE  QInv'
<1> USE DEF stc
<1> DEFINE D == DOMAIN ops
           op == [kind |-> kind, ref |-> ref, first |-> first]
<1>1. /\ NextId \notin D
      /\ \E n \in Nat : D \cup {NextId} = 1 .. n
  BY NextIdIsNew DEF QInv
<1>2. /\ DOMAIN ops' = D \cup {NextId} /\ ops'[NextId] = op
      /\ \A i \in D : ops'[i] = ops[i]
      /\ NextId \in Ids
      /\ call' = [call EXCEPT ![r] = c]
      /\ net' = net \cup {[id |-> NextId, attempt |-> c.attempt]}
  BY <1>1 DEF Send
<1>3. TypeOK'
  <2>1. op \in Operations
    BY DEF Operations
  <2>2. ops' \in [DOMAIN ops' -> Operations]
    BY <1>2, <2>1 DEF Send, QInv, TypeOK
  <2>3. [id |-> NextId, attempt |-> c.attempt] \in Messages
    BY <1>2 DEF Messages, Calls
  <2>4. QED
    BY <1>2, <2>2, <2>3 DEF QInv, TypeOK
<1>4. (Numbered /\ NetOK)'
  BY <1>1, <1>2 DEF QInv, Numbered, NetOK
<1>5. executed \subseteq D /\ reversed \subseteq D /\ Ids \subseteq Nat
  BY DEF QInv, TypeOK, Ids
<1>6. OpsOK'
  <2>1. ASSUME NEW i \in DOMAIN ops', ops'[i].kind = "reverse"
        PROVE  /\ ops'[i].ref \in DOMAIN ops' /\ ops'[ops'[i].ref].kind = "redeem"
               /\ i \in executed' => ops'[i].ref \in reversed'
    <3>1. CASE i \in D
      BY <3>1, <2>1, <1>1, <1>2 DEF QInv, OpsOK
    <3>2. CASE i = NextId
      <4>1. ref \in D /\ ops[ref].kind = "redeem"
        BY <3>2, <2>1, <1>2 DEF Matches, Rewarding
      <4>2. QED
        BY <3>2, <4>1, <1>1, <1>2, <1>5
    <3>3. QED
      BY <3>1, <3>2, <1>2
  <2>2. QED
    BY <2>1 DEF OpsOK
<1>7. ReversedOK'
  BY <1>2, <1>5 DEF QInv, ReversedOK
<1>8. ASSUME NEW s \in Requests
      PROVE  CallOK(call[s])' /\ ReplyOK(call[s])'
  <2>1. CASE s = r
    <3>1. call'[s] = c
      BY <2>1, <1>2 DEF QInv, TypeOK
    <3>2. QED
      BY <3>1, <1>2 DEF Matches, CallOK, ReplyOK, Redeeming, Reversing, Rewarding
  <2>2. CASE s # r
    <3>1. call'[s] = call[s] /\ CallOK(call[s]) /\ ReplyOK(call[s])
      BY <2>2, <1>2 DEF QInv, TypeOK
    <3>2. QED
      BY <3>1, <1>2 DEF CallOK, ReplyOK, Redeeming, Reversing, Rewarding
  <2>3. QED
    BY <2>1, <2>2
<1>9. OpenOK'
  <2>1. ASSUME NEW s \in Requests \ {r}, Redeeming(call[s]), NEW id, id = call[s].id
        PROVE  Unknown(id)' /\ id \in D
    <3>1. Unknown(id) /\ id \in D
      BY <2>1 DEF QInv, OpenOK, CallOK
    <3>2. Redeeming(call[r]) => call[r].id # id
      BY <2>1 DEF QInv, OpenOK
    <3>3. \A row \in Entries(qtx') \ Entries(qtx) : row.type = "redeem" => row.id # id
      BY <3>2
    <3>4. kind = "reverse" => ref # id
      BY <2>1 DEF Matches, Rewarding
    <3>5. QED
      BY <3>1, <3>3, <3>4, <1>1, <1>2 DEF Unknown
  <2>2. ASSUME Redeeming(c), NEW id, id = NextId
        PROVE  Unknown(id)'
    <3>1. c.pc = "redeem" /\ UNCHANGED qtx /\ kind = "redeem"
      BY <2>2 DEF Matches, Redeeming, Reversing, Rewarding
    <3>2. \A t \in told : t.id # id
      BY <2>2, <1>1 DEF QInv, TypeOK
    <3>3. \A row \in Entries(qtx) : row.type = "redeem" => row.id # id
      BY <2>2, <1>1 DEF QInv, LogOK, RowOK
    <3>4. \A j \in D : ops[j].kind = "reverse" => ops[j].ref # id
      BY <2>2, <1>1 DEF QInv, OpsOK
    <3>5. QED
      BY <3>1, <3>2, <3>3, <3>4, <2>2, <1>1, <1>2 DEF Unknown
  <2>3. \A s \in Requests : call'[s] = IF s = r THEN c ELSE call[s]
    BY <1>2 DEF QInv, TypeOK
  <2>4. ASSUME NEW s \in Requests, Redeeming(call'[s]), NEW id, id = call'[s].id
        PROVE  /\ Unknown(id)'
               /\ \A q \in Requests \ {s} : Redeeming(call'[q]) => call'[q].id # id
    <3>1. CASE s = r
      BY <3>1, <2>1, <2>2, <2>3, <2>4, <1>1
    <3>2. CASE s # r
      <4>1. \A q \in Requests \ {r, s} : Redeeming(call[q]) => call[q].id # id
        BY <3>2, <2>3, <2>4 DEF QInv, OpenOK
      <4>2. QED
        BY <4>1, <3>2, <2>1, <2>3, <2>4, <1>1
    <3>3. QED
      BY <3>1, <3>2
  <2>5. QED
    BY <2>4 DEF OpenOK, Unknown, Redeeming
<1>10. LogOK'
  <2>1. \A row \in Entries(qtx') : RowOK(row)
    BY DEF QInv, LogOK
  <2>2. QED
    BY <2>1, <1>2 DEF LogOK, RowOK
<1>11. ToldOK'
  BY <1>2 DEF QInv, TypeOK, ToldOK
<1>12. QED
  BY <1>3, <1>4, <1>6, <1>7, <1>8, <1>9, <1>10, <1>11 DEF QInv

(* After a timeout, with the id of the attempt before.                     *)
LEMMA Resends ==
    ASSUME QInv, NEW r \in Requests, NEW c \in Calls, NEW kind, NEW ref, NEW first,
           Send(r, c, kind, ref, first), c.id = call[r].id, c.pc = call[r].pc,
           Rewarding(c), c.reply = "none",
           UNCHANGED <<qtx, told, stc>>, failures' \in 0 .. MaxFailures
    PROVE  QInv'
<1> USE DEF stc
<1>1. CallOK(call[r]) /\ call[r].id \in DOMAIN ops /\ c.id \in Ids
  BY DEF QInv, CallOK, Send, Rewarding
<1>2. UNCHANGED ops
  <2>1. ops \in [DOMAIN ops -> Operations]
    BY DEF QInv, TypeOK
  <2>2. QED
    BY <2>1, <1>1 DEF Send
<1>3. call' = [call EXCEPT ![r] = c] /\ net' = net \cup {[id |-> c.id, attempt |-> c.attempt]}
  BY DEF Send
<1>4. TypeOK'
  <2>1. [id |-> c.id, attempt |-> c.attempt] \in Messages
    BY <1>1 DEF Messages, Calls
  <2>2. QED
    BY <1>2, <1>3, <2>1 DEF QInv, TypeOK
<1>5. (Numbered /\ OpsOK /\ ReversedOK /\ NetOK)'
  BY <1>1, <1>2, <1>3 DEF QInv, Numbered, OpsOK, ReversedOK, NetOK
<1>6. \A s \in Requests : call'[s] = IF s = r THEN c ELSE call[s]
  BY <1>3 DEF QInv, TypeOK
<1>7. ASSUME NEW s \in Requests
      PROVE  CallOK(call[s])' /\ ReplyOK(call[s])'
  <2>1. CallOK(call[s]) /\ ReplyOK(call[s])
    BY DEF QInv
  <2>2. QED
    BY <2>1, <1>1, <1>2, <1>6 DEF CallOK, ReplyOK, Redeeming, Reversing, Rewarding
<1>8. OpenOK'
  <2>1. \A s \in Requests : Redeeming(call'[s]) => s # r
    BY <1>6 DEF Redeeming, Rewarding
  <2>2. QED
    BY <2>1, <1>2, <1>6 DEF QInv, OpenOK, Unknown, Redeeming
<1>9. (LogOK /\ ToldOK)'
  BY <1>2 DEF QInv, LogOK, RowOK, ToldOK
<1>10. QED
  BY <1>4, <1>5, <1>7, <1>8, <1>9 DEF QInv

-----------------------------------------------------------------------------
(* STC answers.                                                            *)

(* What STC did with a request, and what it answers of it, agree.          *)
LEMMA ProcessAnswers ==
    ASSUME QInv, NEW m \in net, Process(m)
    PROVE  /\ m.id \in DOMAIN ops
           /\ executed \subseteq executed' /\ executed' \subseteq executed \cup {m.id}
           /\ reversed \subseteq reversed'
           /\ \A i \in reversed' \ reversed :
                /\ ops[m.id].kind = "reverse" /\ i = ops[m.id].ref /\ i \in executed
           /\ ops[m.id].kind = "reverse" /\ m.id \in executed' => ops[m.id].ref \in reversed'
           /\ \E code \in Codes :
                /\ \A r \in Requests :
                     \/ call'[r] = call[r]
                     \/ call[r].id = m.id /\ call'[r] = [call[r] EXCEPT !.reply = code]
                /\ code = "ok" => m.id \in executed'
                /\ code = "1040" => ops[m.id].kind = "reverse" /\ ops[m.id].ref \in reversed'
           /\ net' = net \ {m} /\ UNCHANGED <<qtx, told, failures, ops>>
           /\ call' \in [Requests -> Calls]
<1> USE DEF stc
<1> DEFINE id == m.id
           Reply(code) == call' = [r \in Requests |->
                           IF r \in {q \in InFlight : /\ call[q].id = m.id
                                                      /\ call[q].attempt = m.attempt}
                           THEN [call[r] EXCEPT !.reply = code]
                           ELSE call[r]]
<1>1. id \in DOMAIN ops /\ (ops[id].kind = "reverse" /\ id \in executed => ops[id].ref \in reversed)
  BY DEF QInv, NetOK, OpsOK
<1>2. ASSUME NEW code \in Codes, Reply(code)
      PROVE  /\ \A r \in Requests :
                     \/ call'[r] = call[r]
                     \/ call[r].id = id /\ call'[r] = [call[r] EXCEPT !.reply = code]
             /\ call' \in [Requests -> Calls]
  <2>1. call \in [Requests -> Calls]
    BY DEF QInv, TypeOK
  <2>2. \A d \in Calls : [d EXCEPT !.reply = code] \in Calls
    BY DEF Calls
  <2>3. QED
    BY <1>2, <2>1, <2>2
<1>3. net' = net \ {m} /\ UNCHANGED <<qtx, told, failures, ops>>
  BY DEF Process
<1>4. \/ id \in executed /\ Reply("ok") /\ UNCHANGED stc
      \/ /\ id \notin executed /\ ops[id].kind # "reverse"
         /\ executed' = executed \cup {id} /\ UNCHANGED reversed
         /\ Reply("ok") \/ Reply("critical")
      \/ /\ id \notin executed
         /\ Reply("critical") \/ Reply("refused") \/ Reply("2311")
         /\ UNCHANGED stc
      \/ /\ id \notin executed /\ ops[id].kind = "reverse"
         /\ ops[id].ref \in executed \ reversed
         /\ executed' = executed \cup {id}
         /\ reversed' = reversed \cup {ops[id].ref} /\ Reply("ok")
      \/ /\ id \notin executed /\ ops[id].kind = "reverse"
         /\ ops[id].ref \in reversed /\ Reply("1040") /\ UNCHANGED stc
  BY DEF Process
<1>5. {"ok", "critical", "refused", "2311", "1040"} \subseteq Codes
  BY DEF Codes
<1>6. CASE id \in executed /\ Reply("ok") /\ UNCHANGED stc
  BY <1>1, <1>2, <1>3, <1>5, <1>6
<1>7. CASE /\ id \notin executed /\ ops[id].kind # "reverse"
           /\ executed' = executed \cup {id} /\ UNCHANGED reversed
           /\ Reply("ok") \/ Reply("critical")
  BY <1>1, <1>2, <1>3, <1>5, <1>7
<1>8. CASE /\ id \notin executed
           /\ Reply("critical") \/ Reply("refused") \/ Reply("2311")
           /\ UNCHANGED stc
  BY <1>1, <1>2, <1>3, <1>5, <1>8
<1>9. CASE /\ id \notin executed /\ ops[id].kind = "reverse"
           /\ ops[id].ref \in executed \ reversed
           /\ executed' = executed \cup {id}
           /\ reversed' = reversed \cup {ops[id].ref} /\ Reply("ok")
  BY <1>1, <1>2, <1>3, <1>5, <1>9
<1>10. CASE /\ id \notin executed /\ ops[id].kind = "reverse"
            /\ ops[id].ref \in reversed /\ Reply("1040") /\ UNCHANGED stc
  BY <1>1, <1>2, <1>3, <1>5, <1>10
<1>11. QED
  BY <1>4, <1>6, <1>7, <1>8, <1>9, <1>10

LEMMA ProcessKeeps ==
    ASSUME QInv, NEW m \in net, Process(m)
    PROVE  QInv'
<1>1. PICK code \in Codes :
        /\ \A r \in Requests :
             \/ call'[r] = call[r]
             \/ call[r].id = m.id /\ call'[r] = [call[r] EXCEPT !.reply = code]
        /\ code = "ok" => m.id \in executed'
        /\ code = "1040" => ops[m.id].kind = "reverse" /\ ops[m.id].ref \in reversed'
  BY ProcessAnswers
<1>2. /\ m.id \in DOMAIN ops
      /\ executed \subseteq executed' /\ executed' \subseteq executed \cup {m.id}
      /\ reversed \subseteq reversed'
      /\ \A i \in reversed' \ reversed :
           /\ ops[m.id].kind = "reverse" /\ i = ops[m.id].ref /\ i \in executed
      /\ ops[m.id].kind = "reverse" /\ m.id \in executed' => ops[m.id].ref \in reversed'
      /\ net' = net \ {m} /\ UNCHANGED <<qtx, told, failures, ops>>
      /\ call' \in [Requests -> Calls]
  BY ProcessAnswers
<1>3. TypeOK'
  BY <1>2 DEF QInv, TypeOK
<1>4. (Numbered /\ NetOK /\ OpsOK)'
  BY <1>2 DEF QInv, Numbered, NetOK, OpsOK
<1>5. ReversedOK'
  <2>1. ASSUME NEW i \in reversed'
        PROVE  /\ ops[i].kind = "redeem"
               /\ \E j \in DOMAIN ops : ops[j].kind = "reverse" /\ ops[j].ref = i
    BY <1>2 DEF QInv, OpsOK, ReversedOK
  <2>2. QED
    BY <2>1, <1>2 DEF ReversedOK
<1>6. ASSUME NEW r \in Requests
      PROVE  /\ call'[r].pc = call[r].pc /\ call'[r].id = call[r].id
             /\ call'[r].ref = call[r].ref
             /\ \/ call'[r].reply = call[r].reply
                \/ call[r].id = m.id /\ call'[r].reply = code
  <2>1. call[r] \in Calls
    BY DEF QInv, TypeOK
  <2>2. QED
    BY <2>1, <1>1 DEF Calls
<1>7. ASSUME NEW r \in Requests
      PROVE  CallOK(call[r])' /\ ReplyOK(call[r])'
  <2>1. CallOK(call[r]) /\ ReplyOK(call[r])
    BY DEF QInv
  <2>2. CallOK(call[r])'
    BY <2>1, <1>2, <1>6 DEF CallOK, Redeeming, Reversing, Rewarding
  <2>3. ReplyOK(call[r])'
    BY <2>1, <1>1, <1>2, <1>6 DEF CallOK, ReplyOK, Reversing
  <2>4. QED
    BY <2>2, <2>3
<1>8. OpenOK'
  BY <1>2, <1>6 DEF QInv, OpenOK, Unknown, Redeeming
<1>9. (LogOK /\ ToldOK)'
  BY <1>2 DEF QInv, LogOK, RowOK, ToldOK
<1>10. QED
  BY <1>3, <1>4, <1>5, <1>7, <1>8, <1>9 DEF QInv

-----------------------------------------------------------------------------
(* The steps of redeemPoints and of the reversals.                         *)

LEMMA OutcomeKnown ==
    ASSUME QInv, NEW r \in Requests, NEW outcome, Outcome(r, outcome)
    PROVE  /\ failures' \in 0 .. MaxFailures
           /\ outcome \in Codes => call[r].reply = outcome
  BY QitafAssumption DEF QInv, TypeOK, Outcome, Codes

(* The two ways a call settles with a row and an answer.                   *)
LEMMA RowsAreRows ==
    ASSUME QInv, NEW r \in Requests, NEW type \in Kinds,
           NEW status \in {"success", "failed", "auto_reversed"},
           NEW invoice \in {call[r].invoice, NoInvoice},
           NEW id \in {call[r].id}, NEW ref \in {0, call[r].ref},
           Log(type, id, ref, status, invoice)
    PROVE  LET row == [type |-> type, id |-> id, ref |-> ref,
                       status |-> status, invoice |-> invoice]
           IN  /\ row \in Rows
               /\ qtx' \in Seq(Rows) /\ Entries(qtx') = Entries(qtx) \cup {row}
<1> DEFINE row == [type |-> type, id |-> id, ref |-> ref,
                   status |-> status, invoice |-> invoice]
<1>1. call[r] \in Calls /\ MaxIds \in Nat
  BY QitafAssumption DEF QInv, TypeOK
<1>2. row \in Rows
  BY <1>1 DEF Rows, Calls
<1>3. qtx \in Seq(Rows) /\ qtx' = Append(qtx, row)
  BY DEF QInv, TypeOK, Log
<1>4. QED
  BY <1>2, <1>3, EntryAdded

LEMMA IdleIsOK == CallOK(Idle) /\ ReplyOK(Idle) /\ ~Redeeming(Idle)
  BY DEF Idle, CallOK, ReplyOK, Redeeming, Reversing, Rewarding

LEMMA RedeemSucceedsKeeps ==
    ASSUME QInv, NEW r \in Requests, RedeemSucceeds(r)
    PROVE  QInv'
<1> DEFINE c == [call[r] EXCEPT !.pc = "logRedeem"]
<1>1. PICK outcome \in Outcomes : Outcome(r, outcome) /\ Succeeds(outcome)
  BY DEF RedeemSucceeds
<1>2. call[r].reply = "ok" /\ failures' \in 0 .. MaxFailures
  BY <1>1, OutcomeKnown DEF Succeeds, Codes
<1>3. call[r] \in Calls /\ CallOK(call[r]) /\ ReplyOK(call[r]) /\ call[r].pc = "redeem"
  BY DEF QInv, TypeOK, RedeemSucceeds, At
<1>4. c \in Calls /\ CallOK(c) /\ ReplyOK(c) /\ c.id = call[r].id /\ Redeeming(call[r])
  BY <1>2, <1>3 DEF Calls, Steps, CallOK, ReplyOK, Redeeming, Reversing, Rewarding
<1>5. call' = [call EXCEPT ![r] = c] /\ UNCHANGED <<qtx, told, ops, net, stc>>
  BY DEF RedeemSucceeds
<1>6. qtx \in Seq(Rows)
  BY DEF QInv, TypeOK
<1> HIDE DEF c
<1>7. QED
  BY <1>2, <1>4, <1>5, <1>6, Settles

LEMMA RedeemLoggedKeeps ==
    ASSUME QInv, NEW r \in Requests, RedeemLogged(r)
    PROVE  QInv'
<1> DEFINE c == IF call[r].checkout THEN [Idle EXCEPT !.pc = "autoEarn"] ELSE Idle
           row == [type |-> "redeem", id |-> call[r].id, ref |-> 0,
                   status |-> "success", invoice |-> call[r].invoice]
           t == [id |-> call[r].id, answer |-> "redeemed"]
<1>1. call[r] \in Calls /\ CallOK(call[r]) /\ ReplyOK(call[r]) /\ call[r].pc = "logRedeem"
  BY DEF QInv, TypeOK, RedeemLogged, At
<1>2. /\ Redeeming(call[r]) /\ call[r].id \in DOMAIN ops
      /\ ops[call[r].id].kind = "redeem" /\ call[r].id \in executed
  BY <1>1 DEF CallOK, ReplyOK, Redeeming
<1>3. c \in Calls /\ CallOK(c) /\ ReplyOK(c) /\ ~Redeeming(c)
  <2>1. [Idle EXCEPT !.pc = "autoEarn"] \in Calls
    BY IdleIsACall DEF Calls, Steps
  <2>2. c.pc \in {"idle", "autoEarn"}
    BY DEF Idle
  <2>3. QED
    BY <2>1, <2>2, IdleIsACall DEF CallOK, ReplyOK, Redeeming, Reversing, Rewarding
<1>4. call' = [call EXCEPT ![r] = c] /\ UNCHANGED <<ops, net, stc, failures>>
      /\ told' = told \cup {t}
  BY DEF RedeemLogged, Tell, Return
<1>5. qtx' \in Seq(Rows) /\ Entries(qtx') = Entries(qtx) \cup {row}
  BY RowsAreRows DEF RedeemLogged, Kinds
<1>6. RowOK(row) /\ row.id = call[r].id
  BY <1>2 DEF RowOK
<1>7. t \in [id : DOMAIN ops, answer : Answers] /\ t.id = call[r].id
  BY <1>2 DEF Answers
<1>8. failures' \in 0 .. MaxFailures
  BY <1>4 DEF QInv, TypeOK
<1> HIDE DEF c, row, t
<1>9. QED
  BY <1>2, <1>3, <1>4, <1>5, <1>6, <1>7, <1>8, Settles

LEMMA RedeemNotLoggedKeeps ==
    ASSUME QInv, NEW r \in Requests, RedeemNotLogged(r) \/ RedeemFails(r)
    PROVE  QInv'
<1> DEFINE row == [type |-> "redeem", id |-> call[r].id, ref |-> 0,
                   status |-> "failed", invoice |-> call[r].invoice]
           t == [id |-> call[r].id, answer |-> "failed"]
<1>1. call[r] \in Calls /\ CallOK(call[r]) /\ Redeeming(call[r])
  BY DEF QInv, TypeOK, RedeemNotLogged, RedeemFails, At, Redeeming
<1>2. call[r].id \in DOMAIN ops /\ ops[call[r].id].kind = "redeem"
  BY <1>1 DEF CallOK
<1>3. call' = [call EXCEPT ![r] = Idle] /\ UNCHANGED <<ops, net, stc>>
      /\ told' = told \cup {t}
  BY DEF RedeemNotLogged, RedeemFails, Tell, Return
<1>4. failures' \in 0 .. MaxFailures
  BY QitafAssumption, OutcomeKnown DEF RedeemNotLogged, RedeemFails, QInv, TypeOK
<1>5. qtx' \in Seq(Rows) /\ Entries(qtx') = Entries(qtx) \cup {row}
  BY RowsAreRows DEF RedeemNotLogged, RedeemFails, Kinds
<1>6. RowOK(row) /\ row.id = call[r].id
  BY <1>2 DEF RowOK
<1>7. t \in [id : DOMAIN ops, answer : Answers] /\ t.id = call[r].id
  BY <1>2 DEF Answers
<1> HIDE DEF row, t
<1>8. QED
  BY <1>1, <1>2, <1>3, <1>4, <1>5, <1>6, <1>7, Settles, IdleIsACall, IdleIsOK

LEMMA ReversedKeeps ==
    ASSUME QInv, NEW r \in Requests, Reversed(r)
    PROVE  QInv'
<1>1. PICK outcome \in Outcomes :
        /\ Outcome(r, outcome)
        /\ Log("reverse", call[r].id, call[r].ref,
               IF ReverseSucceeds(outcome) THEN "success" ELSE "failed",
               NoInvoice)
  BY DEF Reversed
<1> DEFINE status == IF ReverseSucceeds(outcome) THEN "success" ELSE "failed"
           row == [type |-> "reverse", id |-> call[r].id, ref |-> call[r].ref,
                   status |-> status, invoice |-> NoInvoice]
           answer == IF At(r, "autoReverse") THEN "automatically reversed"
                                             ELSE "reversed"
           t == [id |-> call[r].ref, answer |-> answer]
<1>2. call[r] \in Calls /\ CallOK(call[r]) /\ ReplyOK(call[r]) /\ Reversing(call[r])
  BY DEF QInv, TypeOK, Reversed, At, Reversing
<1>3. /\ call[r].id \in DOMAIN ops /\ ops[call[r].id].kind = "reverse"
      /\ ops[call[r].id].ref = call[r].ref
      /\ call[r].ref \in DOMAIN ops /\ ops[call[r].ref].kind = "redeem"
  BY <1>2 DEF QInv, OpsOK, CallOK
<1>4. call' = [call EXCEPT ![r] = Idle] /\ UNCHANGED <<ops, net, stc>>
      /\ told' = told \cup {t}
  BY DEF Reversed, Tell, Return
<1>5. failures' \in 0 .. MaxFailures /\ (outcome \in Codes => call[r].reply = outcome)
  BY <1>1, OutcomeKnown
<1>6. qtx' \in Seq(Rows) /\ Entries(qtx') = Entries(qtx) \cup {row}
  BY <1>1, RowsAreRows DEF Kinds
<1>7. status = "success" => call[r].ref \in reversed
  <2>1. SUFFICES ASSUME ReverseSucceeds(outcome)
                 PROVE  call[r].ref \in reversed
    OBVIOUS
  <2>2. call[r].reply \in {"ok", "1040"}
    BY <2>1, <1>5 DEF ReverseSucceeds, Codes
  <2>3. QED
    BY <2>2, <1>2, <1>3 DEF ReplyOK, QInv, OpsOK, Reversing
<1>8. RowOK(row) /\ row.type = "reverse"
  BY <1>7 DEF RowOK
<1>9. t \in [id : DOMAIN ops, answer : Answers] /\ t.id = call[r].ref
  BY <1>3 DEF Answers
<1> HIDE DEF row, t
<1>10. QED
  BY <1>3, <1>4, <1>5, <1>6, <1>8, <1>9, Settles, IdleIsACall, IdleIsOK

LEMMA NoAutoEarnKeeps ==
    ASSUME QInv, NEW r \in Requests, NoAutoEarn(r)
    PROVE  QInv'
<1>1. call' = [call EXCEPT ![r] = Idle] /\ UNCHANGED <<qtx, told, failures, ops, net, stc>>
  BY DEF NoAutoEarn, Return
<1>2. qtx \in Seq(Rows) /\ failures \in 0 .. MaxFailures
  BY DEF QInv, TypeOK
<1>3. QED
  BY <1>1, <1>2, Settles, IdleIsACall, IdleIsOK

LEMMA RewardReturnsKeeps ==
    ASSUME QInv, NEW r \in Requests, RewardReturns(r)
    PROVE  QInv'
<1>1. PICK outcome \in Outcomes :
        /\ Outcome(r, outcome)
        /\ Log(call[r].pc, call[r].id, call[r].ref,
               IF Succeeds(outcome) THEN "success" ELSE "failed", NoInvoice)
  BY DEF RewardReturns
<1> DEFINE status == IF Succeeds(outcome) THEN "success" ELSE "failed"
           row == [type |-> call[r].pc, id |-> call[r].id, ref |-> call[r].ref,
                   status |-> status, invoice |-> NoInvoice]
<1>2. call[r] \in Calls /\ ReplyOK(call[r]) /\ call[r].pc \in {"earn", "update"}
  BY DEF QInv, TypeOK, RewardReturns, At
<1>3. call' = [call EXCEPT ![r] = Idle] /\ UNCHANGED <<told, ops, net, stc>>
  BY DEF RewardReturns, Return
<1>4. failures' \in 0 .. MaxFailures /\ (outcome \in Codes => call[r].reply = outcome)
  BY <1>1, OutcomeKnown
<1>5. qtx' \in Seq(Rows) /\ Entries(qtx') = Entries(qtx) \cup {row}
  <2>1. PICK type \in {"earn", "update"} : call[r].pc = type
    BY <1>2
  <2>2. status \in {"success", "failed", "auto_reversed"} /\ type \in Kinds
    BY DEF Kinds
  <2>3. Log(type, call[r].id, call[r].ref, status, NoInvoice)
    BY <1>1, <2>1
  <2> HIDE DEF status
  <2>4. QED
    BY <2>1, <2>2, <2>3, RowsAreRows
<1>6. status = "success" => call[r].id \in executed
  BY <1>2, <1>4 DEF Succeeds, Codes, ReplyOK
<1>7. RowOK(row) /\ row.type # "redeem"
  BY <1>2, <1>6 DEF RowOK
<1> HIDE DEF row
<1>8. QED
  BY <1>3, <1>4, <1>5, <1>7, Settles, IdleIsACall, IdleIsOK

-----------------------------------------------------------------------------
(* The steps that send a request to STC.                                   *)

LEMMA RowsInLog ==
    ASSUME QInv, NEW i \in DOMAIN qtx
    PROVE  qtx[i].invoice \in Invoices \cup {NoInvoice} /\ qtx[i].id \in 0 .. MaxIds
<1>1. qtx \in Seq(Rows)
  BY DEF QInv, TypeOK
<1>2. qtx[i] \in Rows
  BY <1>1
<1>3. QED
  BY <1>2 DEF Rows

LEMMA CallStarts ==
    ASSUME NEW pc \in Steps, NEW id \in Ids, NEW ref \in 0 .. MaxIds,
           NEW invoice \in Invoices \cup {NoInvoice}, NEW checkout \in BOOLEAN
    PROVE  /\ [Idle EXCEPT !.pc = pc, !.id = id] \in Calls
           /\ [Idle EXCEPT !.pc = pc, !.id = id, !.ref = ref] \in Calls
           /\ [Idle EXCEPT !.pc = pc, !.id = id,
                           !.checkout = checkout, !.invoice = invoice] \in Calls
<1>1. id \in 0 .. MaxIds
  BY QitafAssumption DEF Ids
<1>2. QED
  BY <1>1, IdleIsACall DEF Calls

LEMMA CallContinues ==
    ASSUME NEW d \in Calls, NEW id \in Ids, NEW ref \in 0 .. MaxIds
    PROVE  /\ [d EXCEPT !.pc = "autoReverse", !.id = id, !.ref = ref,
                        !.reply = "none"] \in Calls
           /\ d.attempt + 1 \in 1 .. UpdateMaxRetries =>
                [d EXCEPT !.id = id, !.attempt = @ + 1, !.reply = "none"] \in Calls
<1>1. id \in 0 .. MaxIds /\ "autoReverse" \in Steps
  BY QitafAssumption DEF Ids, Steps
<1>2. QED
  BY <1>1 DEF Calls

LEMMA RedeemKeeps ==
    ASSUME QInv, NEW r \in Requests, Redeem(r)
    PROVE  QInv'
<1>1. PICK invoice \in Invoices \cup {NoInvoice}, checkout \in BOOLEAN :
        Send(r, [Idle EXCEPT !.pc = "redeem", !.id = NextId,
                             !.checkout = checkout, !.invoice = invoice],
             "redeem", 0, NextId)
  <2>1. PICK c \in {[Idle EXCEPT !.pc = "redeem", !.id = NextId]} \cup
                {[Idle EXCEPT !.pc = "redeem", !.id = NextId,
                    !.checkout = TRUE, !.invoice = qtx[i].invoice]
                   : i \in {j \in DOMAIN qtx : qtx[j].type = "otp"}} :
          Send(r, c, "redeem", 0, NextId)
    BY DEF Redeem
  <2>2. CASE c = [Idle EXCEPT !.pc = "redeem", !.id = NextId]
    <3>1. c = [Idle EXCEPT !.pc = "redeem", !.id = NextId,
                           !.checkout = FALSE, !.invoice = NoInvoice]
      BY <2>2 DEF Idle
    <3>2. QED
      BY <3>1, <2>1
  <2>3. CASE \E i \in DOMAIN qtx :
               c = [Idle EXCEPT !.pc = "redeem", !.id = NextId,
                                !.checkout = TRUE, !.invoice = qtx[i].invoice]
    <3>1. PICK i \in DOMAIN qtx :
               c = [Idle EXCEPT !.pc = "redeem", !.id = NextId,
                                !.checkout = TRUE, !.invoice = qtx[i].invoice]
      BY <2>3
    <3>2. qtx[i].invoice \in Invoices \cup {NoInvoice}
      BY RowsInLog
    <3>3. QED
      BY <3>1, <3>2, <2>1
  <2>4. QED
    BY <2>1, <2>2, <2>3
<1> DEFINE c == [Idle EXCEPT !.pc = "redeem", !.id = NextId,
                             !.checkout = checkout, !.invoice = invoice]
<1>2. c.id = NextId /\ c.reply = "none" /\ c.pc = "redeem"
  BY DEF Idle
<1>3. NextId \in Ids
  BY <1>1, <1>2 DEF Send
<1>4. c \in Calls
  <2>1. 0 \in 0 .. MaxIds
    BY QitafAssumption
  <2>2. QED
    BY <1>1, <1>3, <2>1, CallStarts DEF Steps
<1>5. Matches(c, "redeem", 0) /\ ~Reversing(c)
  BY <1>2 DEF Matches, Reversing
<1>6. UNCHANGED <<qtx, told, failures, stc>>
  BY DEF Redeem
<1>7. qtx \in Seq(Rows) /\ failures \in 0 .. MaxFailures
  BY DEF QInv, TypeOK
<1>8. 0 \in 0 .. MaxIds /\ "redeem" \in Kinds
  BY QitafAssumption DEF Kinds
<1>9. Send(r, c, "redeem", 0, NextId)
  BY <1>1
<1> HIDE DEF c
<1>10. QED
  BY <1>2, <1>3, <1>4, <1>5, <1>6, <1>7, <1>8, <1>9, Sends

LEMMA RedeemReversesKeeps ==
    ASSUME QInv, NEW r \in Requests, RedeemReverses(r)
    PROVE  QInv'
<1> DEFINE c == [call[r] EXCEPT !.pc = "autoReverse", !.id = NextId,
                                !.ref = call[r].id, !.reply = "none"]
           row == [type |-> "redeem", id |-> call[r].id, ref |-> 0,
                   status |-> "auto_reversed", invoice |-> call[r].invoice]
<1>1. call[r] \in Calls /\ CallOK(call[r]) /\ Redeeming(call[r])
  BY DEF QInv, TypeOK, RedeemReverses, At, Redeeming
<1>2. call[r].id \in DOMAIN ops /\ ops[call[r].id].kind = "redeem"
  BY <1>1 DEF CallOK
<1>3. Send(r, c, "reverse", call[r].id, NextId) /\ UNCHANGED <<told, stc>>
  BY DEF RedeemReverses
<1>4. /\ c.id = NextId /\ c.reply = "none" /\ c.pc = "autoReverse"
      /\ c.ref = call[r].id
  BY <1>1 DEF Calls
<1>5. NextId \in Ids
  BY <1>3, <1>4 DEF Send
<1>6. call[r].id \in 0 .. MaxIds /\ "reverse" \in Kinds
  BY <1>1 DEF Calls, Kinds
<1>7. c \in Calls
  BY <1>1, <1>5, <1>6, CallContinues
<1>8. Matches(c, "reverse", call[r].id)
  BY <1>2, <1>4 DEF Matches, Reversing
<1>9. \A s \in Requests \ {r} : Redeeming(call[s]) => call[s].id # call[r].id
  BY <1>1 DEF QInv, OpenOK
<1>10. failures' \in 0 .. MaxFailures
  BY OutcomeKnown DEF RedeemReverses
<1>11. qtx' \in Seq(Rows) /\ Entries(qtx') = Entries(qtx) \cup {row}
  BY RowsAreRows DEF RedeemReverses, Kinds
<1>12. RowOK(row) /\ row.id = call[r].id
  BY <1>2 DEF RowOK
<1> HIDE DEF c, row
<1>13. QED
  BY <1>1, <1>3, <1>4, <1>5, <1>6, <1>7, <1>8, <1>9, <1>10, <1>11, <1>12, Sends

(* A redeem whose call has returned can be reversed.                       *)
LEMMA StartReverseKeeps ==
    ASSUME QInv, NEW r \in Requests, NEW id \in DOMAIN ops, StartReverse(r, id),
           ops[id].kind = "redeem",
           \A s \in Requests : Redeeming(call[s]) => call[s].id # id
    PROVE  QInv'
<1> DEFINE c == [Idle EXCEPT !.pc = "reverse", !.id = NextId, !.ref = id]
<1>1. Send(r, c, "reverse", id, NextId) /\ UNCHANGED <<qtx, told, failures, stc>>
  BY DEF StartReverse
<1>2. c.id = NextId /\ c.reply = "none" /\ c.pc = "reverse" /\ c.ref = id
  BY DEF Idle
<1>3. NextId \in Ids
  BY <1>1, <1>2 DEF Send
<1>4. id \in 0 .. MaxIds /\ "reverse" \in Kinds
  BY DEF QInv, TypeOK, Ids, Kinds
<1>5. c \in Calls
  BY <1>3, <1>4, CallStarts DEF Steps
<1>6. Matches(c, "reverse", id)
  BY <1>2 DEF Matches, Reversing
<1>7. qtx \in Seq(Rows) /\ failures \in 0 .. MaxFailures
  BY DEF QInv, TypeOK
<1> HIDE DEF c
<1>8. QED
  BY <1>1, <1>2, <1>3, <1>4, <1>5, <1>6, <1>7, Sends

LEMMA ReverseRedeemKeeps ==
    ASSUME QInv, NEW r \in Requests,
           ReverseRedeem(r) \/ ReverseRedeemByMsisdn(r) \/ Refund(r)
    PROVE  QInv'
<1>1. CASE ReverseRedeem(r)
  <2>1. PICK t \in told : StartReverse(r, t.id)
    BY <1>1 DEF ReverseRedeem
  <2>2. t.id \in DOMAIN ops /\ ops[t.id].kind = "redeem"
    BY DEF QInv, TypeOK, ToldOK
  <2>3. \A s \in Requests : Redeeming(call[s]) => call[s].id # t.id
    BY DEF QInv, OpenOK, Unknown
  <2>4. QED
    BY <2>1, <2>2, <2>3, StartReverseKeeps
<1>2. CASE ReverseRedeemByMsisdn(r) \/ Refund(r)
  <2>1. PICK i \in RedeemRows : StartReverse(r, qtx[i].id)
    BY <1>2 DEF ReverseRedeemByMsisdn, Refund, Latest
  <2>2. qtx[i] \in Entries(qtx) /\ qtx[i].type = "redeem"
    BY DEF RedeemRows, Entries
  <2>3. qtx[i].id \in DOMAIN ops /\ ops[qtx[i].id].kind = "redeem"
    BY <2>2 DEF QInv, LogOK, RowOK
  <2>4. \A s \in Requests : Redeeming(call[s]) => call[s].id # qtx[i].id
    BY <2>2 DEF QInv, OpenOK, Unknown
  <2>5. QED
    BY <2>1, <2>3, <2>4, StartReverseKeeps
<1>3. QED
  BY <1>1, <1>2

LEMMA EarnRewardKeeps ==
    ASSUME QInv, NEW r \in Requests, EarnReward(r) \/ TryAutoEarn(r)
    PROVE  QInv'
<1> DEFINE c == [Idle EXCEPT !.pc = "earn", !.id = NextId]
<1>1. Send(r, c, "earn", 0, NextId) /\ UNCHANGED <<qtx, told, failures, stc>>
  BY DEF EarnReward, TryAutoEarn
<1>2. c.id = NextId /\ c.reply = "none" /\ c.pc = "earn"
  BY DEF Idle
<1>3. NextId \in Ids
  BY <1>1, <1>2 DEF Send
<1>4. c \in Calls
  <2>1. 0 \in 0 .. MaxIds
    BY QitafAssumption
  <2>2. QED
    BY <1>1, <1>3, <2>1, CallStarts DEF Steps
<1>8. 0 \in 0 .. MaxIds /\ "earn" \in Kinds
  BY QitafAssumption DEF Kinds
<1>5. Matches(c, "earn", 0) /\ ~Reversing(c)
  BY <1>2 DEF Matches, Rewarding, Reversing
<1>6. qtx \in Seq(Rows) /\ failures \in 0 .. MaxFailures
  BY DEF QInv, TypeOK
<1> HIDE DEF c
<1>7. QED
  BY <1>1, <1>2, <1>3, <1>4, <1>5, <1>6, <1>8, Sends

LEMMA UpdateRewardKeeps ==
    ASSUME QInv, NEW r \in Requests, UpdateReward(r)
    PROVE  QInv'
<1>1. PICK i \in DOMAIN qtx :
         Send(r, [Idle EXCEPT !.pc = "update", !.id = NextId,
                              !.ref = qtx[i].id],
              "update", qtx[i].id, NextId)
  BY DEF UpdateReward
<1> DEFINE c == [Idle EXCEPT !.pc = "update", !.id = NextId, !.ref = qtx[i].id]
<1>2. UNCHANGED <<qtx, told, failures, stc>>
  BY DEF UpdateReward
<1>3. c.id = NextId /\ c.reply = "none" /\ c.pc = "update"
  BY DEF Idle
<1>4. NextId \in Ids
  BY <1>1, <1>3 DEF Send
<1>5. qtx[i].id \in 0 .. MaxIds /\ "update" \in Kinds
  BY RowsInLog DEF Kinds
<1>6. c \in Calls
  BY <1>4, <1>5, CallStarts DEF Steps
<1>7. Matches(c, "update", qtx[i].id) /\ ~Reversing(c)
  BY <1>3 DEF Matches, Rewarding, Reversing
<1>8. qtx \in Seq(Rows) /\ failures \in 0 .. MaxFailures
  BY DEF QInv, TypeOK
<1>9. Send(r, c, "update", qtx[i].id, NextId)
  BY <1>1
<1> HIDE DEF c
<1>10. QED
  BY <1>2, <1>3, <1>4, <1>5, <1>6, <1>7, <1>8, <1>9, Sends

LEMMA RewardRetriesKeeps ==
    ASSUME QInv, NEW r \in Requests, RewardRetries(r)
    PROVE  QInv'
<1>1. PICK outcome \in Outcomes :
        /\ Outcome(r, outcome) /\ Retriable(outcome)
        /\ Send(r, [call[r] EXCEPT !.id = RetryId(call[r].id, outcome),
                                   !.attempt = @ + 1, !.reply = "none"],
                call[r].pc, call[r].ref, ops[call[r].id].first)
  BY DEF RewardRetries
<1> DEFINE c == [call[r] EXCEPT !.id = RetryId(call[r].id, outcome),
                                !.attempt = @ + 1, !.reply = "none"]
<1>2. call[r] \in Calls /\ CallOK(call[r]) /\ Rewarding(call[r])
  BY DEF QInv, TypeOK, RewardRetries, At, Rewarding
<1>3. call[r].attempt + 1 \in 1 .. UpdateMaxRetries
  BY <1>2, QitafAssumption DEF RewardRetries, MaxAttempts, Calls
<1>4. /\ c.id = RetryId(call[r].id, outcome) /\ c.reply = "none"
      /\ c.pc = call[r].pc /\ Rewarding(c) /\ ~Reversing(c)
  BY <1>2 DEF Calls, Rewarding, Reversing
<1>5. c.id \in Ids
  BY <1>1 DEF Send
<1>6. c \in Calls
  BY <1>2, <1>3, <1>4, <1>5, CallContinues DEF Calls
<1>7. UNCHANGED <<qtx, told, stc>> /\ failures' \in 0 .. MaxFailures
  BY <1>1, OutcomeKnown DEF RewardRetries
<1>8. Send(r, c, call[r].pc, call[r].ref, ops[call[r].id].first)
  BY <1>1
<1>9. CASE outcome = "timeout"
  <2>1. c.id = call[r].id
    BY <1>4, <1>9 DEF RetryId
  <2> HIDE DEF c
  <2>2. QED
    BY <2>1, <1>4, <1>6, <1>7, <1>8, Resends
<1>10. CASE outcome # "timeout"
  <2>1. c.id = NextId
    BY <1>4, <1>10 DEF RetryId
  <2>2. call[r].pc \in Kinds /\ call[r].ref \in 0 .. MaxIds
    BY <1>2 DEF Rewarding, Kinds, Calls
  <2>3. ops[call[r].id].first \in Ids
    BY <1>2 DEF CallOK, QInv, TypeOK, Operations
  <2>4. Matches(c, call[r].pc, call[r].ref)
    BY <1>4 DEF Matches
  <2>5. qtx \in Seq(Rows)
    BY DEF QInv, TypeOK
  <2>6. c.pc # "redeem"
    BY <1>4 DEF Rewarding
  <2> HIDE DEF c
  <2>7. QED
    BY <2>1, <2>2, <2>3, <2>4, <2>5, <2>6, <1>4, <1>6, <1>7, <1>8, Sends
<1>11. QED
  BY <1>9, <1>10

-----------------------------------------------------------------------------
(* A PIN is sent, and the process dies.                                    *)

LEMMA RequestOtpKeeps ==
    ASSUME QInv, RequestOtp
    PROVE  QInv'
<1> USE DEF stc
<1>1. PICK invoice \in Invoices : Log("otp", 0, 0, "success", invoice)
  BY DEF RequestOtp
<1> DEFINE row == [type |-> "otp", id |-> 0, ref |-> 0, status |-> "success",
                   invoice |-> invoice]
<1>2. row \in Rows
  BY QitafAssumption DEF Rows
<1>3. qtx \in Seq(Rows) /\ qtx' = Append(qtx, row)
  BY <1>1 DEF Log, QInv, TypeOK
<1>4. qtx' \in Seq(Rows) /\ Entries(qtx') = Entries(qtx) \cup {row}
  BY <1>2, <1>3, EntryAdded
<1>5. UNCHANGED <<call, told, failures, ops, net, stc>>
  BY DEF RequestOtp
<1>6. (TypeOK /\ Numbered /\ OpsOK /\ ReversedOK /\ NetOK /\ ToldOK)'
  BY <1>4, <1>5 DEF QInv, TypeOK, Numbered, OpsOK, ReversedOK, NetOK, ToldOK
<1>7. (\A r \in Requests : CallOK(call[r]) /\ ReplyOK(call[r]))'
  BY <1>5 DEF QInv, CallOK, ReplyOK
<1>8. OpenOK'
  BY <1>4, <1>5 DEF QInv, OpenOK, Unknown
<1>9. LogOK'
  BY <1>4, <1>5 DEF QInv, LogOK, RowOK
<1>10. QED
  BY <1>6, <1>7, <1>8, <1>9 DEF QInv

LEMMA CrashKeeps ==
    ASSUME QInv, Crash
    PROVE  QInv'
<1> USE DEF stc
<1>1. /\ \A r \in Requests : call'[r] = Idle
      /\ call' \in [Requests -> Calls]
      /\ failures' \in 0 .. MaxFailures
      /\ UNCHANGED <<qtx, told, ops, net, stc>>
  BY IdleIsACall, QitafAssumption DEF Crash, QInv, TypeOK
<1>2. (TypeOK /\ Numbered /\ OpsOK /\ ReversedOK /\ NetOK /\ ToldOK)'
  BY <1>1 DEF QInv, TypeOK, Numbered, OpsOK, ReversedOK, NetOK, ToldOK
<1>3. (\A r \in Requests : CallOK(call[r]) /\ ReplyOK(call[r]))'
  BY <1>1 DEF Idle, CallOK, ReplyOK, Redeeming, Reversing, Rewarding
<1>4. OpenOK'
  BY <1>1 DEF Idle, OpenOK, Redeeming
<1>5. LogOK'
  BY <1>1 DEF QInv, LogOK, RowOK
<1>6. QED
  BY <1>2, <1>3, <1>4, <1>5 DEF QInv

-----------------------------------------------------------------------------
(* The invariant.                                                          *)

LEMMA InitGives == Init => QInv
<1> SUFFICES ASSUME Init PROVE QInv
  OBVIOUS
<1>1. /\ qtx = <<>> /\ told = {} /\ failures = 0 /\ DOMAIN ops = {}
      /\ net = {} /\ executed = {} /\ reversed = {}
      /\ call = [r \in Requests |-> Idle]
  BY DEF Init
<1>2. TypeOK
  <2>1. call \in [Requests -> Calls]
    BY <1>1, IdleIsACall
  <2>2. ops \in [DOMAIN ops -> Operations]
    BY <1>1 DEF Init
  <2>3. qtx \in Seq(Rows)
    BY <1>1
  <2>4. QED
    BY <1>1, <2>1, <2>2, <2>3, QitafAssumption DEF TypeOK
<1>3. Numbered
  BY <1>1, 0 \in Nat, {} = 1 .. 0 DEF Numbered
<1>4. OpsOK /\ ReversedOK /\ NetOK /\ ToldOK
  BY <1>1 DEF OpsOK, ReversedOK, NetOK, ToldOK
<1>5. \A r \in Requests : CallOK(call[r]) /\ ReplyOK(call[r]) /\ ~Redeeming(call[r])
  BY <1>1, IdleIsOK
<1>6. Entries(qtx) = {}
  BY <1>1 DEF Entries
<1>7. QED
  BY <1>2, <1>3, <1>4, <1>5, <1>6 DEF QInv, OpenOK, LogOK

LEMMA NextKeeps == QInv /\ [Next]_vars => QInv'
<1> SUFFICES ASSUME QInv, [Next]_vars PROVE QInv'
  OBVIOUS
<1>1. ASSUME NEW r \in Requests, Start(r) PROVE QInv'
  BY <1>1, RedeemKeeps, ReverseRedeemKeeps, EarnRewardKeeps, UpdateRewardKeeps DEF Start
<1>2. ASSUME NEW r \in Requests, Continue(r) PROVE QInv'
  BY <1>2, RedeemSucceedsKeeps, RedeemLoggedKeeps, RedeemNotLoggedKeeps,
     RedeemReversesKeeps, ReversedKeeps, EarnRewardKeeps, NoAutoEarnKeeps,
     RewardReturnsKeeps, RewardRetriesKeeps DEF Continue
<1>3. ASSUME NEW m \in net, Process(m) PROVE QInv'
  BY <1>3, ProcessKeeps
<1>4. CASE UNCHANGED vars
  BY <1>4 DEF vars, local, stc, QInv, TypeOK, Numbered, OpsOK, ReversedOK, NetOK, CallOK,
     ReplyOK, OpenOK, Unknown, LogOK, RowOK, ToldOK
<1>5. QED
  BY <1>1, <1>2, <1>3, <1>4, RequestOtpKeeps, CrashKeeps DEF Next

(* What the log, the calls in flight and STC know of each other holds in   *)
(* every state, whatever is lost, late or executed twice.                  *)
THEOREM InvariantHolds == Spec => []QInv
<1>1. QED
  BY InitGives, NextKeeps, PTL DEF Spec

(* Every variable stays in its range.                                      *)
THEOREM TypeCorrect == Spec => []TypeOK
<1>1. QInv => TypeOK
  BY DEF QInv
<1>2. QED
  BY <1>1, InvariantHolds, PTL

-----------------------------------------------------------------------------
(* The account.                                                            *)

RecordedIn(rows) ==
    {row.id : row \in {e \in rows : /\ e.type \in {"redeem", "earn", "update"}
                                    /\ e.status = "success"}}

ReturnsIn(rows) ==
    {row.ref : row \in {e \in rows : e.type = "reverse" /\ e.status = "success"}}

LEMMA InTheLog ==
    /\ Recorded = RecordedIn(Entries(qtx)) /\ Recorded' = RecordedIn(Entries(qtx'))
    /\ ReturnsLogged = ReturnsIn(Entries(qtx))
    /\ ReturnsLogged' = ReturnsIn(Entries(qtx'))
<1>1. Recorded = RecordedIn(Entries(qtx))
  BY DEF Recorded, Logged, RecordedIn, Entries
<1>2. Recorded' = RecordedIn(Entries(qtx'))
  BY DEF Recorded, Logged, RecordedIn, Entries
<1>3. ReturnsLogged = ReturnsIn(Entries(qtx))
  BY DEF ReturnsLogged, ReturnsIn, Entries
<1>4. ReturnsLogged' = ReturnsIn(Entries(qtx'))
  BY DEF ReturnsLogged, ReturnsIn, Entries
<1>5. QED
  BY <1>1, <1>2, <1>3, <1>4

(* What a row adds to the account.                                         *)
LEMMA RowRecords ==
    ASSUME NEW row, Entries(qtx') = Entries(qtx) \cup {row}
    PROVE  /\ row.status # "success" \/ row.type = "otp" =>
                UNCHANGED <<Recorded, ReturnsLogged>>
           /\ row.status = "success" /\ row.type \in {"redeem", "earn", "update"} =>
                Recorded' = Recorded \cup {row.id} /\ UNCHANGED ReturnsLogged
           /\ row.status = "success" /\ row.type = "reverse" =>
                ReturnsLogged' = ReturnsLogged \cup {row.ref} /\ UNCHANGED Recorded
  BY InTheLog DEF RecordedIn, ReturnsIn

LEMMA QuietIsAStutter ==
    ASSUME UNCHANGED <<qtx, stc>>
    PROVE  UNCHANGED Account!vars
  BY DEF Account!vars, stc, Recorded, Logged, ReturnsLogged

LEMMA UnrecordedIsAStutter ==
    ASSUME UNCHANGED stc, NEW row, Entries(qtx') = Entries(qtx) \cup {row},
           row.status # "success" \/ row.type = "otp"
    PROVE  UNCHANGED Account!vars
  BY RowRecords DEF Account!vars, stc

LEMMA LogRecords ==
    ASSUME QInv, NEW r \in Requests,
           RedeemLogged(r) \/ RedeemNotLogged(r) \/ RedeemReverses(r)
             \/ RedeemFails(r) \/ RewardReturns(r) \/ Reversed(r)
    PROVE  [Account!Next]_(Account!vars)
<1> DEFINE c == call[r]
<1>1. c \in Calls /\ CallOK(c) /\ ReplyOK(c) /\ DOMAIN ops \subseteq Ids
  BY DEF QInv, TypeOK
<1>2. CASE RedeemLogged(r)
  <2> DEFINE row == [type |-> "redeem", id |-> c.id, ref |-> 0,
                     status |-> "success", invoice |-> c.invoice]
  <2>1. Entries(qtx') = Entries(qtx) \cup {row} /\ UNCHANGED stc
    BY <1>2, RowsAreRows DEF RedeemLogged, Kinds
  <2>2. c.id \in executed /\ c.id \in DOMAIN ops /\ Unknown(c.id)
    BY <1>1, <1>2 DEF RedeemLogged, At, CallOK, ReplyOK, Redeeming, QInv, OpenOK
  <2>3. c.id \notin reversed
    BY <2>2 DEF Unknown, QInv, ReversedOK
  <2>4. Recorded' = Recorded \cup {c.id} /\ UNCHANGED ReturnsLogged
    <3>1. row.status = "success" /\ row.type = "redeem" /\ row.id = c.id
      OBVIOUS
    <3> HIDE DEF row
    <3>2. QED
      BY <2>1, <3>1, RowRecords
  <2>5. Account!Record(c.id)
    BY <2>1, <2>2, <2>3, <2>4 DEF Account!Record, stc
  <2> HIDE DEF c
  <2>6. QED
    BY <1>1, <2>2, <2>5 DEF Account!Next
<1>3. CASE RedeemNotLogged(r) \/ RedeemReverses(r) \/ RedeemFails(r)
  <2>1. PICK status \in {"failed", "auto_reversed"} :
          Log("redeem", c.id, 0, status, c.invoice)
    BY <1>3 DEF RedeemNotLogged, RedeemReverses, RedeemFails
  <2> DEFINE row == [type |-> "redeem", id |-> c.id, ref |-> 0,
                     status |-> status, invoice |-> c.invoice]
  <2>2. Entries(qtx') = Entries(qtx) \cup {row}
    <3>1. "redeem" \in Kinds /\ status \in {"success", "failed", "auto_reversed"}
      BY DEF Kinds
    <3>2. QED
      BY <2>1, <3>1, RowsAreRows
  <2>3. UNCHANGED stc
    BY <1>3 DEF RedeemNotLogged, RedeemReverses, RedeemFails
  <2>4. row.status # "success"
    OBVIOUS
  <2> HIDE DEF row
  <2>5. QED
    BY <2>2, <2>3, <2>4, UnrecordedIsAStutter
<1>4. CASE RewardReturns(r)
  <2>1. PICK outcome \in Outcomes :
          /\ Outcome(r, outcome)
          /\ Log(c.pc, c.id, c.ref,
                 IF Succeeds(outcome) THEN "success" ELSE "failed", NoInvoice)
    BY <1>4 DEF RewardReturns
  <2>2. PICK type \in {"earn", "update"} : c.pc = type
    BY <1>4 DEF RewardReturns, At
  <2>3. PICK status \in {"success", "failed"} :
          status = IF Succeeds(outcome) THEN "success" ELSE "failed"
    OBVIOUS
  <2> DEFINE row == [type |-> type, id |-> c.id, ref |-> c.ref,
                     status |-> status, invoice |-> NoInvoice]
  <2>4. Log(type, c.id, c.ref, status, NoInvoice)
    BY <2>1, <2>2, <2>3
  <2>5. Entries(qtx') = Entries(qtx) \cup {row}
    <3>1. type \in Kinds /\ status \in {"success", "failed", "auto_reversed"}
      BY DEF Kinds
    <3>2. QED
      BY <2>4, <3>1, RowsAreRows
  <2>6. UNCHANGED stc
    BY <1>4 DEF RewardReturns
  <2>7. CASE status = "failed"
    <3>1. row.status # "success"
      BY <2>7
    <3> HIDE DEF row
    <3>2. QED
      BY <2>5, <2>6, <3>1, UnrecordedIsAStutter
  <2>8. CASE status = "success"
    <3>1. c.reply = "ok"
      BY <2>1, <2>3, <2>8, OutcomeKnown DEF Succeeds, Codes
    <3>2. c.id \in executed /\ c.id \in DOMAIN ops /\ ops[c.id].kind = type
      BY <3>1, <2>2, <1>1 DEF CallOK, ReplyOK, Rewarding
    <3>3. c.id \notin reversed
      BY <3>2 DEF QInv, ReversedOK
    <3>4. Recorded' = Recorded \cup {c.id} /\ UNCHANGED ReturnsLogged
      <4>1. row.status = "success" /\ row.type \in {"earn", "update"} /\ row.id = c.id
        BY <2>8
      <4> HIDE DEF row
      <4>2. QED
        BY <2>5, <4>1, RowRecords
    <3>5. Account!Record(c.id)
      BY <2>6, <3>2, <3>3, <3>4 DEF Account!Record, stc
    <3> HIDE DEF c
    <3>6. QED
      BY <1>1, <3>2, <3>5 DEF Account!Next
  <2>9. QED
    BY <2>7, <2>8
<1>5. CASE Reversed(r)
  <2>1. PICK outcome \in Outcomes :
          /\ Outcome(r, outcome)
          /\ Log("reverse", c.id, c.ref,
                 IF ReverseSucceeds(outcome) THEN "success" ELSE "failed",
                 NoInvoice)
    BY <1>5 DEF Reversed
  <2>2. PICK status \in {"success", "failed"} :
          status = IF ReverseSucceeds(outcome) THEN "success" ELSE "failed"
    OBVIOUS
  <2> DEFINE row == [type |-> "reverse", id |-> c.id, ref |-> c.ref,
                     status |-> status, invoice |-> NoInvoice]
  <2>3. Entries(qtx') = Entries(qtx) \cup {row}
    BY <2>1, <2>2, RowsAreRows DEF Kinds
  <2>4. UNCHANGED stc
    BY <1>5 DEF Reversed
  <2>5. CASE status = "failed"
    <3>1. row.status # "success"
      BY <2>5
    <3> HIDE DEF row
    <3>2. QED
      BY <2>3, <2>4, <3>1, UnrecordedIsAStutter
  <2>6. CASE status = "success"
    <3>1. c.reply \in {"ok", "1040"}
      BY <2>1, <2>2, <2>6, OutcomeKnown DEF ReverseSucceeds, Codes
    <3>2. Reversing(c)
      BY <1>5 DEF Reversed, At, Reversing
    <3>3. /\ c.id \in DOMAIN ops /\ ops[c.id].kind = "reverse"
          /\ ops[c.id].ref = c.ref
      BY <3>2, <1>1 DEF CallOK
    <3>4. c.ref \in reversed /\ c.ref \in DOMAIN ops
      BY <3>1, <3>2, <3>3, <1>1 DEF ReplyOK, Reversing, QInv, OpsOK
    <3>5. ReturnsLogged' = ReturnsLogged \cup {c.ref} /\ UNCHANGED Recorded
      <4>1. row.status = "success" /\ row.type = "reverse" /\ row.ref = c.ref
        BY <2>6
      <4> HIDE DEF row
      <4>2. QED
        BY <2>3, <4>1, RowRecords
    <3>6. Account!RecordReturn(c.ref)
      BY <2>4, <3>4, <3>5 DEF Account!RecordReturn, stc
    <3> HIDE DEF c
    <3>7. QED
      BY <1>1, <3>4, <3>6 DEF Account!Next
  <2>7. QED
    BY <2>5, <2>6
<1>6. QED
  BY <1>2, <1>3, <1>4, <1>5

LEMMA ProcessCarriesOut ==
    ASSUME QInv, NEW m \in net, Process(m)
    PROVE  [Account!Next]_(Account!vars)
<1> DEFINE id == m.id
<1>1. UNCHANGED qtx
  BY DEF Process
<1>2. UNCHANGED <<Recorded, ReturnsLogged>>
  BY <1>1 DEF Recorded, Logged, ReturnsLogged
<1>3. id \in Ids
  BY DEF QInv, TypeOK, NetOK
<1>4. \/ UNCHANGED stc
      \/ id \notin executed /\ executed' = executed \cup {id} /\ UNCHANGED reversed
      \/ /\ id \notin executed /\ ops[id].ref \in executed \ reversed
         /\ executed' = executed \cup {id}
         /\ reversed' = reversed \cup {ops[id].ref}
  BY DEF Process
<1>5. CASE UNCHANGED stc
  BY <1>1, <1>5, QuietIsAStutter
<1>6. CASE id \notin executed /\ executed' = executed \cup {id} /\ UNCHANGED reversed
  <2>1. Account!CarryOut(id)
    BY <1>2, <1>6 DEF Account!CarryOut
  <2>2. QED
    BY <2>1, <1>3 DEF Account!Next
<1>7. CASE /\ id \notin executed /\ ops[id].ref \in executed \ reversed
           /\ executed' = executed \cup {id}
           /\ reversed' = reversed \cup {ops[id].ref}
  <2>1. Account!Return(ops[id].ref, id)
    BY <1>2, <1>7 DEF Account!Return
  <2>2. ops[id].ref \in Ids
    BY <1>7 DEF QInv, TypeOK
  <2>3. QED
    BY <2>1, <2>2, <1>3 DEF Account!Next
<1>8. QED
  BY <1>4, <1>5, <1>6, <1>7

LEMMA OtherStepsAreStutters ==
    ASSUME QInv,
           \/ \E r \in Requests : \/ Start(r) \/ RedeemSucceeds(r) \/ TryAutoEarn(r)
                                  \/ NoAutoEarn(r) \/ RewardRetries(r)
           \/ RequestOtp \/ Crash \/ UNCHANGED vars
    PROVE  UNCHANGED Account!vars
<1>1. CASE RequestOtp
  <2>1. PICK invoice \in Invoices : Log("otp", 0, 0, "success", invoice)
    BY <1>1 DEF RequestOtp
  <2> DEFINE row == [type |-> "otp", id |-> 0, ref |-> 0, status |-> "success",
                     invoice |-> invoice]
  <2>2. row \in Rows /\ qtx \in Seq(Rows)
    BY QitafAssumption DEF Rows, QInv, TypeOK
  <2>3. Entries(qtx') = Entries(qtx) \cup {row}
    BY <2>1, <2>2, EntryAdded DEF Log
  <2>4. UNCHANGED stc /\ row.type = "otp"
    BY <1>1 DEF RequestOtp
  <2> HIDE DEF row
  <2>5. QED
    BY <2>3, <2>4, UnrecordedIsAStutter
<1>2. CASE Crash \/ UNCHANGED vars
  BY <1>2, QuietIsAStutter DEF Crash, vars, local
<1>3. ASSUME NEW r \in Requests,
             Start(r) \/ RedeemSucceeds(r) \/ TryAutoEarn(r) \/ NoAutoEarn(r)
               \/ RewardRetries(r)
      PROVE  UNCHANGED <<qtx, stc>>
  BY <1>3 DEF Start, Redeem, ReverseRedeem, ReverseRedeemByMsisdn, Refund, StartReverse,
     EarnReward, UpdateReward, RedeemSucceeds, TryAutoEarn, NoAutoEarn, RewardRetries
<1>4. QED
  BY <1>1, <1>2, <1>3, QuietIsAStutter

(* What the log of redeems, reversals and rewards calls a success, the     *)
(* partner has done, a redemption is returned once, and it is logged       *)
(* before it can be.                                                       *)
THEOREM QitafIsAnAccount == Spec => ImplementsAccount
<1>1. Init => Account!Init
  <2>1. SUFFICES ASSUME Init PROVE Account!Init
    OBVIOUS
  <2>2. Entries(qtx) = {} /\ executed = {} /\ reversed = {}
    <3>1. qtx = <<>> /\ executed = {} /\ reversed = {}
      BY <2>1 DEF Init
    <3>2. QED
      BY <3>1 DEF Entries
  <2>3. QED
    BY <2>2, InTheLog DEF Account!Init, RecordedIn, ReturnsIn
<1>2. QInv /\ [Next]_vars => [Account!Next]_(Account!vars)
  <2> SUFFICES ASSUME QInv, [Next]_vars PROVE [Account!Next]_(Account!vars)
    OBVIOUS
  <2>1. CASE \E m \in net : Process(m)
    BY <2>1, ProcessCarriesOut
  <2>2. CASE \E r \in Requests :
               RedeemLogged(r) \/ RedeemNotLogged(r) \/ RedeemReverses(r)
                 \/ RedeemFails(r) \/ RewardReturns(r) \/ Reversed(r)
    BY <2>2, LogRecords
  <2>3. CASE \/ \E r \in Requests : \/ Start(r) \/ RedeemSucceeds(r) \/ TryAutoEarn(r)
                                    \/ NoAutoEarn(r) \/ RewardRetries(r)
             \/ RequestOtp \/ Crash \/ UNCHANGED vars
    BY <2>3, OtherStepsAreStutters
  <2>4. QED
    BY <2>1, <2>2, <2>3 DEF Next, Continue
<1>3. QED
  BY <1>1, <1>2, InvariantHolds, PTL DEF Spec, ImplementsAccount, Account!Spec

-----------------------------------------------------------------------------
(* A reward is given once.                                                 *)

(* An operation STC will not carry out any more.                           *)
Dead(i) ==
    /\ i \notin executed /\ \A m \in net : m.id # i
    /\ \A r \in Requests : call[r].pc = "earn" => call[r].id # i

(* Of two operations of a call, one is dead.                               *)
SpentOK ==
    \A i, j \in DOMAIN ops :
        i # j /\ ops[i].kind = "earn" /\ SameCall(i, j) => Dead(i) \/ Dead(j)

FirstOK == \A i \in DOMAIN ops : ops[i].first \in DOMAIN ops

(* A first attempt is the only one so far, and one that was refused is not *)
(* under way any more.                                                     *)
FirstTryOK(c) ==
    c.pc = "earn" /\ c.attempt = 1 =>
        /\ ops[c.id].first = c.id
        /\ \A j \in DOMAIN ops : j # c.id => ops[j].first # c.id
        /\ \A m \in net : m.id = c.id => m.attempt = 1
        /\ c.reply = "2311" => c.id \notin executed /\ \A m \in net : m.id # c.id

DistinctOK ==
    \A r, s \in Requests :
        r # s /\ call[r].pc = "earn" /\ call[s].pc = "earn" => call[r].id # call[s].id

RInv == /\ QInv
        /\ SpentOK /\ FirstOK /\ DistinctOK
        /\ \A r \in Requests : FirstTryOK(call[r])

LEMMA EarnIdsKnown ==
    ASSUME QInv, NEW r \in Requests, Rewarding(call[r])
    PROVE  call[r].id \in DOMAIN ops /\ ops[call[r].id].kind = call[r].pc
  BY DEF QInv, CallOK

LEMMA QuietKeepsRewards ==
    ASSUME RInv, UNCHANGED <<ops, net, stc>>,
           \A r \in Requests : call'[r] = call[r] \/ call'[r].pc # "earn"
    PROVE  (SpentOK /\ FirstOK /\ DistinctOK /\ \A r \in Requests : FirstTryOK(call[r]))'
<1> USE DEF stc
<1>1. ASSUME NEW i, Dead(i) PROVE Dead(i)'
  BY <1>1 DEF Dead
<1>2. SpentOK'
  BY <1>1 DEF RInv, SpentOK, SameCall
<1>3. FirstOK' /\ DistinctOK'
  BY DEF RInv, FirstOK, DistinctOK
<1>4. (\A r \in Requests : FirstTryOK(call[r]))'
  BY DEF RInv, FirstTryOK
<1>5. QED
  BY <1>2, <1>3, <1>4

LEMMA SendKeepsRewards ==
    ASSUME RInv, NEW r \in Requests, NEW c, NEW kind, NEW ref, NEW first,
           Send(r, c, kind, ref, first), c.id = NextId, c.reply = "none",
           UNCHANGED stc, kind = "earn" => c.pc = "earn",
           \/ first = NextId
           \/ /\ Rewarding(call[r]) /\ first = ops[call[r].id].first
              /\ c.attempt # 1 /\ kind = call[r].pc
              /\ kind = "earn" => call[r].attempt = 1 /\ call[r].reply = "2311"
    PROVE  (SpentOK /\ FirstOK /\ DistinctOK /\ \A s \in Requests : FirstTryOK(call[s]))'
<1> USE DEF stc
<1> DEFINE D == DOMAIN ops
<1>1. NextId \notin D
  BY NextIdIsNew DEF RInv, QInv
<1>2. /\ DOMAIN ops' = D \cup {NextId} /\ ops'[NextId].kind = kind
      /\ ops'[NextId].first = first
      /\ \A i \in D : ops'[i] = ops[i]
      /\ net' = net \cup {[id |-> NextId, attempt |-> c.attempt]}
  BY <1>1 DEF Send
<1>3. \A s \in Requests : call'[s] = IF s = r THEN c ELSE call[s]
  BY DEF Send, RInv, QInv, TypeOK
<1>4. \A s \in Requests : call[s].pc = "earn" =>
          call[s].id \in D /\ ops[call[s].id].kind = "earn"
  BY EarnIdsKnown DEF RInv, Rewarding
<1>5. \A m \in net : m.id \in D
  BY DEF RInv, QInv, NetOK
<1>6. executed \subseteq D
  BY DEF RInv, QInv, TypeOK
<1>7. ASSUME NEW i \in D, Dead(i) PROVE Dead(i)'
  BY <1>1, <1>2, <1>3, <1>7 DEF Dead
<1>8. FirstOK'
  <2>1. first \in D \cup {NextId}
    BY EarnIdsKnown DEF RInv, FirstOK
  <2>2. QED
    BY <2>1, <1>2 DEF RInv, FirstOK
<1>9. DistinctOK'
  BY <1>1, <1>3, <1>4 DEF RInv, DistinctOK
<1>10. ASSUME NEW s \in Requests PROVE FirstTryOK(call[s])'
  <2>1. CASE s = r
    <3>1. \A j \in D : ops[j].first # NextId
      BY <1>1 DEF RInv, FirstOK
    <3>2. c.attempt = 1 => first = NextId
      OBVIOUS
    <3>3. QED
      BY <2>1, <3>1, <3>2, <1>1, <1>2, <1>3, <1>5 DEF FirstTryOK
  <2>2. CASE s # r
    <3>1. SUFFICES ASSUME call[s].pc = "earn", call[s].attempt = 1
                   PROVE  FirstTryOK(call[s])'
      BY <2>2, <1>3 DEF FirstTryOK
    <3>2. first # call[s].id
      <4>1. CASE first = NextId
        BY <4>1, <3>1, <1>1, <1>4
      <4>2. CASE Rewarding(call[r]) /\ first = ops[call[r].id].first
        <5>1. call[r].id \in D /\ call[r].id # call[s].id
          BY <4>2, <3>1, <2>2, <1>4, EarnIdsKnown DEF RInv, DistinctOK, Rewarding
        <5>2. QED
          BY <5>1, <4>2, <3>1 DEF RInv, FirstTryOK
      <4>3. QED
        BY <4>1, <4>2
    <3>3. QED
      BY <2>2, <3>1, <3>2, <1>1, <1>2, <1>3, <1>4 DEF RInv, FirstTryOK
  <2>3. QED
    BY <2>1, <2>2
<1>11. ASSUME NEW i \in D, kind = "earn", ops[i].kind = "earn", ops[i].first = first
       PROVE  Dead(i)'
  <2>1. first # NextId
    BY <1>1, <1>11 DEF RInv, FirstOK
  <2>2. /\ call[r].pc = "earn" /\ call[r].attempt = 1 /\ call[r].reply = "2311"
        /\ first = ops[call[r].id].first
    BY <2>1, <1>11
  <2>3. i = call[r].id /\ i \notin executed /\ \A m \in net : m.id # i
    BY <2>2, <1>11 DEF RInv, FirstTryOK
  <2>4. \A s \in Requests \ {r} : call[s].pc = "earn" => call[s].id # i
    BY <2>2, <2>3 DEF RInv, DistinctOK
  <2>5. QED
    BY <2>3, <2>4, <1>1, <1>2, <1>3 DEF Dead
<1>12. SpentOK'
  <2>1. SUFFICES ASSUME NEW i \in DOMAIN ops', NEW j \in DOMAIN ops', i # j,
                        ops'[i].kind = "earn", ops'[j].kind = "earn",
                        ops'[i].first = ops'[j].first
                 PROVE  Dead(i)' \/ Dead(j)'
    BY DEF SpentOK, SameCall
  <2>2. CASE i \in D /\ j \in D
    <3>1. Dead(i) \/ Dead(j)
      BY <2>1, <2>2, <1>2 DEF RInv, SpentOK, SameCall
    <3>2. QED
      BY <3>1, <2>2, <1>7
  <2>3. CASE i = NextId \/ j = NextId
    BY <2>1, <2>3, <1>2, <1>11
  <2>4. QED
    BY <2>2, <2>3, <1>2
<1>13. QED
  BY <1>8, <1>9, <1>10, <1>12

LEMMA ResendKeepsRewards ==
    ASSUME RInv, NEW r \in Requests, NEW c, NEW kind, NEW ref, NEW first,
           Send(r, c, kind, ref, first), Rewarding(call[r]),
           c.id = call[r].id, c.pc = call[r].pc, c.attempt # 1, UNCHANGED stc
    PROVE  (SpentOK /\ FirstOK /\ DistinctOK /\ \A s \in Requests : FirstTryOK(call[s]))'
<1> USE DEF stc
<1>1. call[r].id \in DOMAIN ops /\ ops[call[r].id].kind = call[r].pc
  BY EarnIdsKnown DEF RInv
<1>2. UNCHANGED ops
  <2>1. ops \in [DOMAIN ops -> Operations]
    BY DEF RInv, QInv, TypeOK
  <2>2. QED
    BY <2>1, <1>1 DEF Send
<1>3. net' = net \cup {[id |-> call[r].id, attempt |-> c.attempt]}
  BY DEF Send
<1>4. \A s \in Requests : call'[s] = IF s = r THEN c ELSE call[s]
  BY DEF Send, RInv, QInv, TypeOK
<1>5. ASSUME NEW i \in DOMAIN ops, ops[i].kind = "earn", Dead(i) PROVE Dead(i)'
  <2>1. call[r].id # i
    BY <1>1, <1>5 DEF Dead
  <2>2. QED
    BY <2>1, <1>3, <1>4, <1>5 DEF Dead
<1>6. SpentOK'
  BY <1>2, <1>5 DEF RInv, SpentOK, SameCall
<1>7. FirstOK' /\ DistinctOK'
  BY <1>2, <1>4 DEF RInv, FirstOK, DistinctOK
<1>8. ASSUME NEW s \in Requests PROVE FirstTryOK(call[s])'
  <2>1. CASE s = r
    BY <2>1, <1>4 DEF FirstTryOK
  <2>2. CASE s # r
    <3>1. call[s].pc = "earn" => call[s].id # call[r].id
      BY <2>2, <1>1, EarnIdsKnown DEF RInv, DistinctOK, Rewarding
    <3>2. QED
      BY <2>2, <3>1, <1>2, <1>3, <1>4 DEF RInv, FirstTryOK
  <2>3. QED
    BY <2>1, <2>2
<1>9. QED
  BY <1>6, <1>7, <1>8

(* 2311 is the answer to a request that was not, and will not be, executed. *)
LEMMA AnswersTheRequest ==
    ASSUME QInv, NEW m \in net, Process(m)
    PROVE  /\ executed \subseteq executed' /\ executed' \subseteq executed \cup {m.id}
           /\ net' = net \ {m} /\ UNCHANGED ops
           /\ \A r \in Requests :
                /\ call'[r].pc = call[r].pc /\ call'[r].id = call[r].id
                /\ call'[r].attempt = call[r].attempt
                /\ call'[r].reply = "2311" =>
                     \/ call[r].reply = "2311"
                     \/ call[r].id = m.id /\ m.id \notin executed'
<1>1. /\ executed \subseteq executed' /\ executed' \subseteq executed \cup {m.id}
      /\ net' = net \ {m} /\ UNCHANGED ops
  BY ProcessAnswers
<1>2. PICK W : \E code \in Codes :
        /\ call' = [q \in Requests |-> IF q \in W THEN [call[q] EXCEPT !.reply = code]
                                                  ELSE call[q]]
        /\ \A q \in W : call[q].id = m.id
        /\ code = "2311" => m.id \notin executed'
  <2> DEFINE W == {q \in InFlight : call[q].id = m.id /\ call[q].attempt = m.attempt}
  <2>1. \A q \in W : call[q].id = m.id
    OBVIOUS
  <2>2. \E code \in Codes :
          /\ call' = [q \in Requests |-> IF q \in W THEN [call[q] EXCEPT !.reply = code]
                                                    ELSE call[q]]
          /\ code = "2311" => m.id \notin executed'
    BY DEF Process, Codes, stc
  <2> HIDE DEF W
  <2>3. QED
    BY <2>1, <2>2
<1>3. PICK code \in Codes :
        /\ call' = [q \in Requests |-> IF q \in W THEN [call[q] EXCEPT !.reply = code]
                                                  ELSE call[q]]
        /\ \A q \in W : call[q].id = m.id
        /\ code = "2311" => m.id \notin executed'
  BY <1>2
<1>4. ASSUME NEW r \in Requests
      PROVE  /\ call'[r].pc = call[r].pc /\ call'[r].id = call[r].id
             /\ call'[r].attempt = call[r].attempt
             /\ call'[r].reply = "2311" =>
                  \/ call[r].reply = "2311"
                  \/ call[r].id = m.id /\ m.id \notin executed'
  <2>1. call[r] \in Calls
    BY DEF QInv, TypeOK
  <2>2. call'[r] = IF r \in W THEN [call[r] EXCEPT !.reply = code] ELSE call[r]
    BY <1>3
  <2>3. CASE r \in W
    BY <2>1, <2>2, <2>3, <1>3 DEF Calls
  <2>4. CASE r \notin W
    BY <2>2, <2>4
  <2>5. QED
    BY <2>3, <2>4
<1>5. QED
  BY <1>1, <1>4

LEMMA ProcessKeepsRewards ==
    ASSUME RInv, NEW m \in net, Process(m)
    PROVE  (SpentOK /\ FirstOK /\ DistinctOK /\ \A s \in Requests : FirstTryOK(call[s]))'
<1>1. /\ executed \subseteq executed' /\ executed' \subseteq executed \cup {m.id}
      /\ net' = net \ {m} /\ UNCHANGED ops
      /\ \A r \in Requests :
                /\ call'[r].pc = call[r].pc /\ call'[r].id = call[r].id
                /\ call'[r].attempt = call[r].attempt
                /\ call'[r].reply = "2311" =>
                     \/ call[r].reply = "2311"
                     \/ call[r].id = m.id /\ m.id \notin executed'
  BY AnswersTheRequest DEF RInv
<1>2. ASSUME NEW i, Dead(i) PROVE Dead(i)'
  BY <1>1, <1>2 DEF Dead
<1>3. SpentOK'
  BY <1>1, <1>2 DEF RInv, SpentOK, SameCall
<1>4. FirstOK' /\ DistinctOK'
  BY <1>1 DEF RInv, FirstOK, DistinctOK
<1>5. ASSUME NEW r \in Requests PROVE FirstTryOK(call[r])'
  <2>1. SUFFICES ASSUME call[r].pc = "earn", call[r].attempt = 1
                 PROVE  FirstTryOK(call[r])'
    BY <1>1 DEF FirstTryOK
  <2>2. FirstTryOK(call[r])
    BY DEF RInv
  <2>3. CASE call'[r].reply = "2311" /\ call[r].reply # "2311"
    <3>1. call[r].id = m.id /\ m.id \notin executed'
      BY <2>3, <1>1
    <3>2. \A n \in net' : n.id # m.id
      <4>1. SUFFICES ASSUME NEW n \in net, n.id = m.id
                     PROVE  n = m
        BY <1>1
      <4>2. n.attempt = 1 /\ m.attempt = 1
        BY <2>1, <2>2, <3>1, <4>1 DEF FirstTryOK
      <4>3. n \in Messages /\ m \in Messages
        BY DEF RInv, QInv, TypeOK
      <4>4. QED
        BY <4>1, <4>2, <4>3 DEF Messages
    <3>3. QED
      BY <2>1, <2>2, <3>1, <3>2, <1>1 DEF FirstTryOK
  <2>4. CASE ~(call'[r].reply = "2311" /\ call[r].reply # "2311")
    BY <2>1, <2>2, <2>4, <1>1 DEF FirstTryOK
  <2>5. QED
    BY <2>3, <2>4
<1>6. QED
  BY <1>3, <1>4, <1>5

LEMMA RetryKeepsRewards ==
    ASSUME RInv, NEW r \in Requests, RewardRetries(r)
    PROVE  (SpentOK /\ FirstOK /\ DistinctOK /\ \A s \in Requests : FirstTryOK(call[s]))'
<1>1. PICK outcome \in Outcomes :
        /\ Outcome(r, outcome) /\ Retriable(outcome)
        /\ Send(r, [call[r] EXCEPT !.id = RetryId(call[r].id, outcome),
                                   !.attempt = @ + 1, !.reply = "none"],
                call[r].pc, call[r].ref, ops[call[r].id].first)
  BY DEF RewardRetries
<1> DEFINE c == [call[r] EXCEPT !.id = RetryId(call[r].id, outcome),
                                !.attempt = @ + 1, !.reply = "none"]
<1>2. call[r] \in Calls /\ Rewarding(call[r]) /\ UNCHANGED stc
  BY DEF RInv, QInv, TypeOK, RewardRetries, At, Rewarding
<1>3. /\ c.id = RetryId(call[r].id, outcome) /\ c.reply = "none"
      /\ c.pc = call[r].pc /\ c.attempt = call[r].attempt + 1
      /\ call[r].attempt \in Nat \ {0}
  BY <1>2 DEF Calls
<1>4. c.attempt # 1
  BY <1>3
<1>5. call[r].pc = "earn" => call[r].attempt = 1
  BY <1>3 DEF RewardRetries, MaxAttempts
<1>6. Send(r, c, call[r].pc, call[r].ref, ops[call[r].id].first)
  BY <1>1
<1> HIDE DEF c
<1>7. CASE outcome = "timeout"
  <2>1. c.id = call[r].id
    BY <1>3, <1>7 DEF RetryId
  <2>2. QED
    BY <2>1, <1>2, <1>3, <1>4, <1>6, ResendKeepsRewards
<1>8. CASE outcome # "timeout"
  <2>1. c.id = NextId
    BY <1>3, <1>8 DEF RetryId
  <2>2. call[r].reply = "2311"
    BY <1>1, <1>8, OutcomeKnown DEF RInv, Retriable, Codes
  <2>3. QED
    BY <2>1, <2>2, <1>2, <1>3, <1>4, <1>5, <1>6, SendKeepsRewards
<1>9. QED
  BY <1>7, <1>8

(* A call that sends its first request.                                    *)
LEMMA FirstSends ==
    ASSUME NEW r \in Requests, QInv,
           Start(r) \/ TryAutoEarn(r) \/ RedeemReverses(r)
    PROVE  UNCHANGED stc /\ \E c, kind, ref :
             /\ Send(r, c, kind, ref, NextId) /\ c.id = NextId
             /\ c.reply = "none" /\ (kind = "earn" => c.pc = "earn")
             /\ kind = "redeem" => Redeeming(c) /\ c.attempt = 1
<1>1. CASE Redeem(r)
  <2>1. PICK c : /\ Send(r, c, "redeem", 0, NextId)
                 /\ \/ c = [Idle EXCEPT !.pc = "redeem", !.id = NextId]
                    \/ \E i \in DOMAIN qtx :
                         c = [Idle EXCEPT !.pc = "redeem", !.id = NextId,
                                  !.checkout = TRUE, !.invoice = qtx[i].invoice]
    BY <1>1 DEF Redeem
  <2>2. c.id = NextId /\ c.reply = "none" /\ Redeeming(c) /\ c.attempt = 1
    BY <2>1 DEF Idle, Redeeming
  <2>3. UNCHANGED stc
    BY <1>1 DEF Redeem
  <2>4. Send(r, c, "redeem", 0, NextId)
    BY <2>1
  <2>5. QED
    BY <2>2, <2>3, <2>4
<1>2. ASSUME NEW id, StartReverse(r, id)
      PROVE  UNCHANGED stc /\ \E c, kind, ref :
             /\ Send(r, c, kind, ref, NextId) /\ c.id = NextId
             /\ c.reply = "none" /\ (kind = "earn" => c.pc = "earn")
             /\ kind = "redeem" => Redeeming(c) /\ c.attempt = 1
  <2> DEFINE c == [Idle EXCEPT !.pc = "reverse", !.id = NextId, !.ref = id]
  <2>1. Send(r, c, "reverse", id, NextId) /\ UNCHANGED stc
    BY <1>2 DEF StartReverse
  <2>2. c.id = NextId /\ c.reply = "none"
    BY DEF Idle
  <2> HIDE DEF c
  <2>3. QED
    BY <2>1, <2>2
<1>3. CASE ReverseRedeem(r) \/ ReverseRedeemByMsisdn(r) \/ Refund(r)
  BY <1>2, <1>3 DEF ReverseRedeem, ReverseRedeemByMsisdn, Refund
<1>4. CASE EarnReward(r) \/ TryAutoEarn(r)
  <2> DEFINE c == [Idle EXCEPT !.pc = "earn", !.id = NextId]
  <2>1. Send(r, c, "earn", 0, NextId) /\ UNCHANGED stc
    BY <1>4 DEF EarnReward, TryAutoEarn
  <2>2. c.id = NextId /\ c.reply = "none" /\ c.pc = "earn"
    BY DEF Idle
  <2> HIDE DEF c
  <2>3. QED
    BY <2>1, <2>2
<1>5. CASE UpdateReward(r)
  <2>1. PICK i \in DOMAIN qtx :
          Send(r, [Idle EXCEPT !.pc = "update", !.id = NextId, !.ref = qtx[i].id],
               "update", qtx[i].id, NextId)
    BY <1>5 DEF UpdateReward
  <2> DEFINE c == [Idle EXCEPT !.pc = "update", !.id = NextId, !.ref = qtx[i].id]
  <2>2. c.id = NextId /\ c.reply = "none"
    BY DEF Idle
  <2>3. Send(r, c, "update", qtx[i].id, NextId) /\ UNCHANGED stc
    BY <1>5, <2>1 DEF UpdateReward
  <2> HIDE DEF c
  <2>4. QED
    BY <2>2, <2>3
<1>6. CASE RedeemReverses(r)
  <2> DEFINE c == [call[r] EXCEPT !.pc = "autoReverse", !.id = NextId,
                                  !.ref = call[r].id, !.reply = "none"]
  <2>1. Send(r, c, "reverse", call[r].id, NextId) /\ UNCHANGED stc
    BY <1>6 DEF RedeemReverses
  <2>2. call[r] \in Calls
    BY DEF QInv, TypeOK
  <2>3. c.id = NextId /\ c.reply = "none"
    BY <2>2 DEF Calls
  <2> HIDE DEF c
  <2>4. QED
    BY <2>1, <2>3
<1>7. QED
  BY <1>1, <1>3, <1>4, <1>5, <1>6 DEF Start

LEMMA RewardsKept == RInv /\ [Next]_vars => RInv'
<1> SUFFICES ASSUME RInv, [Next]_vars PROVE RInv'
  OBVIOUS
<1> DEFINE Kept == SpentOK /\ FirstOK /\ DistinctOK
                   /\ \A s \in Requests : FirstTryOK(call[s])
<1>1. QInv'
  BY NextKeeps DEF RInv
<1>2. CASE \E m \in net : Process(m)
  BY <1>1, <1>2, ProcessKeepsRewards DEF RInv
<1>3. ASSUME NEW r \in Requests, RewardRetries(r) PROVE Kept'
  BY <1>3, RetryKeepsRewards
<1>4. ASSUME NEW r \in Requests,
             Start(r) \/ TryAutoEarn(r) \/ RedeemReverses(r)
      PROVE  Kept'
  <2>1. UNCHANGED stc
    BY <1>4, FirstSends DEF RInv
  <2>2. PICK c, kind, ref : /\ Send(r, c, kind, ref, NextId) /\ c.id = NextId
                            /\ c.reply = "none" /\ (kind = "earn" => c.pc = "earn")
    BY <1>4, FirstSends DEF RInv
  <2>3. QED
    BY <2>1, <2>2, SendKeepsRewards
<1>5. CASE \/ \E r \in Requests :
                 \/ RedeemSucceeds(r) \/ RedeemLogged(r) \/ RedeemNotLogged(r)
                 \/ RedeemFails(r) \/ Reversed(r) \/ NoAutoEarn(r) \/ RewardReturns(r)
           \/ RequestOtp \/ Crash \/ UNCHANGED vars
  <2>1. UNCHANGED <<ops, net, stc>>
    BY <1>5 DEF RedeemSucceeds, RedeemLogged, RedeemNotLogged, RedeemFails, Reversed,
       NoAutoEarn, RewardReturns, RequestOtp, Crash, vars
  <2>2. \A r \in Requests : call'[r] = call[r] \/ call'[r].pc # "earn"
    <3>1. CASE RequestOtp \/ UNCHANGED vars
      BY <3>1 DEF RequestOtp, vars, local
    <3>2. CASE Crash
      BY <3>2 DEF Crash, Idle
    <3>3. ASSUME NEW r \in Requests, NEW c, call' = [call EXCEPT ![r] = c], c.pc # "earn"
          PROVE  \A s \in Requests : call'[s] = call[s] \/ call'[s].pc # "earn"
      BY <3>3 DEF RInv, QInv, TypeOK
    <3>4. ASSUME NEW r \in Requests, RedeemSucceeds(r)
          PROVE  \A s \in Requests : call'[s] = call[s] \/ call'[s].pc # "earn"
      BY <3>4 DEF RedeemSucceeds, RInv, QInv, TypeOK, Calls
    <3>5. ASSUME NEW r \in Requests, RedeemLogged(r)
          PROVE  \E c : call' = [call EXCEPT ![r] = c] /\ c.pc # "earn"
      BY <3>5 DEF RedeemLogged, Return, Idle
    <3>6. ASSUME NEW r \in Requests,
                 \/ RedeemNotLogged(r) \/ RedeemFails(r) \/ Reversed(r)
                 \/ NoAutoEarn(r) \/ RewardReturns(r)
          PROVE  call' = [call EXCEPT ![r] = Idle] /\ Idle.pc # "earn"
      BY <3>6 DEF RedeemNotLogged, RedeemFails, Reversed, NoAutoEarn, RewardReturns,
         Return, Idle
    <3>7. QED
      BY <1>5, <3>1, <3>2, <3>3, <3>4, <3>5, <3>6
  <2>3. QED
    BY <1>1, <2>1, <2>2, QuietKeepsRewards DEF RInv
<1>6. QED
  BY <1>1, <1>2, <1>3, <1>4, <1>5 DEF Next, Continue, RInv

(* A reward is given once, although the call tries twice, under one id or  *)
(* two, and the first request may arrive after the second.                 *)
THEOREM RewardsOnce == Spec => []RewardedOncePerCall
<1>1. Init => RInv
  <2>1. SUFFICES ASSUME Init PROVE RInv
    OBVIOUS
  <2>2. QInv
    BY <2>1, InitGives
  <2>3. DOMAIN ops = {} /\ \A r \in Requests : call[r] = Idle
    BY <2>1 DEF Init
  <2>4. Idle.pc # "earn"
    BY DEF Idle
  <2>5. QED
    BY <2>2, <2>3, <2>4 DEF RInv, SpentOK, FirstOK, DistinctOK, FirstTryOK
<1>2. RInv => RewardedOncePerCall
  <2>1. SUFFICES ASSUME RInv, NEW i \in executed, NEW j \in executed,
                        ops[i].kind = "earn", SameCall(i, j), i # j
                 PROVE  FALSE
    BY DEF RewardedOncePerCall
  <2>2. executed \subseteq DOMAIN ops
    BY <2>1 DEF RInv, QInv, TypeOK
  <2>3. Dead(i) \/ Dead(j)
    BY <2>1, <2>2 DEF RInv, SpentOK
  <2>4. QED
    BY <2>1, <2>3 DEF Dead
<1>3. QED
  BY <1>1, <1>2, RewardsKept, PTL DEF Spec

-----------------------------------------------------------------------------
(* Points STC has taken are in the log.                                    *)

(* No request for id is left, and none was executed.                       *)
Gone(id) == id \notin executed /\ \A m \in net : m.id # id

(* A redeem is sent once.                                                  *)
SentOnce == \A m \in net : ops[m.id].kind = "redeem" => m.attempt = 1

(* The only answer that lets redeemPoints fail says the truth.             *)
RefusedOK ==
    \A r \in Requests : Redeeming(call[r]) =>
        \/ call[r].reply \in {"none", "ok", "critical"}
        \/ call[r].reply = "refused" /\ Gone(call[r].id)

Taken == Logged("redeem", "success") \cup Logged("redeem", "auto_reversed")

(* What became of a redeem.                                                *)
Followed(id) == \/ id \in Taken
                \/ \E r \in Requests : Redeeming(call[r]) /\ call[r].id = id
                \/ Gone(id)

AllFollowed ==
    failures = 0 => \A id \in DOMAIN ops : ops[id].kind = "redeem" => Followed(id)

Traced == SentOnce /\ RefusedOK /\ AllFollowed

LEMMA TakenStays ==
    ASSUME Entries(qtx) \subseteq Entries(qtx')
    PROVE  Taken \subseteq Taken'
<1>1. \A status, id : id \in Logged("redeem", status) => id \in Logged("redeem", status)'
  BY LoggedRows DEF Logged, Entries
<1>2. QED
  BY <1>1 DEF Taken

(* Steps that send nothing: a redeem that ends is in the log, or gone.     *)
LEMMA QuietKeepsTraces ==
    ASSUME Traced, UNCHANGED <<ops, net, stc>>,
           Entries(qtx) \subseteq Entries(qtx'),
           failures' = 0 => failures = 0,
           \A r \in Requests : Redeeming(call'[r]) =>
               /\ Redeeming(call[r])
               /\ call'[r].id = call[r].id /\ call'[r].reply = call[r].reply,
           \A r \in Requests : failures' = 0 /\ Redeeming(call[r]) =>
               \/ Redeeming(call'[r]) /\ call'[r].id = call[r].id
               \/ call[r].id \in Taken' \/ Gone(call[r].id)
    PROVE  Traced'
<1>1. UNCHANGED <<ops, net, executed>>
  BY DEF stc
<1>2. \A id : Gone(id) => Gone(id)'
  BY <1>1 DEF Gone
<1>3. SentOnce'
  BY <1>1 DEF Traced, SentOnce
<1>4. RefusedOK'
  BY <1>2 DEF Traced, RefusedOK
<1>5. AllFollowed'
  <2>1. SUFFICES ASSUME failures' = 0, NEW id \in DOMAIN ops, ops[id].kind = "redeem"
                 PROVE  Followed(id)'
    BY <1>1 DEF AllFollowed
  <2>2. Followed(id)
    BY <2>1 DEF Traced, AllFollowed
  <2>3. CASE id \in Taken
    BY <2>3, TakenStays DEF Followed
  <2>4. CASE Gone(id)
    BY <2>4, <1>2 DEF Followed
  <2>5. CASE \E r \in Requests : Redeeming(call[r]) /\ call[r].id = id
    <3>1. PICK r \in Requests : Redeeming(call[r]) /\ call[r].id = id
      BY <2>5
    <3>2. \/ Redeeming(call'[r]) /\ call'[r].id = id
          \/ id \in Taken' \/ Gone(id)
      BY <2>1, <3>1
    <3>3. QED
      BY <3>1, <3>2, <1>2 DEF Followed
  <2>6. QED
    BY <2>2, <2>3, <2>4, <2>5 DEF Followed
<1>6. QED
  BY <1>3, <1>4, <1>5 DEF Traced

(* A request under a new id, from a slot whose redeem, if any, is logged.  *)
LEMMA SendKeepsTraces ==
    ASSUME QInv, Traced, NEW r \in Requests, NEW c, NEW kind, NEW ref, NEW first,
           Send(r, c, kind, ref, first), c.id = NextId, c.reply = "none",
           kind = "redeem" => Redeeming(c) /\ c.attempt = 1,
           UNCHANGED stc, Entries(qtx) \subseteq Entries(qtx'),
           failures' = 0 => failures = 0,
           Redeeming(call[r]) => call[r].id \in Taken'
    PROVE  Traced'
<1>1. NextId \notin DOMAIN ops
  BY NextIdIsNew DEF QInv
<1>2. /\ DOMAIN ops' = DOMAIN ops \cup {NextId} /\ ops'[NextId].kind = kind
      /\ \A i \in DOMAIN ops : ops'[i] = ops[i]
      /\ net' = net \cup {[id |-> NextId, attempt |-> c.attempt]}
  BY <1>1 DEF Send
<1>3. \A s \in Requests : call'[s] = IF s = r THEN c ELSE call[s]
  BY DEF Send, QInv, TypeOK
<1>4. \A m \in net : m.id \in DOMAIN ops
  BY DEF QInv, NetOK
<1>5. \A s \in Requests : Redeeming(call[s]) => call[s].id \in DOMAIN ops
  BY DEF QInv, CallOK
<1>6. \A id \in DOMAIN ops : Gone(id) => Gone(id)'
  BY <1>1, <1>2 DEF Gone, stc
<1>7. SentOnce'
  BY <1>2, <1>4 DEF Traced, SentOnce
<1>8. RefusedOK'
  BY <1>3, <1>5, <1>6 DEF Traced, RefusedOK
<1>9. AllFollowed'
  <2>1. SUFFICES ASSUME failures' = 0, NEW id \in DOMAIN ops', ops'[id].kind = "redeem"
                 PROVE  Followed(id)'
    BY DEF AllFollowed
  <2>2. CASE id = NextId
    BY <2>1, <2>2, <1>2, <1>3 DEF Followed
  <2>3. CASE id \in DOMAIN ops
    <3>1. Followed(id)
      BY <2>1, <2>3, <1>2 DEF Traced, AllFollowed
    <3>2. CASE \E s \in Requests : Redeeming(call[s]) /\ call[s].id = id
      BY <3>2, <1>3 DEF Followed
    <3>3. CASE id \in Taken \/ Gone(id)
      BY <3>3, <2>3, <1>6, TakenStays DEF Followed
    <3>4. QED
      BY <3>1, <3>2, <3>3 DEF Followed
  <2>4. QED
    BY <2>2, <2>3, <1>2
<1>10. QED
  BY <1>7, <1>8, <1>9 DEF Traced

(* A reward that is sent again under its id.                               *)
LEMMA ResendKeepsTraces ==
    ASSUME QInv, Traced, NEW r \in Requests, NEW c, NEW kind, NEW ref, NEW first,
           Send(r, c, kind, ref, first), Rewarding(call[r]),
           c.id = call[r].id, c.pc = call[r].pc,
           UNCHANGED <<qtx, stc>>, failures' = 0 => failures = 0
    PROVE  Traced'
<1>1. /\ call[r].id \in DOMAIN ops /\ ops[call[r].id].kind # "redeem"
      /\ ~Redeeming(call[r]) /\ ~Redeeming(c)
  BY EarnIdsKnown DEF Rewarding, Redeeming
<1>2. UNCHANGED ops
  <2>1. ops \in [DOMAIN ops -> Operations]
    BY DEF QInv, TypeOK
  <2>2. QED
    BY <2>1, <1>1 DEF Send
<1>3. net' = net \cup {[id |-> call[r].id, attempt |-> c.attempt]}
  BY DEF Send
<1>4. \A s \in Requests : call'[s] = IF s = r THEN c ELSE call[s]
  BY DEF Send, QInv, TypeOK
<1>5. \A s \in Requests : Redeeming(call[s]) => ops[call[s].id].kind = "redeem"
  BY DEF QInv, CallOK
<1>6. ASSUME NEW id, ops[id].kind = "redeem", Gone(id) PROVE Gone(id)'
  BY <1>1, <1>3, <1>6 DEF Gone, stc
<1>7. SentOnce'
  BY <1>1, <1>2, <1>3 DEF Traced, SentOnce
<1>8. RefusedOK'
  BY <1>1, <1>4, <1>5, <1>6 DEF Traced, RefusedOK
<1>9. AllFollowed'
  <2>1. SUFFICES ASSUME failures' = 0, NEW id \in DOMAIN ops, ops[id].kind = "redeem"
                 PROVE  Followed(id)'
    BY <1>2 DEF AllFollowed
  <2>2. Followed(id)
    BY <2>1 DEF Traced, AllFollowed
  <2>3. Taken' = Taken
    BY DEF Taken, Logged
  <2>4. QED
    BY <2>1, <2>2, <2>3, <1>1, <1>4, <1>6 DEF Followed
<1>10. QED
  BY <1>7, <1>8, <1>9 DEF Traced

(* A refused redeem was not executed, and its only request has arrived.    *)
LEMMA ProcessKeepsTraces ==
    ASSUME QInv, Traced, NEW m \in net, Process(m)
    PROVE  Traced'
<1>1. /\ executed' \subseteq executed \cup {m.id}
      /\ net' = net \ {m} /\ UNCHANGED <<ops, qtx, failures>>
  BY ProcessAnswers DEF Process
<1> DEFINE op == ops[m.id]
           W == {q \in InFlight : call[q].id = m.id /\ call[q].attempt = m.attempt}
<1>2. PICK code :
        /\ call' = [q \in Requests |-> IF q \in W THEN [call[q] EXCEPT !.reply = code]
                                                  ELSE call[q]]
        /\ op.kind = "redeem" => \/ code \in {"ok", "critical"}
                                 \/ code = "refused" /\ m.id \notin executed'
  BY DEF Process, stc
<1>3. \A q \in W : call[q].id = m.id
  OBVIOUS
<1> HIDE DEF W
<1>4. ASSUME NEW s \in Requests
      PROVE  /\ call'[s].pc = call[s].pc /\ call'[s].id = call[s].id
             /\ call'[s].reply = IF s \in W THEN code ELSE call[s].reply
  <2>1. call[s] \in Calls
    BY DEF QInv, TypeOK
  <2>2. QED
    BY <1>2, <2>1 DEF Calls
<1>5. ASSUME NEW id, Gone(id) PROVE Gone(id)'
  BY <1>1, <1>5 DEF Gone
<1>6. op.kind = "redeem" /\ m.id \notin executed' => Gone(m.id)'
  <2>1. SUFFICES ASSUME op.kind = "redeem", m.id \notin executed', NEW n \in net, n.id = m.id
                 PROVE  n = m
    BY <1>1 DEF Gone
  <2>2. n.attempt = 1 /\ m.attempt = 1
    BY <2>1 DEF Traced, SentOnce
  <2>3. n \in Messages /\ m \in Messages
    BY DEF QInv, TypeOK
  <2>4. QED
    BY <2>1, <2>2, <2>3 DEF Messages
<1>7. SentOnce'
  BY <1>1 DEF Traced, SentOnce
<1>8. RefusedOK'
  <2>1. SUFFICES ASSUME NEW s \in Requests, Redeeming(call[s])
                 PROVE  \/ call'[s].reply \in {"none", "ok", "critical"}
                        \/ call'[s].reply = "refused" /\ Gone(call[s].id)'
    BY <1>4 DEF RefusedOK, Redeeming
  <2>2. CASE s \in W
    <3>1. call[s].id = m.id /\ op.kind = "redeem"
      BY <2>1, <2>2, <1>3 DEF QInv, CallOK
    <3>2. QED
      BY <3>1, <2>2, <1>2, <1>4, <1>6
  <2>3. CASE s \notin W
    BY <2>1, <2>3, <1>4, <1>5 DEF Traced, RefusedOK
  <2>4. QED
    BY <2>2, <2>3
<1>9. AllFollowed'
  <2>1. SUFFICES ASSUME failures' = 0, NEW id \in DOMAIN ops, ops[id].kind = "redeem"
                 PROVE  Followed(id)'
    BY <1>1 DEF AllFollowed
  <2>2. Followed(id)
    BY <2>1, <1>1 DEF Traced, AllFollowed
  <2>3. Taken' = Taken
    BY <1>1 DEF Taken, Logged
  <2>4. QED
    BY <2>2, <2>3, <1>4, <1>5 DEF Followed, Redeeming
<1>10. QED
  BY <1>7, <1>8, <1>9 DEF Traced

LEMMA TracesKept == QInv /\ Traced /\ [Next]_vars => Traced'
<1> SUFFICES ASSUME QInv, Traced, [Next]_vars PROVE Traced'
  OBVIOUS
<1>0. \A r \in Requests : call[r] \in Calls
  BY DEF QInv, TypeOK
<1>1. CASE \E m \in net : Process(m)
  BY <1>1, ProcessKeepsTraces
<1>2. ASSUME NEW r \in Requests, RewardRetries(r) PROVE Traced'
  <2>1. PICK outcome \in Outcomes :
          /\ Outcome(r, outcome) /\ Retriable(outcome)
          /\ Send(r, [call[r] EXCEPT !.id = RetryId(call[r].id, outcome),
                                     !.attempt = @ + 1, !.reply = "none"],
                  call[r].pc, call[r].ref, ops[call[r].id].first)
    BY <1>2 DEF RewardRetries
  <2> DEFINE c == [call[r] EXCEPT !.id = RetryId(call[r].id, outcome),
                                  !.attempt = @ + 1, !.reply = "none"]
  <2>2. Rewarding(call[r]) /\ ~Redeeming(call[r]) /\ UNCHANGED <<qtx, stc>>
    BY <1>2 DEF RewardRetries, At, Rewarding, Redeeming
  <2>3. failures' = failures
    BY <2>1 DEF Outcome, Retriable
  <2>4. c.id = RetryId(call[r].id, outcome) /\ c.reply = "none" /\ c.pc = call[r].pc
    BY <1>0 DEF Calls
  <2>5. Send(r, c, call[r].pc, call[r].ref, ops[call[r].id].first)
    BY <2>1
  <2> HIDE DEF c
  <2>6. CASE outcome = "timeout"
    <3>1. c.id = call[r].id
      BY <2>4, <2>6 DEF RetryId
    <3>2. QED
      BY <3>1, <2>2, <2>3, <2>4, <2>5, ResendKeepsTraces
  <2>7. CASE outcome # "timeout"
    <3>1. c.id = NextId
      BY <2>4, <2>7 DEF RetryId
    <3>2. call[r].pc # "redeem" /\ Entries(qtx) \subseteq Entries(qtx')
      BY <2>2 DEF Redeeming, Entries
    <3>3. QED
      BY <3>1, <3>2, <2>2, <2>3, <2>4, <2>5, SendKeepsTraces
  <2>8. QED
    BY <2>6, <2>7
<1>3. ASSUME NEW r \in Requests,
             Start(r) \/ TryAutoEarn(r) \/ RedeemReverses(r)
      PROVE  Traced'
  <2>1. UNCHANGED stc
    BY <1>3, FirstSends
  <2>2. PICK c, kind, ref :
          /\ Send(r, c, kind, ref, NextId) /\ c.id = NextId /\ c.reply = "none"
          /\ kind = "redeem" => Redeeming(c) /\ c.attempt = 1
    BY <1>3, FirstSends
  <2>3. /\ Entries(qtx) \subseteq Entries(qtx')
        /\ failures' = 0 => failures = 0
        /\ Redeeming(call[r]) => call[r].id \in Taken'
    <3>1. CASE Start(r) \/ TryAutoEarn(r)
      <4>1. UNCHANGED <<qtx, failures>>
        BY <3>1 DEF Start, TryAutoEarn, Redeem, ReverseRedeem, ReverseRedeemByMsisdn,
           Refund, StartReverse, EarnReward, UpdateReward
      <4>2. call[r].pc \in {"idle", "autoEarn"}
        BY <3>1 DEF Start, TryAutoEarn, Redeem, ReverseRedeem, ReverseRedeemByMsisdn,
           Refund, StartReverse, EarnReward, UpdateReward, At
      <4>3. QED
        BY <4>1, <4>2 DEF Entries, Redeeming
    <3>2. CASE RedeemReverses(r)
      <4> DEFINE row == [type |-> "redeem", id |-> call[r].id, ref |-> 0,
                         status |-> "auto_reversed", invoice |-> call[r].invoice]
      <4>1. /\ qtx' = Append(qtx, row)
            /\ \E outcome \in Outcomes : Outcome(r, outcome)
        BY <3>2 DEF RedeemReverses, Log
      <4>2. failures' = 0 => failures = 0
        BY <4>1 DEF Outcome, QInv, TypeOK
      <4>3. row \in Rows
        BY <1>0, QitafAssumption DEF Rows, Calls, Kinds
      <4>4. Entries(qtx') = Entries(qtx) \cup {row}
        BY <4>1, <4>3, EntryAdded DEF QInv, TypeOK
      <4>5. call[r].id \in Taken'
        <5>1. PICK k \in DOMAIN qtx' : qtx'[k] = row
          BY <4>4 DEF Entries
        <5>2. call[r].id \in Logged("redeem", "auto_reversed")'
          BY <5>1 DEF Logged
        <5>3. QED
          BY <5>2 DEF Taken
      <4>6. QED
        BY <4>2, <4>4, <4>5
    <3>3. QED
      BY <1>3, <3>1, <3>2
  <2>4. QED
    BY <2>1, <2>2, <2>3, SendKeepsTraces
<1>4. CASE \/ \E r \in Requests :
                 \/ RedeemSucceeds(r) \/ RedeemLogged(r) \/ RedeemNotLogged(r)
                 \/ RedeemFails(r) \/ Reversed(r) \/ NoAutoEarn(r) \/ RewardReturns(r)
           \/ RequestOtp \/ Crash \/ UNCHANGED vars
  <2>1. UNCHANGED <<ops, net, stc>>
    BY <1>4 DEF RedeemSucceeds, RedeemLogged, RedeemNotLogged, RedeemFails, Reversed,
       NoAutoEarn, RewardReturns, RequestOtp, Crash, vars
  <2>2. ASSUME NEW r \in Requests, NEW c, call' = [call EXCEPT ![r] = c],
               \/ ~Redeeming(c)
               \/ Redeeming(call[r]) /\ c.id = call[r].id /\ c.reply = call[r].reply,
               Entries(qtx) \subseteq Entries(qtx'), failures' = 0 => failures = 0,
               failures' = 0 /\ Redeeming(call[r]) /\ ~Redeeming(c) =>
                   call[r].id \in Taken' \/ Gone(call[r].id)
        PROVE  Traced'
    <3>1. \A s \in Requests : call'[s] = IF s = r THEN c ELSE call[s]
      BY <2>2 DEF QInv, TypeOK
    <3>2. QED
      BY <2>1, <2>2, <3>1, QuietKeepsTraces
  <2>3. ~Redeeming(Idle) /\ ~Redeeming([Idle EXCEPT !.pc = "autoEarn"])
    BY DEF Idle, Redeeming
  <2>4. ASSUME NEW r \in Requests, RedeemSucceeds(r) PROVE Traced'
    <3> DEFINE c == [call[r] EXCEPT !.pc = "logRedeem"]
    <3>1. /\ call' = [call EXCEPT ![r] = c]
          /\ c.id = call[r].id /\ c.reply = call[r].reply
          /\ Redeeming(c) /\ Redeeming(call[r])
      BY <2>4, <1>0 DEF RedeemSucceeds, At, Redeeming, Calls, QInv, TypeOK
    <3>2. Entries(qtx) \subseteq Entries(qtx')
      BY <2>4 DEF RedeemSucceeds, Entries
    <3>3. failures' = 0 => failures = 0
      BY <2>4 DEF RedeemSucceeds, Outcome, QInv, TypeOK
    <3> HIDE DEF c
    <3>4. QED
      BY <3>1, <3>2, <3>3, <2>2
  <2>5. ASSUME NEW r \in Requests, NoAutoEarn(r) PROVE Traced'
    <3>1. /\ call' = [call EXCEPT ![r] = Idle] /\ ~Redeeming(call[r])
          /\ UNCHANGED <<qtx, failures>>
      BY <2>5 DEF NoAutoEarn, Return, At, Redeeming
    <3>2. Entries(qtx) \subseteq Entries(qtx')
      BY <3>1 DEF Entries
    <3>3. QED
      BY <3>1, <3>2, <2>2, <2>3
  <2>6. ASSUME NEW r \in Requests, NEW type \in Kinds,
               NEW status \in {"success", "failed", "auto_reversed"},
               NEW invoice \in {call[r].invoice, NoInvoice}, NEW ref \in {0, call[r].ref},
               Log(type, call[r].id, ref, status, invoice)
        PROVE  /\ Entries(qtx) \subseteq Entries(qtx')
               /\ type = "redeem" /\ status = "success" => call[r].id \in Taken'
    <3> DEFINE row == [type |-> type, id |-> call[r].id, ref |-> ref,
                       status |-> status, invoice |-> invoice]
    <3>0. row \in Rows
      BY <1>0, <2>6, QitafAssumption DEF Rows, Calls
    <3>1. Entries(qtx') = Entries(qtx) \cup {row}
      BY <2>6, <3>0, EntryAdded DEF QInv, TypeOK, Log
    <3>2. PICK k \in DOMAIN qtx' : qtx'[k] = row
      BY <3>1 DEF Entries
    <3>3. call[r].id \in Logged(type, status)'
      BY <3>2 DEF Logged
    <3>4. QED
      BY <3>1, <3>3 DEF Taken
  <2>7. ASSUME NEW r \in Requests, RedeemLogged(r) PROVE Traced'
    <3>1. PICK c : /\ call' = [call EXCEPT ![r] = c] /\ ~Redeeming(c)
                   /\ Log("redeem", call[r].id, 0, "success", call[r].invoice)
                   /\ UNCHANGED failures
      BY <2>7, <2>3 DEF RedeemLogged, Return
    <3>2. Entries(qtx) \subseteq Entries(qtx') /\ call[r].id \in Taken'
      BY <3>1, <2>6 DEF Kinds
    <3>3. QED
      BY <3>1, <3>2, <2>2
  <2>8. ASSUME NEW r \in Requests, RedeemNotLogged(r) PROVE Traced'
    <3>1. /\ call' = [call EXCEPT ![r] = Idle]
          /\ Log("redeem", call[r].id, 0, "failed", call[r].invoice)
          /\ failures' # 0
      BY <2>8 DEF RedeemNotLogged, Return, QInv, TypeOK
    <3>2. Entries(qtx) \subseteq Entries(qtx')
      BY <3>1, <2>6 DEF Kinds
    <3>3. QED
      BY <3>1, <3>2, <2>2, <2>3
  <2>9. ASSUME NEW r \in Requests, RedeemFails(r) PROVE Traced'
    <3>1. /\ call' = [call EXCEPT ![r] = Idle] /\ Redeeming(call[r])
          /\ Log("redeem", call[r].id, 0, "failed", call[r].invoice)
      BY <2>9 DEF RedeemFails, Return, At, Redeeming
    <3>2. Entries(qtx) \subseteq Entries(qtx')
      BY <3>1, <2>6 DEF Kinds
    <3>3. PICK outcome \in Outcomes :
            Outcome(r, outcome) /\ ~Succeeds(outcome) /\ ~MustReverse(outcome)
      BY <2>9 DEF RedeemFails
    <3>4. failures' = 0 => failures = 0 /\ outcome \in Codes
      BY <3>3 DEF Outcome, MustReverse, QInv, TypeOK
    <3>5. failures' = 0 => Gone(call[r].id)
      BY <3>1, <3>3, <3>4, OutcomeKnown
         DEF Succeeds, MustReverse, Codes, Traced, RefusedOK
    <3>6. QED
      BY <3>1, <3>2, <3>4, <3>5, <2>2, <2>3
  <2>10. ASSUME NEW r \in Requests, Reversed(r) PROVE Traced'
    <3>1. PICK outcome \in Outcomes :
            /\ Outcome(r, outcome)
            /\ Log("reverse", call[r].id, call[r].ref,
                   IF ReverseSucceeds(outcome) THEN "success" ELSE "failed", NoInvoice)
      BY <2>10 DEF Reversed
    <3>2. call' = [call EXCEPT ![r] = Idle] /\ ~Redeeming(call[r])
      BY <2>10 DEF Reversed, Return, At, Redeeming
    <3>3. Entries(qtx) \subseteq Entries(qtx')
      BY <3>1, <2>6 DEF Kinds
    <3>4. failures' = 0 => failures = 0
      BY <3>1 DEF Outcome, QInv, TypeOK
    <3>5. QED
      BY <3>2, <3>3, <3>4, <2>2, <2>3
  <2>11. ASSUME NEW r \in Requests, RewardReturns(r) PROVE Traced'
    <3>1. PICK outcome \in Outcomes :
            /\ Outcome(r, outcome)
            /\ Log(call[r].pc, call[r].id, call[r].ref,
                   IF Succeeds(outcome) THEN "success" ELSE "failed", NoInvoice)
      BY <2>11 DEF RewardReturns
    <3>2. /\ call' = [call EXCEPT ![r] = Idle] /\ ~Redeeming(call[r])
          /\ call[r].pc \in Kinds
      BY <2>11 DEF RewardReturns, Return, At, Redeeming, Kinds
    <3>3. Entries(qtx) \subseteq Entries(qtx')
      BY <3>1, <3>2, <2>6
    <3>4. failures' = 0 => failures = 0
      BY <3>1 DEF Outcome, QInv, TypeOK
    <3>5. QED
      BY <3>2, <3>3, <3>4, <2>2, <2>3
  <2>12. CASE Crash
    <3>1. /\ \A r \in Requests : call'[r] = Idle
          /\ failures' # 0 /\ UNCHANGED qtx
      BY <2>12 DEF Crash, QInv, TypeOK
    <3>2. Entries(qtx) \subseteq Entries(qtx')
      BY <3>1 DEF Entries
    <3>3. QED
      BY <3>1, <3>2, <2>1, <2>3, QuietKeepsTraces
  <2>13. CASE RequestOtp
    <3>1. PICK row \in Rows : qtx' = Append(qtx, row)
      BY <2>13, QitafAssumption DEF RequestOtp, Log, Rows
    <3>2. Entries(qtx) \subseteq Entries(qtx')
      BY <3>1, EntryAdded DEF QInv, TypeOK
    <3>3. UNCHANGED <<call, failures>>
      BY <2>13 DEF RequestOtp
    <3>4. QED
      BY <3>2, <3>3, <2>1, QuietKeepsTraces
  <2>14. CASE UNCHANGED vars
    <3>1. UNCHANGED <<qtx, call, failures>>
      BY <2>14 DEF vars, local
    <3>2. Entries(qtx) \subseteq Entries(qtx')
      BY <3>1 DEF Entries
    <3>3. QED
      BY <3>1, <3>2, <2>1, QuietKeepsTraces
  <2>15. QED
    BY <1>4, <2>4, <2>5, <2>7, <2>8, <2>9, <2>10, <2>11, <2>12, <2>13, <2>14
<1>5. QED
  BY <1>1, <1>2, <1>3, <1>4 DEF Next, Continue

(* Unless a connection or a save failed, points that STC has taken are     *)
(* points the log knows of, or the redeem of a call in flight.             *)
THEOREM StandingLogged == Spec => []StandingIsLogged
<1>1. Init => QInv /\ Traced
  <2>1. SUFFICES ASSUME Init PROVE Traced
    BY InitGives
  <2>2. DOMAIN ops = {} /\ net = {} /\ \A r \in Requests : call[r] = Idle
    BY <2>1 DEF Init
  <2>3. Idle.pc = "idle"
    BY DEF Idle
  <2>4. QED
    BY <2>2, <2>3 DEF Traced, SentOnce, RefusedOK, AllFollowed, Redeeming
<1>2. QInv /\ Traced => StandingIsLogged
  <2>1. SUFFICES ASSUME QInv, Traced, failures = 0, NEW id \in Standing
                 PROVE  id \in Taken \/ \E r \in Requests : call[r].id = id
    BY DEF StandingIsLogged, Taken
  <2>2. id \in executed /\ id \in DOMAIN ops /\ ops[id].kind = "redeem"
    BY <2>1 DEF Standing, QInv, TypeOK
  <2>3. QED
    BY <2>1, <2>2 DEF Traced, AllFollowed, Followed, Gone
<1>3. QED
  BY <1>1, <1>2, NextKeeps, TracesKept, PTL DEF Spec

=============================================================================
