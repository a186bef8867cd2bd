---------------------------- MODULE PartnerAccount ----------------------------
(***************************************************************************)
(* What a partner that keeps the points and the log beside it promise each *)
(* other, whatever the network does: an operation is carried out once, a   *)
(* redemption is returned once, and the log records only what was carried  *)
(* out and not yet returned, and returns that took place.  Module Qitaf    *)
(* implements it.                                                          *)
(***************************************************************************)
CONSTANT Ids        \* of operations

VARIABLES
    done,               \* operations the partner carried out
    returned,           \* redemptions whose points it gave back
    recorded,           \* operations logged as a success
    recordedReturns     \* redemptions whose return is logged as a success

vars == <<done, returned, recorded, recordedReturns>>

Init ==
    /\ done = {} /\ returned = {}
    /\ recorded = {} /\ recordedReturns = {}

CarryOut(id) ==
    /\ id \notin done
    /\ done' = done \cup {id}
    /\ UNCHANGED <<returned, recorded, recordedReturns>>

(* A return is an operation too.                                           *)
Return(id, by) ==
    /\ id \in done \ returned /\ by \notin done
    /\ done' = done \cup {by} /\ returned' = returned \cup {id}
    /\ UNCHANGED <<recorded, recordedReturns>>

Record(id) ==
    /\ id \in done \ returned
    /\ recorded' = recorded \cup {id}
    /\ UNCHANGED <<done, returned, recordedReturns>>

RecordReturn(id) ==
    /\ id \in returned
    /\ recordedReturns' = recordedReturns \cup {id}
    /\ UNCHANGED <<done, returned, recorded>>

Next == \E id, by \in Ids : \/ CarryOut(id) \/ Return(id, by)
                            \/ Record(id) \/ RecordReturn(id)

Spec == Init /\ [][Next]_vars

(* The log never claims more than the partner did.                         *)
Truthful ==
    /\ returned \subseteq done
    /\ recorded \subseteq done /\ recordedReturns \subseteq returned

=============================================================================
