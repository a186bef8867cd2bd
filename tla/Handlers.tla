-------------------------------- MODULE Handlers --------------------------------
(***************************************************************************)
(* The requests in flight: of each, the place in the code its handler has  *)
(* got to, and what it holds in memory.  A step moves one of them on, and  *)
(* a handler that returns, or dies, forgets its memory.                    *)
(***************************************************************************)
CONSTANT Requests   \* slots for requests in flight

VARIABLE req

Idle == [pc |-> "idle"]
Busy == \E r \in Requests : req[r] # Idle
At(r, pc) == req[r].pc = pc
Go(r, q) == req' = [req EXCEPT ![r] = q]
Return(r) == req' = [req EXCEPT ![r] = Idle]

=============================================================================
