----------------------------- MODULE OrderLife -----------------------------
(***************************************************************************)
(* What a customer is promised about an order: it is accepted, brought to  *)
(* a gate and delivered there; it may be cancelled until it is at the      *)
(* gate, and expires when nobody picks it up; and a delivered or cancelled *)
(* order stays so.                                                         *)
(***************************************************************************)
CONSTANT Order

VARIABLE status

Init == status = [o \in Order |-> "none"]

Become(o, from, to) == status[o] \in from /\ status' = [status EXCEPT ![o] = to]

Place(o)   == Become(o, {"none"}, "pending")
Accept(o)  == Become(o, {"pending"}, "processing")
Ready(o)   == Become(o, {"processing"}, "awaiting_pickup")
Deliver(o) == Become(o, {"awaiting_pickup"}, "delivered")
Cancel(o)  == Become(o, {"pending", "processing"}, "cancelled")
Expire(o)  == Become(o, {"awaiting_pickup"}, "cancelled")

Next ==
  \E o \in Order :
    Place(o) \/ Accept(o) \/ Ready(o) \/ Deliver(o) \/ Cancel(o) \/ Expire(o)

Spec == Init /\ [][Next]_status
=============================================================================
