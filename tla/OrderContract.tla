---------------------------- MODULE OrderContract ----------------------------
(***************************************************************************)
(* What the platform promises about an order, whoever acts on it: the      *)
(* lifecycle of docs/VENDOR-API.md and ORDER_TRANSITIONS, who may cancel   *)
(* and until when, who holds the order, and what happens to cash taken     *)
(* for it.  Every step is atomic here: no sessions, no locks, no clock.    *)
(***************************************************************************)
CONSTANTS Orders, Riders, CashOrders, None

VARIABLES status, rider, cancelledBy, money

contract == <<status, rider, cancelledBy, money>>

Init ==
    /\ status = [o \in Orders |-> "PENDING"]
    /\ rider = [o \in Orders |-> None]
    /\ cancelledBy = [o \in Orders |-> None]
    /\ money = [o \in Orders |-> "PENDING"]

\* The statuses in which each actor may cancel: CANCELLABLE_STATUSES for the
\* customer, VENDOR_CANCELLABLE, every state with a CANCELLED edge for an
\* operator, and PENDING for the sweep.
CancellableBy(actor) ==
    CASE actor = "CUSTOMER" -> {"PENDING"}
      [] actor = "VENDOR"   -> {"PENDING", "PREPARING"}
      [] actor = "ADMIN"    -> {"PENDING", "PREPARING", "READY"}
      [] actor = "SYSTEM"   -> {"PENDING"}

Becomes(o, st, r, by, m) ==
    status'[o] = st /\ rider'[o] = r /\ cancelledBy'[o] = by /\ money'[o] = m

Same(o) == Becomes(o, status[o], rider[o], cancelledBy[o], money[o])

Accept(o) ==
    /\ status[o] = "PENDING"
    /\ Becomes(o, "PREPARING", rider[o], cancelledBy[o], money[o])

Ready(o) ==
    /\ status[o] = "PREPARING"
    /\ Becomes(o, "READY", rider[o], cancelledBy[o], money[o])

Collect(o) ==
    /\ status[o] = "READY"
    /\ rider[o] # None
    /\ Becomes(o, "PICKED_UP", rider[o], cancelledBy[o], money[o])

Deliver(o) ==
    /\ status[o] = "PICKED_UP"
    /\ Becomes(o, "DELIVERED", rider[o], cancelledBy[o],
               IF o \in CashOrders THEN "PAID" ELSE money[o])

Cancel(o, actor) ==
    /\ status[o] \in CancellableBy(actor)
    /\ Becomes(o, "CANCELLED", rider[o], actor,
               IF money[o] = "PAID" THEN "REFUNDED" ELSE money[o])

\* A rider can only change up to the moment the food does.
Assign(o, r) ==
    /\ status[o] \in {"PENDING", "PREPARING", "READY"}
    /\ Becomes(o, status[o], r, cancelledBy[o], money[o])

Refund(o) ==
    /\ money[o] = "PAID"
    /\ Becomes(o, status[o], rider[o], cancelledBy[o], "REFUNDED")

Step(o) ==
    \/ Accept(o) \/ Ready(o) \/ Collect(o) \/ Deliver(o) \/ Refund(o)
    \/ \E actor \in {"CUSTOMER", "VENDOR", "ADMIN", "SYSTEM"} : Cancel(o, actor)
    \/ \E r \in Riders : Assign(o, r)

\* One sweep declines every overdue order at once, so several orders may step.
Next ==
    /\ DOMAIN status' = Orders /\ DOMAIN rider' = Orders
    /\ DOMAIN cancelledBy' = Orders /\ DOMAIN money' = Orders
    /\ \A o \in Orders : Step(o) \/ Same(o)

Spec == Init /\ [][Next]_contract
=============================================================================
