------------------------------- MODULE Live --------------------------------
(***************************************************************************)
(* What phones and screens learn of one order: the channels of             *)
(* app/services/realtime.py and endpoints/ws.py, the pushes of             *)
(* app/services/order_push.py, and where its rider is                      *)
(* (app/services/rider/tracking.py, app/core/redis.py, rider/dispatch.py). *)
(* The third screen is the riders' list of offers (rider/offers.py).       *)
(*                                                                         *)
(* A handler moves the order, commits, then publishes and queues a push:   *)
(* `tasks` holds what a process still has to do after its commit.  Where   *)
(* requests overlap a process may also die, and Redis and FCM fail.  Redis *)
(* is a table whose rows change at once.  Left out: which of two nearby    *)
(* riders is nearer, ETAs, wording.                                        *)
(***************************************************************************)
EXTENDS Desk

CONSTANTS
    Riders,
    Tasks,      \* ids, bounded
    Scripts

Trackable == {"READY", "PICKED_UP"}
OFFERABLE == {"PREPARING", "READY"}

\* The map of a customer: the last position it was sent, for which status.
NoDot == [rider |-> None, status |-> None]

Init == Opens([orders |-> Only(1, [status |-> "PENDING", rider |-> None, by |-> None]),
               history |-> [st \in {"PENDING"} |-> [at |-> TRUE]],
               riders |-> [r \in Riders |-> [online |-> TRUE]],
               redis |-> [r \in Riders |-> [geo |-> FALSE, state |-> FALSE]],
               tasks |-> Nothing,
               screens |-> [x \in {"vendor", "customer"} |->
                   [state |-> IF x = "vendor" THEN "open" ELSE "closed", shows |-> "PENDING", rider |-> None,
                    dot |-> NoDot]],
               cards |-> Only(1, [up |-> FALSE]),
               told |-> Nothing], Scripts)

Settle(d) == {d}

(***************************************************************************)
(* The order moves (OrderLifecycle has the whole of it)                    *)
(***************************************************************************)
Moves == {<<"PENDING", "PREPARING", None>>, <<"PREPARING", "READY", None>>,
          <<"READY", "PICKED_UP", None>>, <<"PICKED_UP", "DELIVERED", None>>,
          <<"PENDING", "CANCELLED", "CUSTOMER">>, <<"PENDING", "CANCELLED", "SYSTEM">>}
         \cup {<<s, "CANCELLED", "VENDOR">> : s \in {"PENDING", "PREPARING"}}
         \cup {<<s, "CANCELLED", "ADMIN">> : s \in {"PENDING", "PREPARING", "READY"}}

\* What is left to do, in this order, once the transition is committed.
Announcing(d, status) ==
    IF Fresh("tasks", Tasks) = {} THEN {}
    ELSE {[d EXCEPT !.tasks = Add(@, Least(Fresh("tasks", Tasks)),
             [to |-> "vendor", status |-> status, rider |-> None])]}

move(d, m) ==
    IF d.orders[1].status # m[1] \/ (m[2] = "PICKED_UP" /\ d.orders[1].rider = None) THEN {}
    ELSE Announcing([d EXCEPT !.orders[1].status = m[2], !.orders[1].by = m[3],
                               !.history = Add(@, m[2], [at |-> TRUE])], m[2])

\* An offer: nobody carries it yet.
_open(d) == d.orders[1].rider = None /\ d.orders[1].status \in OFFERABLE

\* An offer accepted, or an operator's choice; the card is to be taken down.
assign_rider(d, r) ==
    IF d.orders[1].status \notin {"PENDING", "PREPARING", "READY"} \/ Fresh("tasks", Tasks) = {} THEN {}
    ELSE {[d EXCEPT !.orders[1].rider = r,
                    !.tasks = Add(@, Least(Fresh("tasks", Tasks)), [to |-> "taken", status |-> None, rider |-> r])]}

(***************************************************************************)
(* Announcements                                                           *)
(***************************************************************************)
Done(d, t) == [d EXCEPT !.tasks = Drop(@, {t})]
Reaches(d, screen) == d.screens[screen].state = "open"

\* publish reaches who is subscribed, if Redis answers; it never raises.
publish(d, screen, Shown(_)) ==
    {IF Reaches(d, screen) THEN [d EXCEPT !.screens[screen] = Shown(@)] ELSE d}
    \cup {x \in {d} : script.overlap}

\* Mutant of _publish_both: the customer's channel is left out.
PublishOne(d, t) ==
    LET task == d.tasks[t]
        Shown(sc) == IF task.status = None THEN [sc EXCEPT !.rider = d.orders[1].rider]
                     ELSE [sc EXCEPT !.shows = task.status]
    IN  {IF task.status = None THEN Done(x, t) ELSE [x EXCEPT !.tasks[t].to = "push"] :
            x \in publish(d, "vendor", Shown)}

\* The vendor's channel, then the order's: a status, or that there is a rider,
\* whose name the screen then fetches.
_publish_both(d, t) ==
    LET task == d.tasks[t]
        Shown(sc) == IF task.status = None THEN [sc EXCEPT !.rider = d.orders[1].rider]
                     ELSE [sc EXCEPT !.shows = task.status]
        next == IF task.to = "vendor" THEN "customer"
                ELSE IF task.status \in OFFERABLE THEN "offers" ELSE "push"
    IN  {IF task.to = "customer" /\ task.status = None THEN Done(x, t) ELSE [x EXCEPT !.tasks[t].to = next] :
            x \in publish(d, task.to, Shown)}

\* The riders' cards, on every phone that has the list open.
Carded(d, up) == {[d EXCEPT !.cards[1].up = up]} \cup {x \in {d} : script.overlap}

\* Mutant of announce: offered whether or not somebody carries it.
AnnounceAnyway(d, t) == {[d EXCEPT !.tasks[t].to = "card"]}

\* The order is read again, and offered if it still is an offer.
announce(d, t) == {[d EXCEPT !.tasks[t].to = IF _open(d) THEN "card" ELSE "push"]}
ShowCard(d, t) == {[x EXCEPT !.tasks[t].to = "push"] : x \in Carded(d, TRUE)}

announce_taken(d, t) == {[x EXCEPT !.tasks[t].to = "vendor"] : x \in Carded(d, FALSE)}

list_offers(d) == {[d EXCEPT !.cards[1].up = _open(d)]}

\* Mutant of _cancelled: support's cancellation is told to the customer alone.
CancelledToCustomer(order) ==
    CASE order.by = "CUSTOMER" -> {"VENDOR"}
      [] order.by = "SYSTEM" -> {"CUSTOMER", "VENDOR"}
      [] OTHER -> {"CUSTOMER"}

_cancelled(order) ==
    CASE order.by = "CUSTOMER" -> {"VENDOR"}
      [] order.by = "SYSTEM" -> {"CUSTOMER", "VENDOR"}
      [] order.by = "VENDOR" -> {"CUSTOMER"}
      [] OTHER -> {"CUSTOMER", "VENDOR"} \cup ({order.rider} \ {None})

\* Who hears of a status, from the order as it is when the push runs.
plan_status(order, status) ==
    CASE status \in {"PREPARING", "PICKED_UP", "DELIVERED"} -> {"CUSTOMER"}
      [] status = "READY" -> {order.rider} \ {None}
      [] status = "CANCELLED" -> _cancelled(order)
      [] OTHER -> {"VENDOR"}

\* The push is best effort: if FCM does not take it, it is as if the process died.
_deliver(d, t) ==
    LET status == d.tasks[t].status
        told == {<<who, status>> : who \in plan_status(d.orders[1], status)}
    IN  {[Done(d, t) EXCEPT !.told = Joined(@, [x \in told |-> [told |-> TRUE]])]}

(***************************************************************************)
(* The customer's map                                                      *)
(***************************************************************************)
\* A position, never one nobody has confirmed of late.
position_for_order(d) ==
    LET o == d.orders[1]
    IN  IF o.rider # None /\ o.status \in Trackable /\ d.redis[o.rider].state
        THEN [rider |-> o.rider, status |-> o.status] ELSE NoDot

\* The handshake reads the order and the position, sends them, and only then
\* subscribes.
snapshot(d) ==
    IF d.screens["customer"].state # "closed" THEN {}
    ELSE {[d EXCEPT !.screens["customer"] = [state |-> "snapped", shows |-> d.orders[1].status,
                                             rider |-> d.orders[1].rider, dot |-> position_for_order(d)]]}
subscribe(d) ==
    IF d.screens["customer"].state # "snapped" THEN {}
    ELSE {[d EXCEPT !.screens["customer"].state = "open"]}
disconnect(d) ==
    IF d.screens["customer"].state = "closed" THEN {}
    ELSE {[d EXCEPT !.screens["customer"].state = "closed"]}

(***************************************************************************)
(* Where a rider is                                                        *)
(***************************************************************************)
set_rider_location(d, r) == [d EXCEPT !.redis[r].geo = TRUE, !.redis[r].state = TRUE]

\* Mutant of _live_orders: whatever became of the order.
AllMyOrders(d, r) == IF d.orders[1].rider = r THEN {d.orders[1].status} ELSE {}

_live_orders(d, r) ==
    IF d.orders[1].rider = r THEN {d.orders[1].status} \cap Trackable ELSE {}

\* A ping: Redis, then the orders it will be published to.
record_ping(d, r) ==
    IF Fresh("tasks", Tasks) = {} THEN {}
    ELSE {[set_rider_location(d, r) EXCEPT !.tasks = Add(@, Least(Fresh("tasks", Tasks)),
             [to |-> "map", rider |-> r,
              status |-> IF _live_orders(d, r) = {} THEN None
                         ELSE CHOOSE s \in _live_orders(d, r) : TRUE])]}

\* The frame, for the order as it was read.
Frame(d, t) ==
    LET task == d.tasks[t]
        Dotted(sc) == [sc EXCEPT !.dot = [rider |-> task.rider, status |-> task.status]]
    IN  {Done(x, t) : x \in IF task.status = None THEN {d} ELSE publish(d, "customer", Dotted)}

\* The hash runs out; the member of the geo set stays.
Expiring(d, r) == {[d EXCEPT !.redis[r].state = FALSE]}

set_shift(d, r) == {[d EXCEPT !.riders[r].online = ~@]}

\* Found by GEOSEARCH, and on shift; otherwise anyone on shift.
find_nearby_riders(d) == {r \in Riders : d.redis[r].geo}
_available_riders(d) == {r \in Riders : d.riders[r].online}
_pick_nearest(d) == find_nearby_riders(d) \cap _available_riders(d)
_pick_rider(d) == IF _pick_nearest(d) # {} THEN _pick_nearest(d) ELSE _available_riders(d)

dispatch(d) == UNION {assign_rider(d, r) : r \in _pick_rider(d)}

(***************************************************************************)
(* Steps                                                                   *)
(***************************************************************************)
\* In turn: nothing is left to announce.
Calm == InTurn => db.tasks = Nothing /\ db.screens["customer"].state # "snapped"

Do(s, call, results) == Calm /\ Serve(s, call, results, Settle)
At(call, results) == Statement(call, results, Settle)

\* Mutant of Move: announced before the commit.
MoveAnnounced(s, m) ==
    /\ script.overlap /\ "move" \in script.calls /\ txn[s] = None
    /\ \E x \in move(db, m) : txn' = [txn EXCEPT ![s] =
          [seen |-> db, new |-> [x EXCEPT !.tasks = db.tasks], holds |-> {}]]
    /\ db' \in Announcing(db, m[2])
    /\ UNCHANGED script

Move(s, m) == Do(s, "move", move(db, m))

Next ==
    \/ \E s \in Clerks :
       \/ \E m \in Moves : Move(s, m)
       \/ \E r \in Riders : Do(s, "assign", assign_rider(db, r)) \/ Do(s, "shift", set_shift(db, r))
       \/ Do(s, "dispatch", dispatch(db))
       \/ Commit(s, Settle) \/ Abort(s)
    \/ \E t \in DOMAIN db.tasks :
       \/ db.tasks[t].to \in {"vendor", "customer"} /\ \E call \in {"move", "assign"} : At(call, _publish_both(db, t))
       \/ db.tasks[t].to = "offers" /\ At("move", announce(db, t))
       \/ db.tasks[t].to = "card" /\ At("move", ShowCard(db, t))
       \/ db.tasks[t].to = "taken" /\ At("assign", announce_taken(db, t))
       \/ db.tasks[t].to = "push" /\ At("move", _deliver(db, t))
       \/ db.tasks[t].to = "map" /\ At("ping", Frame(db, t))
       \/ script.overlap /\ At("move", {Done(db, t)})
    \/ Calm /\ At("watch", snapshot(db))
    \/ At("watch", subscribe(db)) \/ At("watch", disconnect(db)) \/ At("watch", list_offers(db))
    \/ \E r \in Riders : (Calm /\ At("ping", record_ping(db, r))) \/ At("ping", Expiring(db, r))

Spec == Init /\ [][Next]_deskVars

(***************************************************************************)
(* Properties                                                              *)
(***************************************************************************)
\* However requests overlap and whichever are rolled back, a screen never shows a
\* status the order has not had (the handlers announce after their commit).
NoPhantoms == \A x \in DOMAIN db.screens : db.screens[x].shows \in DOMAIN db.history

\* In turn, once a handler has made its announcements, the vendor's tablet and a
\* customer's open screen show where the order is and who carries it, and the riders
\* have its card exactly while it is an offer, unless it was cancelled: nobody takes
\* that card down (_publish_both, snapshot, announce, announce_taken).
ScreensAgree ==
    InTurn /\ db.tasks = Nothing =>
        /\ \A x \in DOMAIN db.screens : db.screens[x].state = "open" =>
              db.screens[x].shows = db.orders[1].status /\ db.screens[x].rider = db.orders[1].rider
        /\ db.cards[1].up => _open(db) \/ db.orders[1].status = "CANCELLED"
        /\ _open(db) => db.cards[1].up

\* In turn, a dot that appears on the customer's map is of the rider who carries the
\* order then, and on its way (_live_orders, position_for_order).
MapFollowsTheOrder ==
    InTurn /\ db'.screens["customer"].dot \notin {db.screens["customer"].dot, NoDot} =>
        /\ db'.screens["customer"].dot = [rider |-> db.orders[1].rider, status |-> db.orders[1].status]
        /\ db.orders[1].status \in Trackable

Holding(order) ==
    ({"CUSTOMER", "VENDOR", order.rider} \ {None})
    \ (IF order.by \in {"CUSTOMER", "VENDOR"} THEN {order.by} ELSE {})

Told(order) == \A who \in Holding(order) : <<who, "CANCELLED">> \in DOMAIN db.told

\* In turn, everyone on a cancelled order but who cancelled it has been told, if
\* support cancelled it or it had no rider yet (_cancelled).
TheRestAreTold ==
    LET o == db.orders[1]
    IN  InTurn /\ db.tasks = Nothing /\ o.status = "CANCELLED" /\ (o.by = "ADMIN" \/ o.rider = None) =>
            Told(o)

\* "Whoever cancelled already knows; everyone else still holding the order is told"
\* (order_push.py).
EveryoneHoldingItIsTold ==
    InTurn /\ db.tasks = Nothing /\ db.orders[1].status = "CANCELLED" => Told(db.orders[1])
=============================================================================
