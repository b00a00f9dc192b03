------------------------------- MODULE Boards -------------------------------
(***************************************************************************)
(* What each app says of the orders: the kitchen's tabs, the customer's    *)
(* list, the riders' jobs and offers, the console's table and buttons      *)
(* (the reading half of app/services/{customer,vendor,admin}/orders.py and *)
(* rider/jobs.py).  Every operator is a query of the tables OrderLifecycle *)
(* moves.  Names, addresses, paging and the kitchen's items are left out.  *)
(***************************************************************************)
EXTENDS OrderLifecycle

(***************************************************************************)
(* The kitchen (vendor/orders.py)                                          *)
(***************************************************************************)
QueueTabs == [NEW |-> {"PENDING"}, PREPARING |-> {"PREPARING", "READY"},
              COMPLETE |-> {"PICKED_UP", "DELIVERED"},
              ACTIVE |-> {"PENDING", "PREPARING", "READY"}]
ChipTabs == {"NEW", "PREPARING", "COMPLETE"}

\* `?status=` as a set of words: a tab wins over the status of the same name.
parse_status_filter(words) ==
    UNION {IF w \in DOMAIN QueueTabs THEN QueueTabs[w] ELSE {w} : w \in words}

\* An empty filter is no filter.
Filtered(words) ==
    {o \in Orders : words = {} \/ order[o].status \in parse_status_filter(words)}

\* The countdown on the tablet: None, run out, or still running.
_seconds_to_auto_decline(o) ==
    IF order[o].status # "PENDING" \/ ~order[o].autoDecline THEN None
    ELSE IF o \in late THEN 0 ELSE 1

\* The code on the kitchen's and on the rider's screen.
ShownCode(o) == IF order[o].status = "READY" THEN order[o].pin ELSE 0

to_summary(o) == [status |-> order[o].status, payment |-> order[o].payment, rider |-> order[o].rider,
                  countdown |-> _seconds_to_auto_decline(o)]

to_detail(o, code) == [summary |-> to_summary(o), by |-> order[o].cancelledBy,
                       issued |-> order[o].pin # 0, code |-> code]

get_order_detail(o) == to_detail(o, ShownCode(o))

(***************************************************************************)
(* The customer (customer/orders.py)                                       *)
(***************************************************************************)
list_orders(tab) ==
    {o \in Orders : order[o].status \in
        IF tab = "ACTIVE" THEN {"PENDING", "PREPARING", "READY", "PICKED_UP"} ELSE {tab}}

\* The screen's dots.
_timeline(o) == [i \in DOMAIN history[o] |-> history[o][i].to]

_to_summary(o) == [status |-> order[o].status, payment |-> order[o].payment,
                   can_cancel |-> order[o].status \in {"PENDING"}]

order_detail(o) == [summary |-> _to_summary(o), timeline |-> _timeline(o)]

(***************************************************************************)
(* The riders (rider/jobs.py)                                              *)
(***************************************************************************)
JobTabs == [ACTIVE |-> {"PENDING", "PREPARING", "READY", "PICKED_UP"}, COMPLETE |-> {"DELIVERED"}]

_load_job(r, o) == order[o].rider = r
list_jobs(r, tab) == {o \in Orders : _load_job(r, o) /\ order[o].status \in JobTabs[tab]}

\* Cash to be taken at the door: asked until the order is PAID.
_collect_on_delivery(o) == o \in CashOrders /\ order[o].payment # "PAID"

job_detail(o) == [status |-> order[o].status, collect |-> _collect_on_delivery(o), code |-> ShownCode(o)]

(***************************************************************************)
(* The console (admin/orders.py)                                           *)
(***************************************************************************)
AwaitingRider == {o \in Orders : order[o].rider = None /\ order[o].status \in {"PREPARING", "READY"}}

\* Mutant of _actions: cancel is offered while the kitchen may still cancel.
ActionsOfTheKitchen(row) ==
    [assign |-> row.status \in Assignable,
     cancel |-> row.status \in VendorCancellable,
     refund |-> row.payment = "PAID",
     deliver |-> row.status = "PICKED_UP" /\ row.rider # None]

_actions(row) ==
    [assign |-> row.status \in Assignable,
     cancel |-> "CANCELLED" \in Transitions[row.status],
     refund |-> row.payment = "PAID",
     deliver |-> row.status = "PICKED_UP" /\ row.rider # None]

_to_row(o) == [status |-> order[o].status, payment |-> order[o].payment, rider |-> order[o].rider,
               delivered |-> order[o].delivered, cancelled |-> order[o].cancelledBy # None]

_detail(o) == [row |-> _to_row(o), timeline |-> _timeline(o), by |-> order[o].cancelledBy,
               refunded |-> order[o].refunded, actions |-> _actions(order[o])]

(***************************************************************************)
(* Properties                                                              *)
(***************************************************************************)
\* A button is on a screen exactly when pressing it now would be accepted, as long
\* as nobody else has the order open (the drawer's actions, the customer's cancel).
ButtonsWork == \A o \in Orders :
    (\E s \in Sessions : Idle(s)) /\ Quiet(o) =>
        LET buttons == _detail(o).actions
        IN  /\ buttons.assign <=> ENABLED (\E s \in Sessions, r \in Riders : AssignRider(s, o, r))
            /\ buttons.cancel <=> ENABLED (\E s \in Sessions : AdminCancel(s, o))
            /\ buttons.refund <=> ENABLED (\E s \in Sessions : AdminRefund(s, o))
            /\ buttons.deliver <=> ENABLED (\E s \in Sessions : DeliverAsAdmin(s, o))
            /\ order_detail(o).summary.can_cancel <=> ENABLED (\E s \in Sessions : CustomerCancel(s, o))

\* Between requests every order is under one chip of the kitchen, or cancelled; the
\* customer and its rider both call it active or neither does; the console waits for
\* a rider exactly where one may take it; food that waits has a code on both screens,
\* and the rider is asked for cash until it is delivered; the dots end where the
\* order is, and a countdown at zero is one the sweep will act on.
ScreensMatch == \A o \in Orders :
    Quiet(o) =>
        /\ Cardinality({t \in ChipTabs : o \in Filtered({t})}) = IF _to_row(o).cancelled THEN 0 ELSE 1
        /\ \A r \in Riders : _load_job(r, o) =>
              /\ (o \in list_jobs(r, "ACTIVE")) = (o \in list_orders("ACTIVE"))
              /\ (o \in list_jobs(r, "COMPLETE")) = (o \in list_orders("DELIVERED"))
              /\ o \in list_jobs(r, "ACTIVE") => job_detail(o).collect = (o \in CashOrders)
        /\ (o \in AwaitingRider) = (order[o].rider = None /\ order[o].status \in Offerable)
        /\ order[o].status = "READY" => get_order_detail(o).code # 0 /\ get_order_detail(o).issued
        /\ get_order_detail(o).code = job_detail(o).code
        /\ LET dots == order_detail(o).timeline
           IN  dots # <<>> => dots[Len(dots)] = get_order_detail(o).summary.status
        /\ get_order_detail(o).summary.countdown = 0 <=> o \in Due

BoardsAgree == ButtonsWork /\ ScreensMatch
=============================================================================
