--------------------------- MODULE OrderLifecycle ---------------------------
(***************************************************************************)
(* One order from PENDING to DELIVERED or CANCELLED, as the customer, the  *)
(* kitchen, the riders, an operator and the worker's sweep move it         *)
(* (app/services/{customer,vendor,admin}/orders.py, rider/{jobs,dispatch,  *)
(* offers,roster}.py, app/workers/tasks.py).                               *)
(*                                                                         *)
(* Every request is a database transaction in a session of its own.  The   *)
(* handler reads the order row, checks it, and changes the object in       *)
(* memory; the later flush writes the columns that differ from the values  *)
(* READ, whatever the row holds by then.  PostgreSQL runs these at READ    *)
(* COMMITTED, so only the handlers that ask for a row lock exclude the     *)
(* others between their read and their write.                              *)
(***************************************************************************)
EXTENDS Integers, FiniteSets, Sequences

CONSTANTS
    Orders, Riders,
    Sessions,       \* database sessions that may be open at the same time
    CashOrders,     \* the orders paid with CASH_ON_DELIVERY
    Scheduled,      \* the orders placed for later: they carry no auto-decline
    Requests,       \* which handlers the clients call
    Overlapping,    \* may two requests on one order be open at once?
    MaxJobs,        \* settings.MAX_CONCURRENT_JOBS
    MaxAttempts,    \* settings.HANDOFF_MAX_ATTEMPTS
    MaxIssues,      \* bound: handoff PINs generated for one order
    None

Handlers == {"customer_cancel", "accept", "reject", "ready", "handoff", "miss",
             "deliver", "admin_deliver", "assign", "dispatch", "admin_cancel",
             "refund", "claim", "shift"}

Statuses == {"PENDING", "PREPARING", "READY", "PICKED_UP", "DELIVERED", "CANCELLED"}
PaymentStatuses == {"PENDING", "PAID", "REFUNDED"}
Actors == {"CUSTOMER", "VENDOR", "RIDER", "ADMIN", "SYSTEM"}

ASSUME LifecycleAssumption ==
    /\ CashOrders \subseteq Orders
    /\ Scheduled \subseteq Orders
    /\ Requests \subseteq Handlers
    /\ Overlapping \in BOOLEAN
    /\ MaxJobs \in Nat \ {0}
    /\ MaxAttempts \in Nat \ {0}
    /\ MaxIssues \in Nat
    /\ None \notin Riders \cup Actors \cup Nat

\* ORDER_TRANSITIONS, as the set of statuses each status may become.
Transitions == [s \in Statuses |->
    CASE s = "PENDING"   -> {"PREPARING", "CANCELLED"}
      [] s = "PREPARING" -> {"READY", "CANCELLED"}
      [] s = "READY"     -> {"PICKED_UP", "CANCELLED"}
      [] s = "PICKED_UP" -> {"DELIVERED"}
      [] OTHER           -> {}]

InFlightStatuses == {"PENDING", "PREPARING", "READY", "PICKED_UP"}
Assignable == {"PENDING", "PREPARING", "READY"}
Offerable == {"PREPARING", "READY"}
\* Mutant of VendorCancellable: until the food leaves, as for an operator.
VendorCancellableLate == {"PENDING", "PREPARING", "READY"}

VendorCancellable == {"PENDING", "PREPARING"}

\* The columns of an `orders` row the lifecycle reads or writes.  cancelledBy
\* and cancelled_at are always written together, so cancelledBy = None stands
\* for both; refunded and delivered are refunded_at and delivered_at being set;
\* pin is the hashed handoff code, named by its issue (0: no code).
Row == [status : Statuses,
        payment : PaymentStatuses,
        refunded : BOOLEAN,
        rider : Riders \cup {None},
        cancelledBy : Actors \cup {None},
        delivered : BOOLEAN,
        pin : Nat,
        attempts : Nat,
        autoDecline : BOOLEAN]

\* A row of order_status_history; the first row of each order, "Order placed",
\* is left out.
Event == [from : Statuses, to : Statuses, actor : Actors]

\* No history row is the absence of one.
ASSUME EventAssumption == None \notin Event

\* An open request: the row as read, the row as the handler left it in memory,
\* the history row it adds, and the rider profile it increments (with the new
\* count).  locked: the read was a SELECT ... FOR UPDATE.
Txn == [op : Handlers, order : Orders, locked : BOOLEAN, snap : Row, new : Row,
        event : Event \cup {None}, profile : Riders \cup {None}, count : Nat]

Claim == [order : Orders, rider : Riders]

VARIABLES
    order,       \* the orders table
    history,     \* the order_status_history rows of each order, oldest first
    deliveries,  \* rider_profiles.total_deliveries
    onShift,     \* the riders that are online and verified
    late,        \* the orders whose auto_decline_at is in the past
    issued,      \* how many handoff PINs were generated for each order
    misses,      \* wrong codes answered since the order's code was issued
    txn,         \* the open request of each session
    claim        \* the open "accept this offer" of each session

tables == <<order, history, deliveries>>
vars == <<order, history, deliveries, onShift, late, issued, misses, txn, claim>>

FreshRow(o) ==
    [status |-> "PENDING", payment |-> "PENDING", refunded |-> FALSE,
     rider |-> None, cancelledBy |-> None, delivered |-> FALSE,
     pin |-> 0, attempts |-> 0, autoDecline |-> o \notin Scheduled]

Init ==
    /\ order = [o \in Orders |-> FreshRow(o)]
    /\ history = [o \in Orders |-> <<>>]
    /\ deliveries = [r \in Riders |-> 0]
    /\ onShift = Riders
    /\ late = {}
    /\ issued = [o \in Orders |-> 0]
    /\ misses = [o \in Orders |-> 0]
    /\ txn = [s \in Sessions |-> None]
    /\ claim = [s \in Sessions |-> None]

(***************************************************************************)
(* Sessions, locks and the flush                                           *)
(***************************************************************************)
Idle(s) == txn[s] = None /\ claim[s] = None

\* Another session holds the row lock of o.
RowLocked(o, s) == \E x \in Sessions \ {s} :
    txn[x] # None /\ txn[x].order = o /\ txn[x].locked

\* Mutant of ProfileLocked: `accept` counts the jobs without locking the profile.
NeverProfileLocked(r, s) == FALSE

\* Another session holds the lock of rider r's profile.
ProfileLocked(r, s) == \E x \in Sessions \ {s} :
    claim[x] # None /\ claim[x].rider = r

\* No request on o is open.
Quiet(o) == \A s \in Sessions :
    /\ txn[s] # None => txn[s].order # o
    /\ claim[s] # None => claim[s].order # o

MayStart(s, o, op) == Idle(s) /\ op \in Requests /\ (Overlapping \/ Quiet(o))

Moved(row, to, actor) == [from |-> row.status, to |-> to, actor |-> actor]

Request(o, op, locked, new, event) ==
    [op |-> op, order |-> o, locked |-> locked, snap |-> order[o], new |-> new,
     event |-> event, profile |-> None, count |-> 0]

\* SELECT without a lock: what is read may be stale by the flush.
Read(s, o, op, new, event) ==
    /\ MayStart(s, o, op)
    /\ txn' = [txn EXCEPT ![s] = Request(o, op, FALSE, new, event)]
    /\ UNCHANGED <<tables, onShift, late, misses, claim>>

\* SELECT ... FOR UPDATE: waits for the lock and keeps it to the commit.
Lock(s, o, op, new, event) ==
    /\ MayStart(s, o, op)
    /\ ~RowLocked(o, s)
    /\ txn' = [txn EXCEPT ![s] = Request(o, op, TRUE, new, event)]
    /\ UNCHANGED <<tables, onShift, late, issued, misses, claim>>

\* The unit of work writes a column only when its value differs from the one read.
Column(current, read, written) == IF written # read THEN written ELSE current

Flushed(row, t) ==
    [status |-> Column(row.status, t.snap.status, t.new.status),
     payment |-> Column(row.payment, t.snap.payment, t.new.payment),
     refunded |-> Column(row.refunded, t.snap.refunded, t.new.refunded),
     rider |-> Column(row.rider, t.snap.rider, t.new.rider),
     cancelledBy |-> Column(row.cancelledBy, t.snap.cancelledBy, t.new.cancelledBy),
     delivered |-> Column(row.delivered, t.snap.delivered, t.new.delivered),
     pin |-> Column(row.pin, t.snap.pin, t.new.pin),
     attempts |-> Column(row.attempts, t.snap.attempts, t.new.attempts),
     autoDecline |-> Column(row.autoDecline, t.snap.autoDecline, t.new.autoDecline)]

\* Mutant of Checks: without ck_orders_refund_status.
ChecksNotRefund(row) ==
    /\ (row.status = "CANCELLED") <=> (row.cancelledBy # None)
    /\ row.status = "DELIVERED" => row.delivered
    /\ row.status \in {"PICKED_UP", "DELIVERED"} => row.rider # None

\* The CHECK constraints of the orders table.
Checks(row) ==
    /\ (row.status = "CANCELLED") <=> (row.cancelledBy # None)
    /\ row.status = "DELIVERED" => row.delivered
    /\ row.refunded => row.payment = "REFUNDED"
    /\ row.status \in {"PICKED_UP", "DELIVERED"} => row.rider # None

(***************************************************************************)
(* The handlers: what each one reads, requires and computes                *)
(***************************************************************************)
Refunded(row) ==
    IF row.payment = "PAID" THEN [row EXCEPT !.payment = "REFUNDED", !.refunded = TRUE]
                            ELSE row

\* Mutant of Cancelled: a cancel releases the rider.
CancelledWithoutRider(row, actor) ==
    [Refunded(row) EXCEPT !.status = "CANCELLED", !.cancelledBy = actor,
                          !.autoDecline = FALSE, !.rider = None]

Cancelled(row, actor) ==
    [Refunded(row) EXCEPT !.status = "CANCELLED", !.cancelledBy = actor,
                          !.autoDecline = FALSE]

\* POST /orders/{id}/cancel by the customer.  No lock, and auto_decline_at stays.
CustomerCancel(s, o) ==
    /\ order[o].status = "PENDING"
    /\ Read(s, o, "customer_cancel",
            [order[o] EXCEPT !.status = "CANCELLED", !.cancelledBy = "CUSTOMER"],
            Moved(order[o], "CANCELLED", "CUSTOMER"))
    /\ UNCHANGED issued

AcceptOrder(s, o) ==
    /\ "PREPARING" \in Transitions[order[o].status]
    /\ Lock(s, o, "accept",
            [order[o] EXCEPT !.status = "PREPARING", !.autoDecline = FALSE],
            Moved(order[o], "PREPARING", "VENDOR"))

\* Mutant of RejectOrder: the order is read without FOR UPDATE.
RejectUnlocked(s, o) ==
    /\ order[o].status \in VendorCancellable
    /\ Read(s, o, "reject", Cancelled(order[o], "VENDOR"),
            Moved(order[o], "CANCELLED", "VENDOR"))
    /\ UNCHANGED issued

RejectOrder(s, o) ==
    /\ order[o].status \in VendorCancellable
    /\ Lock(s, o, "reject", Cancelled(order[o], "VENDOR"),
            Moved(order[o], "CANCELLED", "VENDOR"))

\* Issues a new handoff code with a fresh attempt budget.  On an order already
\* READY it only does that: no transition, no history row.
MarkReady(s, o) ==
    LET row == order[o]
        reissue == row.status = "READY"
    IN  /\ reissue \/ "READY" \in Transitions[row.status]
        /\ issued[o] < MaxIssues
        /\ issued' = [issued EXCEPT ![o] = @ + 1]
        /\ Read(s, o, "ready",
                [row EXCEPT !.status = "READY", !.pin = issued[o] + 1, !.attempts = 0],
                IF reissue THEN None ELSE Moved(row, "READY", "VENDOR"))

MayHandOff(row) ==
    /\ row.status = "READY"
    /\ row.pin # 0
    /\ row.rider # None
    /\ row.attempts < MaxAttempts

\* Mutant of HandoffOrder: the cash is recorded when the food leaves.
HandoffTakesCash(s, o) ==
    /\ MayHandOff(order[o])
    /\ Read(s, o, "handoff",
            [order[o] EXCEPT !.status = "PICKED_UP", !.pin = 0, !.payment = "PAID"],
            Moved(order[o], "PICKED_UP", "VENDOR"))
    /\ UNCHANGED issued

\* Mutant of HandoffOrder: the delivery is counted at pickup too.
HandoffCounts(s, o) ==
    /\ MayHandOff(order[o])
    /\ MayStart(s, o, "handoff")
    /\ txn' = [txn EXCEPT ![s] =
           [Request(o, "handoff", FALSE, [order[o] EXCEPT !.status = "PICKED_UP", !.pin = 0],
                    Moved(order[o], "PICKED_UP", "VENDOR")) EXCEPT
               !.profile = order[o].rider, !.count = deliveries[order[o].rider] + 1]]
    /\ UNCHANGED <<tables, onShift, late, issued, misses, claim>>

\* The vendor types the rider's code and it matches: the code is burned.
HandoffOrder(s, o) ==
    /\ MayHandOff(order[o])
    /\ Read(s, o, "handoff", [order[o] EXCEPT !.status = "PICKED_UP", !.pin = 0],
            Moved(order[o], "PICKED_UP", "VENDOR"))
    /\ UNCHANGED issued

\* Mutant of HandoffMiss: the column counts down.
HandoffMissDown(s, o) ==
    /\ MayHandOff(order[o])
    /\ Read(s, o, "miss", [order[o] EXCEPT !.attempts = @ - 1], None)
    /\ UNCHANGED issued

\* The code does not match: the attempt is counted, and committed.
HandoffMiss(s, o) ==
    /\ MayHandOff(order[o])
    /\ Read(s, o, "miss", [order[o] EXCEPT !.attempts = @ + 1], None)
    /\ UNCHANGED issued

\* _complete: the delivery, shared by the rider and the operator fallback.
Complete(s, o, op, actor) ==
    LET row == order[o]
        new == [row EXCEPT !.status = "DELIVERED", !.delivered = TRUE,
                           !.payment = IF o \in CashOrders THEN "PAID" ELSE @]
    IN  /\ row.status = "PICKED_UP"
        /\ row.rider # None
        /\ MayStart(s, o, op)
        /\ txn' = [txn EXCEPT ![s] =
               [Request(o, op, FALSE, new, Moved(row, "DELIVERED", actor)) EXCEPT
                   !.profile = row.rider, !.count = deliveries[row.rider] + 1]]
        /\ UNCHANGED <<tables, onShift, late, issued, misses, claim>>

Deliver(s, o) == Complete(s, o, "deliver", "RIDER")
DeliverAsAdmin(s, o) == Complete(s, o, "admin_deliver", "ADMIN")

InFlight(r) ==
    Cardinality({o \in Orders : order[o].rider = r /\ order[o].status \in InFlightStatuses})

Assign(s, o, op, r) ==
    /\ order[o].status \in Assignable
    /\ Read(s, o, op, [order[o] EXCEPT !.rider = r], None)
    /\ UNCHANGED issued

\* The operator names a verified rider, on shift or not, loaded or not.
AssignRider(s, o, r) == Assign(s, o, "assign", r)

\* Dispatch picks: a live rider with room (tier 1), else the idlest on shift.
DispatchRider(s, o, r) ==
    /\ r \in onShift
    /\ InFlight(r) < MaxJobs \/ \A q \in onShift : InFlight(r) <= InFlight(q)
    /\ Assign(s, o, "dispatch", r)

AdminCancel(s, o) ==
    /\ "CANCELLED" \in Transitions[order[o].status]
    /\ Lock(s, o, "admin_cancel", Cancelled(order[o], "ADMIN"),
            Moved(order[o], "CANCELLED", "ADMIN"))

AdminRefund(s, o) ==
    /\ order[o].payment = "PAID"
    /\ Lock(s, o, "refund", Refunded(order[o]), None)

(***************************************************************************)
(* The end of a request                                                    *)
(***************************************************************************)
\* Flush and commit.  The UPDATE waits for the row locks of other sessions and
\* fails when the row it makes breaks a CHECK.
Commit(s) ==
    LET t == txn[s]
        row == Flushed(order[t.order], t)
    IN  /\ t # None
        /\ ~RowLocked(t.order, s)
        /\ t.profile # None => ~ProfileLocked(t.profile, s)
        /\ Checks(row)
        /\ order' = [order EXCEPT ![t.order] = row]
        /\ history' = IF t.event = None THEN history
                      ELSE [history EXCEPT ![t.order] = Append(@, t.event)]
        /\ deliveries' = IF t.profile = None THEN deliveries
                         ELSE [deliveries EXCEPT ![t.profile] = t.count]
        /\ misses' = CASE t.op = "ready" -> [misses EXCEPT ![t.order] = 0]
                       [] t.op = "miss"  -> [misses EXCEPT ![t.order] = @ + 1]
                       [] OTHER          -> misses
        /\ txn' = [txn EXCEPT ![s] = None]
        /\ UNCHANGED <<onShift, late, issued, claim>>

\* A broken CHECK, an exception, a dropped connection or a killed process:
\* get_db rolls the session back and nothing was written.
Abort(s) ==
    /\ ~Idle(s)
    /\ txn' = [txn EXCEPT ![s] = None]
    /\ claim' = [claim EXCEPT ![s] = None]
    /\ UNCHANGED <<tables, onShift, late, issued, misses>>

(***************************************************************************)
(* Riders: the shift and the offers                                        *)
(***************************************************************************)
SetShift(r) ==
    /\ "shift" \in Requests
    /\ \A s \in Sessions : claim[s] # None => claim[s].rider # r
    /\ onShift' = IF r \in onShift THEN onShift \ {r} ELSE onShift \cup {r}
    /\ UNCHANGED <<tables, late, issued, misses, txn, claim>>

\* The first half of `accept`: lock the profile, then count what is carried.
AcceptOffer(s, o, r) ==
    /\ MayStart(s, o, "claim")
    /\ ~ProfileLocked(r, s)
    /\ r \in onShift
    /\ InFlight(r) < MaxJobs
    /\ claim' = [claim EXCEPT ![s] = [order |-> o, rider |-> r]]
    /\ UNCHANGED <<tables, onShift, late, issued, misses, txn>>

\* Mutant of ClaimOffer: UPDATE ... WHERE status IN (...), rider_id not tested.
ClaimTakenOffer(s) ==
    LET c == claim[s]
    IN  /\ c # None
        /\ ~RowLocked(c.order, s)
        /\ order[c.order].status \in Offerable
        /\ order' = [order EXCEPT ![c.order].rider = c.rider]
        /\ claim' = [claim EXCEPT ![s] = None]
        /\ UNCHANGED <<history, deliveries, onShift, late, issued, misses, txn>>

\* The second half: one conditional UPDATE that only an open order matches.
ClaimOffer(s) ==
    LET c == claim[s]
    IN  /\ c # None
        /\ ~RowLocked(c.order, s)
        /\ order[c.order].rider = None
        /\ order[c.order].status \in Offerable
        /\ order' = [order EXCEPT ![c.order].rider = c.rider]
        /\ claim' = [claim EXCEPT ![s] = None]
        /\ UNCHANGED <<history, deliveries, onShift, late, issued, misses, txn>>

(***************************************************************************)
(* The worker                                                              *)
(***************************************************************************)
\* The countdown of an unanswered order reaches zero.
TimeoutPasses(o) ==
    /\ order[o].status = "PENDING" /\ order[o].autoDecline
    /\ o \notin late
    /\ late' = late \cup {o}
    /\ UNCHANGED <<tables, onShift, issued, misses, txn, claim>>

\* Mutant of Due: the sweep locks the whole table, and gives up when it cannot.
DueWhenQuiet == {o \in late :
    /\ order[o].status = "PENDING" /\ order[o].autoDecline
    /\ \A s \in Sessions : Idle(s)}

\* What the sweep's SELECT ... FOR UPDATE SKIP LOCKED returns.
Due == {o \in late :
    /\ order[o].status = "PENDING" /\ order[o].autoDecline
    /\ \A s \in Sessions : txn[s] # None /\ txn[s].order = o => ~txn[s].locked
    /\ Overlapping \/ Quiet(o)}

\* Mutant of AutoDecline: no history row.
AutoDeclineSilently ==
    /\ Due # {}
    /\ order' = [o \in Orders |->
                    IF o \in Due THEN Cancelled(order[o], "SYSTEM") ELSE order[o]]
    /\ UNCHANGED <<history, deliveries, onShift, late, issued, misses, txn, claim>>

AutoDecline ==
    /\ Due # {}
    /\ order' = [o \in Orders |->
                    IF o \in Due THEN Cancelled(order[o], "SYSTEM") ELSE order[o]]
    /\ history' = [o \in Orders |->
                    IF o \in Due
                    THEN Append(history[o], Moved(order[o], "CANCELLED", "SYSTEM"))
                    ELSE history[o]]
    /\ UNCHANGED <<deliveries, onShift, late, issued, misses, txn, claim>>

Next ==
    \/ \E s \in Sessions, o \in Orders :
          \/ CustomerCancel(s, o)
          \/ AcceptOrder(s, o)
          \/ RejectOrder(s, o)
          \/ MarkReady(s, o)
          \/ HandoffOrder(s, o)
          \/ HandoffMiss(s, o)
          \/ Deliver(s, o)
          \/ DeliverAsAdmin(s, o)
          \/ AdminCancel(s, o)
          \/ AdminRefund(s, o)
    \/ \E s \in Sessions, o \in Orders, r \in Riders :
          \/ AssignRider(s, o, r)
          \/ DispatchRider(s, o, r)
          \/ AcceptOffer(s, o, r)
    \/ \E s \in Sessions : Commit(s) \/ ClaimOffer(s) \/ Abort(s)
    \/ \E r \in Riders : SetShift(r)
    \/ \E o \in Orders : TimeoutPasses(o)
    \/ AutoDecline

Spec == Init /\ [][Next]_vars

\* Requests end (the server answers or times out), the clock runs, and the
\* sweep's cron keeps firing: it cannot miss an unlocked due order for ever.
FairSpec ==
    /\ Spec
    /\ \A s \in Sessions : WF_vars(Commit(s) \/ ClaimOffer(s) \/ Abort(s))
    /\ \A o \in Orders : WF_vars(TimeoutPasses(o))
    /\ SF_vars(AutoDecline)

(***************************************************************************)
(* Properties                                                              *)
(***************************************************************************)
\* Every variable holds a value of its kind.
TypeOK ==
    /\ order \in [Orders -> Row]
    /\ history \in [Orders -> Seq(Event)]
    /\ deliveries \in [Riders -> Nat]
    /\ onShift \subseteq Riders
    /\ late \subseteq Orders
    /\ issued \in [Orders -> Nat]
    /\ misses \in [Orders -> Nat]
    /\ txn \in [Sessions -> Txn \cup {None}]
    /\ claim \in [Sessions -> Claim \cup {None}]

\* What FOR UPDATE buys: until a locking request commits, the row is still the
\* row it read, so its checks still hold (the docstring of _get_order).
LockedReadIsCurrent == \A s \in Sessions :
    txn[s] # None /\ txn[s].locked => order[txn[s].order] = txn[s].snap

\* A cancelled order stays cancelled: whatever an older request still writes,
\* no kitchen, rider or operator action brings it back.
CancelledStays == [][\A o \in Orders :
    order[o].status = "CANCELLED" => order'[o].status = "CANCELLED"]_vars

\* Money recorded as returned is not recorded as taken again by a delivery
\* confirmation that read the order before the refund.
RefundStays == [][\A o \in Orders :
    order[o].refunded => order'[o].refunded /\ order'[o].payment = "REFUNDED"]_vars

\* An order that has a rider is never left without one, whichever requests
\* that read it before the assignment are still to be written.
RiderStays == [][\A o \in Orders :
    order[o].rider # None => order'[o].rider # None]_vars

\* What is done is not undone by a write computed before it.
NothingIsUndone == CancelledStays /\ RefundStays /\ RiderStays

\* Cash changes hands at the door: a cash order is paid, or paid and refunded,
\* exactly when it was delivered, through any mix of stale confirmations,
\* refunds and cancellations; no other order is ever marked paid.
CashChangesHandsAtTheDoor == \A o \in Orders :
    (order[o].payment # "PENDING") <=> (order[o].delivered /\ o \in CashOrders)

\* The kitchen, an operator and the sweep cancel only what they may cancel at
\* the moment it is written: their row lock makes the status they checked the
\* status they overwrite. An accept that lands as the countdown ends wins or is refused.
LockedCancelsInTime == [][\A o \in Orders :
    order'[o].status = "CANCELLED" /\ order'[o].cancelledBy # order[o].cancelledBy =>
        CASE order'[o].cancelledBy = "VENDOR" -> order[o].status \in VendorCancellable
          [] order'[o].cancelledBy = "ADMIN"  -> order[o].status \in Assignable
          [] order'[o].cancelledBy = "SYSTEM" -> order[o].status = "PENDING"
          [] OTHER -> TRUE]_vars

DeliveredRows(o) == {i \in DOMAIN history[o] : history[o][i].to = "DELIVERED"}

\* With one request at a time on an order, its history tells its life: each row
\* starts where the one before ended, the last ends at the current status, and
\* the order is delivered at most once.
TimelineIsItsLife == \A o \in Orders :
    LET h == history[o] IN
    /\ \A i \in DOMAIN h : h[i].from = IF i = 1 THEN "PENDING" ELSE h[i - 1].to
    /\ order[o].status = IF h = <<>> THEN "PENDING" ELSE h[Len(h)].to
    /\ Cardinality(DeliveredRows(o)) <= 1

\* A rider's delivery count may lose a delivery when two are confirmed at once;
\* it never counts one that is not in the history.
DeliveriesNotOvercounted == \A r \in Riders :
    deliveries[r] <= Cardinality(UNION {{o} \X DeliveredRows(o) : o \in Orders})

\* The history says what became of the orders, and no count says more.
HistoryIsTrue == TimelineIsItsLife /\ DeliveriesNotOvercounted

\* A rider who takes offers from several screens at once never carries more
\* than MAX_CONCURRENT_JOBS (services/rider/offers.py: the profile lock).
JobsWithinCap == \A r \in Riders : InFlight(r) <= MaxJobs

\* A rider who has an order loses it only to the rider an operator or dispatch names:
\* no claim of an offer and no request that read the order before the rider came
\* (a pickup, a cancellation, a new code) gives it to another, however they overlap.
OnlyTheDeskReassigns == [][\A o \in Orders :
    order[o].rider # None /\ order'[o].rider # order[o].rider =>
        \E s \in Sessions :
            /\ txn[s] # None /\ txn[s].order = o /\ txn[s].op \in {"assign", "dispatch"}
            /\ order'[o].rider = txn[s].new.rider /\ txn'[s] = None]_vars

\* An order the kitchen leaves unanswered does not wait for ever: it is
\* accepted, cancelled, or declined by the sweep.
UnansweredIsDecided == \A o \in Orders :
    (order[o].status = "PENDING" /\ order[o].autoDecline) ~> (order[o].status # "PENDING")

(***************************************************************************)
(* The contract this implements when requests on one order do not overlap  *)
(***************************************************************************)
Contract == INSTANCE OrderContract WITH
    status <- [o \in Orders |-> order[o].status],
    rider <- [o \in Orders |-> order[o].rider],
    cancelledBy <- [o \in Orders |-> order[o].cancelledBy],
    money <- [o \in Orders |-> order[o].payment]

\* Served one at a time, the handlers keep every promise of the contract: legal
\* transitions, who may cancel when, a rider fixed from pickup on, cash taken
\* at the door and returned on request.
KeepsContract == Contract!Spec

(***************************************************************************)
(* What the code's own comments say, and overlapping requests break        *)
(***************************************************************************)
\* docs/CUSTOMER-API.md: a customer's cancel "works only while PENDING".
CustomerCancelsOnlyPending == [][\A o \in Orders :
    order[o].cancelledBy # "CUSTOMER" /\ order'[o].cancelledBy = "CUSTOMER" =>
        order[o].status = "PENDING"]_vars

\* docs/CUSTOMER-API.md: a scheduled order's countdown "starts when the kitchen is
\* asked", so one the kitchen never answers is declined in the end.
ScheduledIsDecided == \A o \in Scheduled :
    (order[o].status = "PENDING") ~> (order[o].status # "PENDING")

\* services/rider/dispatch.py: once an order is PICKED_UP its rider is fixed.
RiderFixedAtPickup == [][\A o \in Orders :
    order[o].status \in {"PICKED_UP", "DELIVERED"} =>
        order'[o].rider = order[o].rider]_vars

\* models/enums.py: no illegal jumps.  Food that has left does not come back.
NoJumpBack == [][\A o \in Orders :
    order[o].status \in {"PICKED_UP", "DELIVERED"} =>
        order'[o].status \notin {"PENDING", "PREPARING", "READY"}]_vars

\* services/vendor/orders.py, handoff_order: the code is "burned on success".
CodeBurnedAtPickup == \A o \in Orders :
    order[o].status \in {"PICKED_UP", "DELIVERED"} => order[o].pin = 0

\* services/vendor/orders.py, handoff_order: the counter caps the wrong codes
\* tried "at that many guesses per issuance".
MissesWithinBudget == \A o \in Orders : misses[o] <= MaxAttempts
=============================================================================
