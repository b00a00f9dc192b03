------------------------ MODULE OrderLifecycleProofs ------------------------
(***************************************************************************)
(* What holds of the order lifecycle for every number of orders, riders    *)
(* and sessions, however their requests overlap; what the row locks        *)
(* promise; and that handlers served one at a time keep the contract.      *)
(***************************************************************************)
EXTENDS Boards, FiniteSetTheorems, TLAPS

\* Every stored row passes the CHECK constraints.
RowsPassChecks == \A o \in Orders : Checks(order[o])

\* No handler clears the canceller, the refund mark, the rider or the delivery
\* time: the row it computes has each as read, or set.
OnlySets(read, new) ==
    /\ new.cancelledBy = read.cancelledBy \/ new.cancelledBy # None
    /\ new.refunded = read.refunded \/ new.refunded
    /\ new.rider = read.rider \/ new.rider # None
    /\ new.delivered = read.delivered \/ new.delivered

WritesSet == \A s \in Sessions : txn[s] # None => OnlySets(txn[s].snap, txn[s].new)

IInv == TypeOK /\ RowsPassChecks /\ WritesSet

\* The parts of an open request.
LEMMA RequestType ==
    ASSUME TypeOK, NEW o \in Orders, NEW op \in Handlers, NEW locked \in BOOLEAN,
           NEW new \in Row, NEW event \in Event \cup {None}
    PROVE  Request(o, op, locked, new, event) \in Txn
BY DEF TypeOK, Request, Txn

\* A flush puts a row where a row was.
LEMMA FlushedType ==
    ASSUME NEW row \in Row, NEW t \in Txn
    PROVE  Flushed(row, t) \in Row
BY DEF Flushed, Column, Row, Txn

\* Cancelling, and refunding what was paid, keeps the row's CHECK constraints.
LEMMA CancelledType ==
    ASSUME NEW row \in Row, NEW actor \in Actors, actor # None
    PROVE  /\ Cancelled(row, actor) \in Row
           /\ Refunded(row) \in Row
           /\ OnlySets(row, Cancelled(row, actor))
           /\ OnlySets(row, Refunded(row))
           /\ Checks(row) => Checks(Cancelled(row, actor))
<1>1. CASE row.payment = "PAID"
  BY <1>1 DEF Cancelled, Refunded, Row, Statuses, PaymentStatuses, Checks, OnlySets
<1>2. CASE row.payment # "PAID"
  BY <1>2 DEF Cancelled, Refunded, Row, Statuses, PaymentStatuses, Checks, OnlySets
<1> QED BY <1>1, <1>2

\* Reading a row opens a request that has nothing to write yet.
LEMMA ReadStep ==
    ASSUME IInv, NEW s \in Sessions, NEW o \in Orders, NEW op \in Handlers,
           NEW new \in Row, NEW event \in Event \cup {None},
           OnlySets(order[o], new),
           Read(s, o, op, new, event) \/ Lock(s, o, op, new, event),
           issued' \in [Orders -> Nat]
    PROVE  IInv'
<1> DEFINE t(locked) == Request(o, op, locked, new, event)
<1>1. PICK locked \in BOOLEAN : txn' = [txn EXCEPT ![s] = t(locked)]
  BY DEF Read, Lock
<1>2. t(locked) \in Txn
  BY RequestType DEF IInv
<1>3. UNCHANGED <<tables, onShift, late, misses, claim>>
  BY DEF Read, Lock
<1>4. TypeOK'
  BY <1>1, <1>2, <1>3 DEF IInv, TypeOK, tables
<1>5. RowsPassChecks'
  BY <1>3 DEF IInv, RowsPassChecks, tables
<1>6. WritesSet'
  <2> SUFFICES ASSUME NEW x \in Sessions, txn'[x] # None
               PROVE  OnlySets(txn'[x].snap, txn'[x].new)
    BY DEF WritesSet
  <2>1. CASE x = s
    BY <1>1, <2>1 DEF Request, IInv, TypeOK
  <2>2. CASE x # s
    BY <1>1, <2>2 DEF IInv, TypeOK, WritesSet
  <2> QED BY <2>1, <2>2
<1> QED BY <1>4, <1>5, <1>6 DEF IInv

\* Confirming a delivery sets the columns it computes, and only those.
LEMMA CompleteStep ==
    ASSUME IInv, NEW s \in Sessions, NEW o \in Orders,
           NEW op \in Handlers, NEW actor \in Actors, Complete(s, o, op, actor)
    PROVE  IInv'
<1> DEFINE row == order[o]
           new == [row EXCEPT !.status = "DELIVERED", !.delivered = TRUE,
                              !.payment = IF o \in CashOrders THEN "PAID" ELSE @]
           request == Request(o, op, FALSE, new, Moved(row, "DELIVERED", actor))
           t == [request EXCEPT !.profile = row.rider, !.count = deliveries[row.rider] + 1]
<1>1. /\ row \in Row /\ row.rider \in Riders
      /\ txn' = [txn EXCEPT ![s] = t]
      /\ UNCHANGED <<tables, onShift, late, issued, misses, claim>>
  BY DEF Complete, IInv, TypeOK, Row
<1>2. new \in Row /\ Moved(row, "DELIVERED", actor) \in Event
  BY <1>1 DEF Row, Statuses, PaymentStatuses, Moved, Event
<1>3. request \in Txn
  BY <1>2, RequestType DEF IInv
<1>4. deliveries[row.rider] + 1 \in Nat
  BY <1>1 DEF IInv, TypeOK
<1>5. t \in Txn
  <2> HIDE DEF request
  <2> QED BY <1>1, <1>3, <1>4 DEF Txn
<1>6. OnlySets(t.snap, t.new)
  BY <1>1 DEF OnlySets, Request, Row
<1>7. TypeOK'
  <2> HIDE DEF t
  <2> QED BY <1>1, <1>5 DEF IInv, TypeOK, tables
<1>8. RowsPassChecks'
  BY <1>1 DEF IInv, RowsPassChecks, tables
<1>9. WritesSet'
  <2> HIDE DEF t
  <2> SUFFICES ASSUME NEW x \in Sessions, txn'[x] # None
               PROVE  OnlySets(txn'[x].snap, txn'[x].new)
    BY DEF WritesSet
  <2>1. CASE x = s
    BY <1>1, <1>6, <2>1 DEF IInv, TypeOK
  <2>2. CASE x # s
    BY <1>1, <2>2 DEF IInv, TypeOK, WritesSet
  <2> QED BY <2>1, <2>2
<1> QED BY <1>7, <1>8, <1>9 DEF IInv

\* Each handler leaves a row that passes the checks and marks what it wrote.
LEMMA HandlerStep ==
    ASSUME IInv, LifecycleAssumption, NEW s \in Sessions, NEW o \in Orders,
           \/ CustomerCancel(s, o) \/ AcceptOrder(s, o) \/ RejectOrder(s, o)
           \/ MarkReady(s, o) \/ HandoffOrder(s, o) \/ HandoffMiss(s, o)
           \/ Deliver(s, o) \/ DeliverAsAdmin(s, o)
           \/ AdminCancel(s, o) \/ AdminRefund(s, o)
    PROVE  IInv'
<1>0. order[o] \in Row /\ issued \in [Orders -> Nat]
  BY DEF IInv, TypeOK
<1>a. /\ None \notin Actors
      /\ {"CUSTOMER", "VENDOR", "ADMIN", "RIDER"} \subseteq Actors
  BY DEF LifecycleAssumption, Actors
<1>b. \A to \in Statuses, a \in Actors : Moved(order[o], to, a) \in Event
  BY <1>0 DEF Moved, Event, Row
<1>c. \A a \in Actors : /\ Cancelled(order[o], a) \in Row
                          /\ OnlySets(order[o], Cancelled(order[o], a))
  BY <1>0, <1>a, CancelledType
<1>1. CASE CustomerCancel(s, o)
  <2> DEFINE new == [order[o] EXCEPT !.status = "CANCELLED", !.cancelledBy = "CUSTOMER"]
  <2>1. new \in Row /\ OnlySets(order[o], new)
    BY <1>0, <1>a DEF Row, OnlySets, Statuses
  <2>2. Read(s, o, "customer_cancel", new, Moved(order[o], "CANCELLED", "CUSTOMER"))
        /\ UNCHANGED issued
    BY <1>1 DEF CustomerCancel
  <2> HIDE DEF new
  <2> QED BY <1>0, <1>a, <1>b, <2>1, <2>2, ReadStep DEF Handlers, Statuses
<1>2. CASE AcceptOrder(s, o)
  <2> DEFINE new == [order[o] EXCEPT !.status = "PREPARING", !.autoDecline = FALSE]
  <2>1. new \in Row /\ OnlySets(order[o], new)
    BY <1>0 DEF Row, OnlySets, Statuses
  <2>2. Lock(s, o, "accept", new, Moved(order[o], "PREPARING", "VENDOR"))
    BY <1>2 DEF AcceptOrder
  <2>3. UNCHANGED issued
    BY <2>2 DEF Lock
  <2> HIDE DEF new
  <2> QED BY <1>0, <1>a, <1>b, <2>1, <2>2, <2>3, ReadStep DEF Handlers, Statuses
<1>3. CASE RejectOrder(s, o)
  <2>1. Lock(s, o, "reject", Cancelled(order[o], "VENDOR"),
             Moved(order[o], "CANCELLED", "VENDOR"))
    BY <1>3 DEF RejectOrder
  <2>2. UNCHANGED issued
    BY <2>1 DEF Lock
  <2> QED BY <1>0, <1>a, <1>b, <1>c, <2>1, <2>2, ReadStep DEF Handlers, Statuses
<1>4. CASE MarkReady(s, o)
  <2> DEFINE new == [order[o] EXCEPT !.status = "READY", !.pin = issued[o] + 1,
                                     !.attempts = 0]
             event == IF order[o].status = "READY" THEN None
                      ELSE Moved(order[o], "READY", "VENDOR")
  <2>1. new \in Row /\ OnlySets(order[o], new)
    <3>1. issued[o] + 1 \in Nat
      BY <1>0
    <3>2. ASSUME NEW n \in Nat
          PROVE  LET w == [order[o] EXCEPT !.status = "READY", !.pin = n, !.attempts = 0]
                 IN  w \in Row /\ OnlySets(order[o], w)
      BY <1>0 DEF Row, OnlySets, Statuses
    <3> QED BY <3>1, <3>2
  <2>2. event \in Event \cup {None}
    <3>1. CASE order[o].status = "READY"
      BY <3>1
    <3>2. CASE order[o].status # "READY"
      BY <1>a, <1>b, <3>2 DEF Statuses
    <3> QED BY <3>1, <3>2
  <2>3. Read(s, o, "ready", new, event) /\ issued' \in [Orders -> Nat]
    BY <1>0, <1>4 DEF MarkReady
  <2> HIDE DEF new, event
  <2> QED BY <2>1, <2>2, <2>3, ReadStep DEF Handlers
<1>5. CASE HandoffOrder(s, o)
  <2> DEFINE new == [order[o] EXCEPT !.status = "PICKED_UP", !.pin = 0]
  <2>1. new \in Row /\ OnlySets(order[o], new)
    BY <1>0 DEF Row, OnlySets, Statuses
  <2>2. Read(s, o, "handoff", new, Moved(order[o], "PICKED_UP", "VENDOR"))
        /\ UNCHANGED issued
    BY <1>5 DEF HandoffOrder
  <2> HIDE DEF new
  <2> QED BY <1>0, <1>a, <1>b, <2>1, <2>2, ReadStep DEF Handlers, Statuses
<1>6. CASE HandoffMiss(s, o)
  <2> DEFINE new == [order[o] EXCEPT !.attempts = @ + 1]
  <2>1. new \in Row /\ OnlySets(order[o], new)
    BY <1>0 DEF Row, OnlySets
  <2>2. Read(s, o, "miss", new, None) /\ UNCHANGED issued
    BY <1>6 DEF HandoffMiss
  <2> HIDE DEF new
  <2> QED BY <1>0, <2>1, <2>2, ReadStep DEF Handlers
<1>7. CASE Deliver(s, o)
  BY <1>7, <1>a, CompleteStep DEF Deliver, Handlers
<1>8. CASE DeliverAsAdmin(s, o)
  BY <1>8, <1>a, CompleteStep DEF DeliverAsAdmin, Handlers
<1>9. CASE AdminCancel(s, o)
  <2>1. Lock(s, o, "admin_cancel", Cancelled(order[o], "ADMIN"),
             Moved(order[o], "CANCELLED", "ADMIN"))
    BY <1>9 DEF AdminCancel
  <2>2. UNCHANGED issued
    BY <2>1 DEF Lock
  <2> QED BY <1>0, <1>a, <1>b, <1>c, <2>1, <2>2, ReadStep DEF Handlers, Statuses
<1>10. CASE AdminRefund(s, o)
  <2>1. Refunded(order[o]) \in Row /\ OnlySets(order[o], Refunded(order[o]))
    BY <1>0, <1>a, CancelledType
  <2>2. Lock(s, o, "refund", Refunded(order[o]), None)
    BY <1>10 DEF AdminRefund
  <2>3. UNCHANGED issued
    BY <2>2 DEF Lock
  <2> QED BY <1>0, <2>1, <2>2, <2>3, ReadStep DEF Handlers
<1> QED BY <1>1, <1>2, <1>3, <1>4, <1>5, <1>6, <1>7, <1>8, <1>9, <1>10

\* A commit writes only rows that pass the CHECK constraints.
LEMMA CommitStep ==
    ASSUME IInv, NEW s \in Sessions, Commit(s)
    PROVE  IInv'
<1> DEFINE t == txn[s]
           row == Flushed(order[t.order], t)
<1>1. /\ t \in Txn /\ t.order \in Orders /\ order[t.order] \in Row
      /\ order' = [order EXCEPT ![t.order] = row]
      /\ txn' = [txn EXCEPT ![s] = None]
      /\ UNCHANGED <<onShift, late, issued, claim>>
      /\ Checks(row)
  BY DEF Commit, IInv, TypeOK, Txn
<1>2. row \in Row
  BY <1>1, FlushedType
<1>3. history' \in [Orders -> Seq(Event)]
  <2>1. CASE t.event = None
    BY <2>1 DEF Commit, IInv, TypeOK
  <2>2. CASE t.event # None
    <3>1. t.event \in Event /\ history[t.order] \in Seq(Event)
      BY <1>1, <2>2 DEF IInv, TypeOK, Txn
    <3>2. Append(history[t.order], t.event) \in Seq(Event)
      BY <3>1
    <3>3. history' = [history EXCEPT ![t.order] = Append(history[t.order], t.event)]
      BY <2>2 DEF Commit
    <3> QED BY <1>1, <3>2, <3>3 DEF IInv, TypeOK
  <2> QED BY <2>1, <2>2
<1>4. deliveries' \in [Riders -> Nat]
  BY <1>1 DEF Commit, IInv, TypeOK, Txn
<1>5. misses' \in [Orders -> Nat]
  <2>1. CASE t.op = "ready"
    BY <1>1, <2>1 DEF Commit, IInv, TypeOK
  <2>2. CASE t.op = "miss"
    BY <1>1, <2>2 DEF Commit, IInv, TypeOK
  <2>3. CASE t.op \notin {"ready", "miss"}
    BY <1>1, <2>3 DEF Commit, IInv, TypeOK
  <2> QED BY <2>1, <2>2, <2>3
<1>6. TypeOK'
  <2> HIDE DEF row
  <2> QED BY <1>1, <1>2, <1>3, <1>4, <1>5 DEF IInv, TypeOK
<1>7. RowsPassChecks'
  <2> HIDE DEF row
  <2> QED BY <1>1 DEF IInv, TypeOK, RowsPassChecks
<1>8. WritesSet'
  BY <1>1 DEF IInv, TypeOK, WritesSet
<1> QED BY <1>6, <1>7, <1>8 DEF IInv

\* The sweep, the claims and the ends of requests.
LEMMA OtherStep ==
    ASSUME IInv, LifecycleAssumption,
           \/ \E s \in Sessions : Abort(s) \/ ClaimOffer(s)
           \/ \E s \in Sessions, o \in Orders, r \in Riders : AcceptOffer(s, o, r)
           \/ \E r \in Riders : SetShift(r)
           \/ \E o \in Orders : TimeoutPasses(o)
           \/ AutoDecline
           \/ UNCHANGED vars
    PROVE  IInv'
<1>1. ASSUME NEW s \in Sessions, Abort(s) PROVE IInv'
  BY <1>1 DEF Abort, IInv, TypeOK, RowsPassChecks, WritesSet, tables
<1>2. ASSUME NEW s \in Sessions, ClaimOffer(s) PROVE IInv'
  <2> DEFINE c == claim[s]
             row == [order[c.order] EXCEPT !.rider = c.rider]
  <2>1. /\ c \in Claim /\ c.order \in Orders /\ c.rider \in Riders
        /\ order[c.order] \in Row
        /\ order' = [order EXCEPT ![c.order] = row]
        /\ claim' = [claim EXCEPT ![s] = None]
        /\ UNCHANGED <<history, deliveries, onShift, late, issued, misses, txn>>
    BY <1>2 DEF ClaimOffer, IInv, TypeOK, Claim
  <2>2. row \in Row /\ Checks(row)
    BY <2>1 DEF Row, Checks, IInv, RowsPassChecks, LifecycleAssumption
  <2> HIDE DEF c, row
  <2> QED BY <2>1, <2>2 DEF IInv, TypeOK, RowsPassChecks, WritesSet
<1>3. ASSUME NEW s \in Sessions, NEW o \in Orders, NEW r \in Riders, AcceptOffer(s, o, r)
      PROVE  IInv'
  BY <1>3 DEF AcceptOffer, Claim, IInv, TypeOK, RowsPassChecks, WritesSet, tables
<1>4. ASSUME NEW r \in Riders, SetShift(r) PROVE IInv'
  BY <1>4 DEF SetShift, IInv, TypeOK, RowsPassChecks, WritesSet, tables
<1>5. ASSUME NEW o \in Orders, TimeoutPasses(o) PROVE IInv'
  BY <1>5 DEF TimeoutPasses, IInv, TypeOK, RowsPassChecks, WritesSet, tables
<1>6. CASE AutoDecline
  <2>1. "SYSTEM" \in Actors /\ "SYSTEM" # None
    BY DEF Actors, LifecycleAssumption
  <2>2. \A o \in Orders : /\ order[o] \in Row /\ Checks(order[o])
                          /\ Cancelled(order[o], "SYSTEM") \in Row
                          /\ Checks(Cancelled(order[o], "SYSTEM"))
    BY <2>1, CancelledType DEF IInv, TypeOK, RowsPassChecks
  <2>3. \A o \in Orders : Append(history[o], Moved(order[o], "CANCELLED", "SYSTEM"))
                          \in Seq(Event)
    <3> SUFFICES ASSUME NEW o \in Orders
                 PROVE  Append(history[o], Moved(order[o], "CANCELLED", "SYSTEM"))
                        \in Seq(Event)
      OBVIOUS
    <3>1. Moved(order[o], "CANCELLED", "SYSTEM") \in Event
      BY <2>1, <2>2 DEF Moved, Event, Row, Statuses
    <3> QED BY <3>1 DEF IInv, TypeOK
  <2>4. TypeOK'
    BY <1>6, <2>2, <2>3 DEF AutoDecline, IInv, TypeOK
  <2>5. RowsPassChecks'
    BY <1>6, <2>2 DEF AutoDecline, RowsPassChecks
  <2> QED BY <1>6, <2>4, <2>5 DEF AutoDecline, IInv, WritesSet
<1>7. CASE UNCHANGED vars
  BY <1>7 DEF vars, IInv, TypeOK, RowsPassChecks, WritesSet
<1> QED BY <1>1, <1>2, <1>3, <1>4, <1>5, <1>6, <1>7

\* An operator's assignment.
LEMMA AssignStep ==
    ASSUME IInv, LifecycleAssumption, NEW s \in Sessions, NEW o \in Orders, NEW r \in Riders,
           AssignRider(s, o, r) \/ DispatchRider(s, o, r)
    PROVE  IInv'
<1> DEFINE new == [order[o] EXCEPT !.rider = r]
<1>1. new \in Row /\ OnlySets(order[o], new)
  <2>1. PICK w \in Row : w = order[o]
    BY DEF IInv, TypeOK
  <2>2. [w EXCEPT !.rider = r] \in Row
    BY DEF Row
  <2>3. OnlySets(w, [w EXCEPT !.rider = r])
    BY DEF Row, OnlySets, LifecycleAssumption
  <2> QED BY <2>1, <2>2, <2>3
<1>2. PICK op \in Handlers : Read(s, o, op, new, None) /\ UNCHANGED issued
  BY DEF AssignRider, DispatchRider, Assign, Handlers
<1> HIDE DEF new
<1> QED BY <1>1, <1>2, ReadStep DEF IInv, TypeOK

\* Every step keeps the invariant.
LEMMA Inductive == ASSUME IInv, LifecycleAssumption, [Next]_vars PROVE IInv'
BY HandlerStep, AssignStep, CommitStep, OtherStep DEF Next

\* The first orders satisfy the invariant.
LEMMA Initially == ASSUME LifecycleAssumption, Init PROVE IInv
<1>1. \A o \in Orders : FreshRow(o) \in Row /\ Checks(FreshRow(o))
  BY DEF FreshRow, Row, Statuses, PaymentStatuses, Checks, LifecycleAssumption
<1>2. TypeOK
  BY <1>1 DEF Init, TypeOK
<1> QED BY <1>1, <1>2 DEF IInv, Init, RowsPassChecks, WritesSet

\* The tables, the sessions and the counters hold values of their kinds in every
\* reachable state, whatever requests overlap.
THEOREM TypeCorrect == Spec => []TypeOK
<1>1. Init => IInv
  BY Initially, LifecycleAssumption
<1>2. IInv /\ [Next]_vars => IInv'
  BY Inductive, LifecycleAssumption
<1>3. IInv => TypeOK
  BY DEF IInv
<1> QED BY <1>1, <1>2, <1>3, PTL DEF Spec

(***************************************************************************)
(* How a row can change                                                    *)
(***************************************************************************)
Untouched(o) == order'[o] = order[o]

FlushedBy(o, s) ==
    /\ txn[s] # None /\ txn[s].order = o
    /\ order'[o] = Flushed(order[o], txn[s])

ClaimedBy(o, r) ==
    /\ order[o].rider = None /\ order[o].status \in Offerable
    /\ order'[o] = [order[o] EXCEPT !.rider = r]

Declined(o) ==
    /\ order[o].status = "PENDING"
    /\ order'[o] = Cancelled(order[o], "SYSTEM")

\* Only a commit, a claim and the sweep write the orders table.
LEMMA OrderWriters ==
    ASSUME [Next]_vars
    PROVE  \/ \E s \in Sessions : Commit(s) \/ ClaimOffer(s)
           \/ AutoDecline
           \/ UNCHANGED order
<1>1. ASSUME NEW s \in Sessions, NEW x \in Orders,
             \/ CustomerCancel(s, x) \/ AcceptOrder(s, x) \/ RejectOrder(s, x)
             \/ MarkReady(s, x) \/ HandoffOrder(s, x) \/ HandoffMiss(s, x)
             \/ Deliver(s, x) \/ DeliverAsAdmin(s, x)
             \/ AdminCancel(s, x) \/ AdminRefund(s, x)
      PROVE  UNCHANGED order
  BY <1>1 DEF CustomerCancel, AcceptOrder, RejectOrder, MarkReady, HandoffOrder, HandoffMiss,
              Deliver, DeliverAsAdmin, Complete, AdminCancel, AdminRefund, Read, Lock, tables
<1>2. ASSUME NEW s \in Sessions, NEW x \in Orders, NEW r \in Riders,
             AssignRider(s, x, r) \/ DispatchRider(s, x, r) \/ AcceptOffer(s, x, r)
      PROVE  UNCHANGED order
  BY <1>2 DEF AssignRider, DispatchRider, Assign, AcceptOffer, Read, tables
<1>3. ASSUME \/ \E s \in Sessions : Abort(s)
             \/ \E r \in Riders : SetShift(r)
             \/ \E x \in Orders : TimeoutPasses(x)
             \/ UNCHANGED vars
      PROVE  UNCHANGED order
  BY <1>3 DEF Abort, SetShift, TimeoutPasses, vars, tables
<1> QED BY <1>1, <1>2, <1>3 DEF Next

\* The four ways in which a row changes.
LEMMA RowSteps ==
    ASSUME IInv, [Next]_vars, NEW o \in Orders
    PROVE  \/ Untouched(o)
           \/ \E s \in Sessions : FlushedBy(o, s)
           \/ \E r \in Riders : ClaimedBy(o, r)
           \/ Declined(o)
<1>0. TypeOK
  BY DEF IInv
<1>1. ASSUME NEW s \in Sessions, Commit(s)
      PROVE  Untouched(o) \/ FlushedBy(o, s)
  <2> DEFINE row == Flushed(order[txn[s].order], txn[s])
  <2>1. order' = [order EXCEPT ![txn[s].order] = row] /\ txn[s] # None
    BY <1>1 DEF Commit
  <2> HIDE DEF row
  <2>2. txn[s].order # o => order'[o] = order[o]
    BY <1>0, <2>1 DEF TypeOK
  <2>3. txn[s].order = o => order'[o] = row
    BY <1>0, <2>1 DEF TypeOK
  <2> QED BY <2>1, <2>2, <2>3 DEF Untouched, FlushedBy, row
<1>2. ASSUME NEW s \in Sessions, ClaimOffer(s)
      PROVE  Untouched(o) \/ \E r \in Riders : ClaimedBy(o, r)
  <2> DEFINE c == claim[s]
             row == [order[c.order] EXCEPT !.rider = c.rider]
  <2>1. /\ c.rider \in Riders
        /\ order' = [order EXCEPT ![c.order] = row]
        /\ order[c.order].rider = None /\ order[c.order].status \in Offerable
    BY <1>0, <1>2 DEF ClaimOffer, TypeOK, Claim
  <2>2. row = [order[c.order] EXCEPT !.rider = c.rider]
    OBVIOUS
  <2> HIDE DEF c, row
  <2>3. c.order # o => Untouched(o)
    BY <1>0, <2>1 DEF TypeOK, Untouched
  <2>4. c.order = o => ClaimedBy(o, c.rider)
    BY <1>0, <2>1, <2>2 DEF TypeOK, ClaimedBy
  <2> QED BY <2>1, <2>3, <2>4
<1>3. CASE AutoDecline
  BY <1>3 DEF AutoDecline, Due, Untouched, Declined
<1>4. CASE UNCHANGED order
  BY <1>4 DEF Untouched
<1> QED BY <1>1, <1>2, <1>3, <1>4, OrderWriters

\* What a row's change leaves alone: none of the four ways clears the canceller,
\* the refund mark, the rider or the delivery time.
LEMMA RowOnlySets ==
    ASSUME IInv, LifecycleAssumption, [Next]_vars, NEW o \in Orders
    PROVE  /\ order[o].cancelledBy # None => order'[o].cancelledBy # None
           /\ order[o].refunded => order'[o].refunded
           /\ order[o].rider # None => order'[o].rider # None
           /\ order[o].delivered => order'[o].delivered
<1>0. order[o] \in Row
  BY DEF IInv, TypeOK
<1>1. CASE Untouched(o)
  BY <1>1 DEF Untouched
<1>2. ASSUME NEW s \in Sessions, FlushedBy(o, s)
      PROVE  /\ order[o].cancelledBy # None => order'[o].cancelledBy # None
             /\ order[o].refunded => order'[o].refunded
             /\ order[o].rider # None => order'[o].rider # None
             /\ order[o].delivered => order'[o].delivered
  <2>1. OnlySets(txn[s].snap, txn[s].new) /\ txn[s] \in Txn
    BY <1>2 DEF FlushedBy, IInv, WritesSet, TypeOK
  <2> QED BY <1>0, <1>2, <2>1 DEF FlushedBy, Flushed, Column, OnlySets, Txn, Row
<1>3. ASSUME NEW r \in Riders, ClaimedBy(o, r)
      PROVE  /\ order[o].cancelledBy # None => order'[o].cancelledBy # None
             /\ order[o].refunded => order'[o].refunded
             /\ order[o].rider # None => order'[o].rider # None
             /\ order[o].delivered => order'[o].delivered
  BY <1>0, <1>3 DEF ClaimedBy, Row
<1>4. CASE Declined(o)
  <2>1. "SYSTEM" \in Actors /\ "SYSTEM" # None
    BY DEF Actors, LifecycleAssumption
  <2>2. OnlySets(order[o], Cancelled(order[o], "SYSTEM"))
    BY <1>0, <2>1, CancelledType
  <2> QED BY <1>4, <2>2 DEF Declined, OnlySets
<1> QED BY <1>1, <1>2, <1>3, <1>4, RowSteps

\* A cancelled order stays cancelled: no handler clears cancelled_at, and
\* ck_orders_cancelled refuses every other status while it is set.
THEOREM CancelledForEver == Spec => CancelledStays
<1>1. Init => IInv
  BY Initially, LifecycleAssumption
<1>2. IInv /\ [Next]_vars => IInv'
  BY Inductive, LifecycleAssumption
<1>3. IInv /\ IInv' /\ [Next]_vars =>
        [\A o \in Orders : order[o].status = "CANCELLED" => order'[o].status = "CANCELLED"]_vars
  <2> SUFFICES ASSUME IInv, IInv', [Next]_vars, NEW o \in Orders, order[o].status = "CANCELLED"
               PROVE  order'[o].status = "CANCELLED"
    OBVIOUS
  <2>1. order[o].cancelledBy # None
    BY DEF IInv, RowsPassChecks, Checks
  <2>2. order'[o].cancelledBy # None
    BY <2>1, RowOnlySets, LifecycleAssumption
  <2> QED BY <2>2 DEF IInv, RowsPassChecks, Checks
<1> QED BY <1>1, <1>2, <1>3, PTL DEF Spec, CancelledStays

\* A refund is final: no handler clears refunded_at, and ck_orders_refund_status
\* refuses the PAID a stale delivery confirmation would write over it.
THEOREM RefundFinal == Spec => RefundStays
<1>1. Init => IInv
  BY Initially, LifecycleAssumption
<1>2. IInv /\ [Next]_vars => IInv'
  BY Inductive, LifecycleAssumption
<1>3. IInv /\ IInv' /\ [Next]_vars =>
        [\A o \in Orders : order[o].refunded =>
            order'[o].refunded /\ order'[o].payment = "REFUNDED"]_vars
  <2> SUFFICES ASSUME IInv, IInv', [Next]_vars, NEW o \in Orders, order[o].refunded
               PROVE  order'[o].refunded /\ order'[o].payment = "REFUNDED"
    OBVIOUS
  <2>1. order'[o].refunded
    BY RowOnlySets, LifecycleAssumption
  <2> QED BY <2>1 DEF IInv, RowsPassChecks, Checks
<1> QED BY <1>1, <1>2, <1>3, PTL DEF Spec, RefundStays

\* An order never loses its rider: a request that read it before the assignment
\* writes the rider columns only when it sets them itself.
THEOREM RiderKept == Spec => RiderStays
<1>1. Init => IInv
  BY Initially, LifecycleAssumption
<1>2. IInv /\ [Next]_vars => IInv'
  BY Inductive, LifecycleAssumption
<1>3. IInv /\ [Next]_vars =>
        [\A o \in Orders : order[o].rider # None => order'[o].rider # None]_vars
  BY RowOnlySets, LifecycleAssumption
<1> QED BY <1>1, <1>2, <1>3, PTL DEF Spec, RiderStays

\* Whatever was computed before it, nothing that is done is undone.
THEOREM NothingUndone == Spec => NothingIsUndone
BY CancelledForEver, RefundFinal, RiderKept DEF NothingIsUndone

(***************************************************************************)
(* Locks                                                                   *)
(***************************************************************************)
\* A session serves one request at a time.
OneRequest == \A s \in Sessions : txn[s] = None \/ claim[s] = None

Became(b, st, r, by, m, d) ==
    b.status = st /\ b.rider = r /\ b.cancelledBy = by /\ b.payment = m /\ b.delivered = d

Repaid(m) == IF m = "PAID" THEN "REFUNDED" ELSE m

\* What a handler that read row a of order x makes of it, by itself and after what
\* check; locked says whether it asked for the row lock.
Served(x, a, b, locked) ==
    \/ Became(b, a.status, a.rider, a.cancelledBy, a.payment, a.delivered)
    \/ /\ a.status = "PENDING"
       /\ Became(b, "PREPARING", a.rider, a.cancelledBy, a.payment, a.delivered)
    \/ /\ a.status = "PREPARING"
       /\ Became(b, "READY", a.rider, a.cancelledBy, a.payment, a.delivered)
    \/ /\ a.status = "READY" /\ a.rider # None
       /\ Became(b, "PICKED_UP", a.rider, a.cancelledBy, a.payment, a.delivered)
    \/ /\ a.status = "PICKED_UP"
       /\ Became(b, "DELIVERED", a.rider, a.cancelledBy,
                 IF x \in CashOrders THEN "PAID" ELSE a.payment, TRUE)
    \/ /\ a.status = "PENDING"
       /\ Became(b, "CANCELLED", a.rider, "CUSTOMER", a.payment, a.delivered)
    \/ /\ locked /\ a.status \in VendorCancellable
       /\ Became(b, "CANCELLED", a.rider, "VENDOR", Repaid(a.payment), a.delivered)
    \/ /\ locked /\ a.status \in Assignable
       /\ Became(b, "CANCELLED", a.rider, "ADMIN", Repaid(a.payment), a.delivered)
    \/ /\ a.status \in Assignable
       /\ \E r \in Riders : Became(b, a.status, r, a.cancelledBy, a.payment, a.delivered)
    \/ /\ a.payment = "PAID"
       /\ Became(b, a.status, a.rider, a.cancelledBy, "REFUNDED", a.delivered)

\* How the open request of a session can change.
Opened(s, x) ==
    /\ txn[s] = None /\ claim[s] = None
    /\ Overlapping \/ Quiet(x)
    /\ Served(x, order[x], txn'[s].new, txn'[s].locked)
    /\ txn'[s] # None /\ txn'[s].order = x /\ txn'[s].snap = order[x]
    /\ UNCHANGED <<order, claim>>

\* The table of transitions, spelled out.
LEMMA TransitionsAre ==
    ASSUME NEW st \in Statuses
    PROVE  /\ "PREPARING" \in Transitions[st] => st = "PENDING"
           /\ "READY" \in Transitions[st] => st = "PREPARING"
           /\ "CANCELLED" \in Transitions[st] => st \in Assignable
<1>1. CASE st = "PENDING"
  BY <1>1 DEF Transitions, Assignable
<1>2. CASE st = "PREPARING"
  BY <1>2 DEF Transitions, Assignable
<1>3. CASE st = "READY"
  BY <1>3 DEF Transitions, Assignable
<1>4. CASE st = "PICKED_UP"
  BY <1>4 DEF Transitions
<1>5. CASE st \in {"DELIVERED", "CANCELLED"}
  BY <1>5 DEF Transitions
<1> QED BY <1>1, <1>2, <1>3, <1>4, <1>5 DEF Statuses

\* What a step does to one session's request, and what it computes there.
LEMMA TxnSteps ==
    ASSUME TypeOK, [Next]_vars, NEW s \in Sessions, txn'[s] # txn[s]
    PROVE  txn'[s] = None \/ \E x \in Orders : Opened(s, x)
<1>1. ASSUME NEW q \in Sessions, NEW x \in Orders, NEW op, NEW new, NEW event,
             NEW locked \in BOOLEAN,
             IF locked THEN Lock(q, x, op, new, event) ELSE Read(q, x, op, new, event),
             Served(x, order[x], new, locked)
      PROVE  Opened(s, x)
  <2> DEFINE t == Request(x, op, locked, new, event)
  <2>1. txn' = [txn EXCEPT ![q] = t]
    BY <1>1 DEF Read, Lock
  <2>2. /\ t.order = x /\ t.snap = order[x] /\ t.new = new /\ t.locked = locked
        /\ txn[q] = None /\ claim[q] = None /\ (Overlapping \/ Quiet(x))
        /\ UNCHANGED <<order, claim>>
    BY <1>1 DEF Request, Read, Lock, MayStart, Idle, tables
  <2> HIDE DEF t
  <2>3. q = s /\ txn'[s] = t
    BY <2>1 DEF TypeOK
  <2>4. t # None
    BY <2>1, <2>2, <2>3
  <2> QED BY <1>1, <2>2, <2>3, <2>4 DEF Opened
<1>2. ASSUME NEW q \in Sessions, NEW x \in Orders, NEW op, NEW actor,
             Complete(q, x, op, actor)
      PROVE  Opened(s, x)
  <2> DEFINE new == [order[x] EXCEPT !.status = "DELIVERED", !.delivered = TRUE,
                                     !.payment = IF x \in CashOrders THEN "PAID" ELSE @]
             request == Request(x, op, FALSE, new, Moved(order[x], "DELIVERED", actor))
             t == [request EXCEPT !.profile = order[x].rider,
                                  !.count = deliveries[order[x].rider] + 1]
  <2>1. txn' = [txn EXCEPT ![q] = t] /\ txn[q] = None /\ claim[q] = None
        /\ (Overlapping \/ Quiet(x)) /\ UNCHANGED <<order, claim>>
    BY <1>2 DEF Complete, MayStart, Idle, tables
  <2>2. t.order = x /\ t.snap = order[x] /\ t.new = new
    BY DEF Request
  <2>3. Served(x, order[x], new, t.locked)
    <3>1. order[x] \in Row /\ order[x].status = "PICKED_UP"
      BY <1>2 DEF TypeOK, Complete
    <3>2. Became(new, "DELIVERED", order[x].rider, order[x].cancelledBy,
                 IF x \in CashOrders THEN "PAID" ELSE order[x].payment, TRUE)
      BY <3>1 DEF Row, Became
    <3> HIDE DEF new, t
    <3> QED BY <3>1, <3>2 DEF Served
  <2> HIDE DEF t, new
  <2>4. q = s /\ txn'[s] = t
    BY <2>1 DEF TypeOK
  <2> QED BY <2>1, <2>2, <2>3, <2>4 DEF Opened
<1>3. ASSUME NEW q \in Sessions, NEW x \in Orders,
             \/ CustomerCancel(q, x) \/ AcceptOrder(q, x) \/ RejectOrder(q, x)
             \/ MarkReady(q, x) \/ HandoffOrder(q, x) \/ HandoffMiss(q, x)
             \/ Deliver(q, x) \/ DeliverAsAdmin(q, x)
             \/ AdminCancel(q, x) \/ AdminRefund(q, x)
      PROVE  Opened(s, x)
  <2> DEFINE row == order[x]
  <2>0. row \in Row /\ row.status \in Statuses
    BY DEF TypeOK, Row
  <2>1. CASE CustomerCancel(q, x)
    <3> DEFINE new == [row EXCEPT !.status = "CANCELLED", !.cancelledBy = "CUSTOMER"]
    <3>1. row.status = "PENDING"
          /\ Became(new, "CANCELLED", row.rider, "CUSTOMER", row.payment, row.delivered)
      BY <2>0, <2>1 DEF CustomerCancel, Became, Row
    <3>2. Served(x, row, new, FALSE)
      BY <3>1 DEF Served
    <3> QED BY <1>1, <2>1, <3>2 DEF CustomerCancel
  <2>2. CASE AcceptOrder(q, x)
    <3> DEFINE new == [row EXCEPT !.status = "PREPARING", !.autoDecline = FALSE]
    <3>1. row.status = "PENDING"
          /\ Became(new, "PREPARING", row.rider, row.cancelledBy, row.payment, row.delivered)
      BY <2>0, <2>2, TransitionsAre DEF AcceptOrder, Became, Row
    <3>2. Served(x, row, new, TRUE)
      BY <3>1 DEF Served
    <3> QED BY <1>1, <2>2, <3>2 DEF AcceptOrder
  <2>3. ASSUME NEW a
        PROVE  Became(Cancelled(row, a), "CANCELLED", row.rider, a, Repaid(row.payment),
                      row.delivered)
    <3>1. CASE row.payment = "PAID"
      BY <2>0, <3>1 DEF Cancelled, Refunded, Became, Repaid, Row
    <3>2. CASE row.payment # "PAID"
      BY <2>0, <3>2 DEF Cancelled, Refunded, Became, Repaid, Row
    <3> QED BY <3>1, <3>2
  <2>4. CASE RejectOrder(q, x)
    <3>1. Served(x, row, Cancelled(row, "VENDOR"), TRUE)
      BY <2>3, <2>4 DEF RejectOrder, Served
    <3> QED BY <1>1, <2>4, <3>1 DEF RejectOrder
  <2>5. CASE MarkReady(q, x)
    <3> DEFINE new == [row EXCEPT !.status = "READY", !.pin = issued[x] + 1, !.attempts = 0]
    <3>1. row.status \in {"PREPARING", "READY"}
          /\ Became(new, "READY", row.rider, row.cancelledBy, row.payment, row.delivered)
      BY <2>0, <2>5, TransitionsAre DEF MarkReady, Became, Row
    <3>2. Served(x, row, new, FALSE)
      BY <3>1 DEF Served
    <3> QED BY <1>1, <2>5, <3>2 DEF MarkReady
  <2>6. CASE HandoffOrder(q, x)
    <3> DEFINE new == [row EXCEPT !.status = "PICKED_UP", !.pin = 0]
    <3>1. row.status = "READY" /\ row.rider # None
          /\ Became(new, "PICKED_UP", row.rider, row.cancelledBy, row.payment, row.delivered)
      BY <2>0, <2>6 DEF HandoffOrder, MayHandOff, Became, Row
    <3>2. Served(x, row, new, FALSE)
      BY <3>1 DEF Served
    <3> QED BY <1>1, <2>6, <3>2 DEF HandoffOrder
  <2>7. CASE HandoffMiss(q, x)
    <3> DEFINE new == [row EXCEPT !.attempts = @ + 1]
    <3>1. Became(new, row.status, row.rider, row.cancelledBy, row.payment, row.delivered)
      BY <2>0 DEF Became, Row
    <3>2. Served(x, row, new, FALSE)
      BY <3>1 DEF Served
    <3> QED BY <1>1, <2>7, <3>2 DEF HandoffMiss
  <2>8. CASE Deliver(q, x) \/ DeliverAsAdmin(q, x)
    BY <1>2, <2>8 DEF Deliver, DeliverAsAdmin
  <2>9. CASE AdminCancel(q, x)
    <3>1. Served(x, row, Cancelled(row, "ADMIN"), TRUE)
      BY <2>0, <2>3, <2>9, TransitionsAre DEF AdminCancel, Served
    <3> QED BY <1>1, <2>9, <3>1 DEF AdminCancel
  <2>10. CASE AdminRefund(q, x)
    <3>1. /\ row.payment = "PAID"
          /\ Became(Refunded(row), row.status, row.rider, row.cancelledBy, "REFUNDED",
                    row.delivered)
      BY <2>0, <2>10 DEF AdminRefund, Refunded, Became, Row
    <3>2. Served(x, row, Refunded(row), TRUE)
      BY <3>1 DEF Served
    <3> QED BY <1>1, <2>10, <3>2 DEF AdminRefund
  <2> QED BY <1>3, <2>1, <2>2, <2>4, <2>5, <2>6, <2>7, <2>8, <2>9, <2>10
<1>4. ASSUME NEW q \in Sessions, NEW x \in Orders, NEW r \in Riders,
             AssignRider(q, x, r) \/ DispatchRider(q, x, r)
      PROVE  Opened(s, x)
  <2> DEFINE row == order[x]
             new == [row EXCEPT !.rider = r]
  <2>1. row.status \in Assignable
        /\ Became(new, row.status, r, row.cancelledBy, row.payment, row.delivered)
    BY <1>4 DEF AssignRider, DispatchRider, Assign, TypeOK, Row, Became
  <2>2. Served(x, row, new, FALSE)
    BY <2>1 DEF Served
  <2> QED BY <1>1, <1>4, <2>2 DEF AssignRider, DispatchRider, Assign
<1>5. ASSUME NEW q \in Sessions, Commit(q) \/ Abort(q) PROVE txn'[s] = None
  BY <1>5 DEF Commit, Abort, TypeOK
<1>6. ASSUME \/ \E q \in Sessions : ClaimOffer(q)
             \/ \E q \in Sessions, x \in Orders, r \in Riders : AcceptOffer(q, x, r)
             \/ \E r \in Riders : SetShift(r)
             \/ \E x \in Orders : TimeoutPasses(x)
             \/ AutoDecline
             \/ UNCHANGED vars
      PROVE  txn' = txn
  BY <1>6 DEF ClaimOffer, AcceptOffer, SetShift, TimeoutPasses, AutoDecline, vars
<1> QED BY <1>3, <1>4, <1>5, <1>6 DEF Next

\* A session that reads with FOR UPDATE waits for the one that has the row.
LEMMA OneRequestStep ==
    ASSUME TypeOK, OneRequest, [Next]_vars
    PROVE  OneRequest'
<1> SUFFICES ASSUME NEW s \in Sessions PROVE txn'[s] = None \/ claim'[s] = None
  BY DEF OneRequest
<1>1. CASE txn'[s] # txn[s]
  BY <1>1, TxnSteps DEF OneRequest, Opened
<1>2. CASE txn'[s] = txn[s] /\ claim'[s] = claim[s]
  BY <1>2 DEF OneRequest
<1>3. CASE claim'[s] # claim[s]
  <2>1. ASSUME NEW q \in Sessions, NEW x \in Orders,
               \/ CustomerCancel(q, x) \/ AcceptOrder(q, x) \/ RejectOrder(q, x)
               \/ MarkReady(q, x) \/ HandoffOrder(q, x) \/ HandoffMiss(q, x)
               \/ Deliver(q, x) \/ DeliverAsAdmin(q, x)
               \/ AdminCancel(q, x) \/ AdminRefund(q, x)
        PROVE  UNCHANGED claim
    BY <2>1 DEF CustomerCancel, AcceptOrder, RejectOrder, MarkReady, HandoffOrder, HandoffMiss,
                Deliver, DeliverAsAdmin, Complete, AdminCancel, AdminRefund, Read, Lock
  <2>2. ASSUME NEW q \in Sessions, NEW x \in Orders, NEW r \in Riders,
               AssignRider(q, x, r) \/ DispatchRider(q, x, r)
        PROVE  UNCHANGED claim
    BY <2>2 DEF AssignRider, DispatchRider, Assign, Read
  <2>3. ASSUME \/ \E q \in Sessions : Commit(q)
               \/ \E r \in Riders : SetShift(r)
               \/ \E x \in Orders : TimeoutPasses(x)
               \/ AutoDecline
               \/ UNCHANGED vars
        PROVE  UNCHANGED claim
    BY <2>3 DEF Commit, SetShift, TimeoutPasses, AutoDecline, vars
  <2>4. ASSUME NEW q \in Sessions, ClaimOffer(q) \/ Abort(q) PROVE OneRequest'
    BY <2>4 DEF ClaimOffer, Abort, OneRequest, TypeOK
  <2>5. ASSUME NEW q \in Sessions, NEW x \in Orders, NEW r \in Riders, AcceptOffer(q, x, r)
        PROVE  OneRequest'
    BY <2>5 DEF AcceptOffer, MayStart, Idle, OneRequest, TypeOK
  <2> QED BY <1>3, <2>1, <2>2, <2>3, <2>4, <2>5 DEF Next, OneRequest
<1> QED BY <1>1, <1>2, <1>3

\* Until a request that locked its row commits, the row is the row it read, so
\* what the handler checked still holds when it writes (_get_order).
THEOREM LockedReads == Spec => []LockedReadIsCurrent
<1> DEFINE LInv == IInv /\ OneRequest /\ LockedReadIsCurrent
<1>1. Init => LInv
  BY Initially, LifecycleAssumption DEF Init, OneRequest, LockedReadIsCurrent
<1>2. LInv /\ [Next]_vars => LInv'
  <2> SUFFICES ASSUME LInv, [Next]_vars PROVE LockedReadIsCurrent'
    BY Inductive, OneRequestStep, LifecycleAssumption DEF IInv
  <2>0. TypeOK
    BY DEF IInv
  <2> SUFFICES ASSUME NEW s \in Sessions, txn'[s] # None, txn'[s].locked
               PROVE  order'[txn'[s].order] = txn'[s].snap
    BY DEF LockedReadIsCurrent
  <2>1. CASE txn'[s] # txn[s]
    BY <2>0, <2>1, TxnSteps DEF Opened
  <2>2. CASE txn'[s] = txn[s]
    <3>1. PICK o \in Orders : o = txn[s].order /\ order[o] = txn[s].snap
      BY <2>0, <2>2 DEF LockedReadIsCurrent, TypeOK, Txn
    <3>2. ASSUME NEW q \in Sessions, Commit(q) PROVE Untouched(o)
      <4>1. q # s
        BY <2>0, <2>2, <3>2 DEF Commit, TypeOK
      <4>2. txn[q].order # o
        BY <2>2, <3>1, <3>2, <4>1 DEF Commit, RowLocked
      <4> QED BY <2>0, <3>1, <3>2, <4>2 DEF Commit, Untouched, TypeOK
    <3>3. ASSUME NEW q \in Sessions, ClaimOffer(q) PROVE Untouched(o)
      <4>1. q # s
        BY <2>2, <3>3 DEF ClaimOffer, OneRequest
      <4>2. claim[q].order # o
        BY <2>2, <3>1, <3>3, <4>1 DEF ClaimOffer, RowLocked
      <4> QED BY <2>0, <3>1, <3>3, <4>2 DEF ClaimOffer, Untouched, TypeOK
    <3>4. ASSUME AutoDecline PROVE Untouched(o)
      BY <2>2, <3>1, <3>4 DEF AutoDecline, Due, Untouched
    <3>5. ASSUME UNCHANGED order PROVE Untouched(o)
      BY <3>5 DEF Untouched
    <3>6. Untouched(o)
      BY <3>2, <3>3, <3>4, <3>5, OrderWriters
    <3> QED BY <2>2, <3>1, <3>6 DEF Untouched
  <2> QED BY <2>1, <2>2
<1>3. LInv => LockedReadIsCurrent
  OBVIOUS
<1> QED BY <1>1, <1>2, <1>3, PTL DEF Spec

(***************************************************************************)
(* Cash                                                                    *)
(***************************************************************************)
\* A row, read or stored, records money exactly when a cash order was delivered.
CashRow(x, row) == (row.payment # "PENDING") <=> (row.delivered /\ x \in CashOrders)

\* The rows read and computed by open requests record it too, and what was read
\* as delivered still is.
CashWrites == \A s \in Sessions : txn[s] # None =>
    /\ CashRow(txn[s].order, txn[s].snap)
    /\ CashRow(txn[s].order, txn[s].new)
    /\ txn[s].snap.delivered => txn[s].new.delivered
    /\ txn[s].snap.delivered => order[txn[s].order].delivered

\* A stale confirmation can only write the money of a delivered order.
LEMMA CashFlush ==
    ASSUME NEW x \in Orders, NEW row \in Row, NEW t \in Txn, CashRow(x, row),
           CashRow(x, t.snap), CashRow(x, t.new),
           t.snap.delivered => t.new.delivered, t.snap.delivered => row.delivered
    PROVE  CashRow(x, Flushed(row, t))
<1>1. row.delivered \in BOOLEAN /\ t.snap.delivered \in BOOLEAN /\ t.new.delivered \in BOOLEAN
  BY DEF Row, Txn
<1>2. /\ Flushed(row, t).payment = Column(row.payment, t.snap.payment, t.new.payment)
      /\ Flushed(row, t).delivered = Column(row.delivered, t.snap.delivered, t.new.delivered)
  BY DEF Flushed
<1>3. CASE t.new.delivered = t.snap.delivered
  BY <1>1, <1>2, <1>3 DEF CashRow, Column
<1>4. CASE t.new.delivered # t.snap.delivered
  BY <1>1, <1>2, <1>4 DEF CashRow, Column
<1> QED BY <1>3, <1>4

\* Cash is recorded at the door and nowhere else, through any mix of stale
\* confirmations, refunds and cancellations.
THEOREM CashAtTheDoor == Spec => []CashChangesHandsAtTheDoor
<1> DEFINE CInv == IInv /\ CashChangesHandsAtTheDoor /\ CashWrites
<1>1. Init => CInv
  BY Initially, LifecycleAssumption DEF Init, FreshRow, CashChangesHandsAtTheDoor, CashWrites
<1>2. CInv /\ [Next]_vars => CInv'
  <2> SUFFICES ASSUME CInv, [Next]_vars
               PROVE  CashChangesHandsAtTheDoor' /\ CashWrites'
    BY Inductive, LifecycleAssumption
  <2>0. TypeOK /\ TypeOK'
    BY Inductive, LifecycleAssumption DEF IInv
  <2>1. \A x \in Orders : CashRow(x, order[x])
    BY DEF CashChangesHandsAtTheDoor, CashRow
  <2>2. ASSUME NEW x \in Orders PROVE CashRow(x, order'[x])
    <3>0. order[x] \in Row
      BY <2>0 DEF TypeOK
    <3>1. CASE Untouched(x)
      BY <2>1, <3>1 DEF Untouched
    <3>2. ASSUME NEW s \in Sessions, FlushedBy(x, s) PROVE CashRow(x, order'[x])
      <4>1. txn[s] \in Txn /\ txn[s].order = x
        BY <2>0, <3>2 DEF FlushedBy, TypeOK
      <4> QED BY <2>1, <3>0, <3>2, <4>1, CashFlush DEF FlushedBy, CashWrites
    <3>3. ASSUME NEW r \in Riders, ClaimedBy(x, r) PROVE CashRow(x, order'[x])
      BY <2>1, <3>0, <3>3 DEF ClaimedBy, CashRow, Row
    <3>4. CASE Declined(x)
      <4>1. CASE order[x].payment = "PAID"
        BY <2>1, <3>0, <3>4, <4>1 DEF Declined, Cancelled, Refunded, CashRow, Row
      <4>2. CASE order[x].payment # "PAID"
        BY <2>1, <3>0, <3>4, <4>2 DEF Declined, Cancelled, Refunded, CashRow, Row
      <4> QED BY <4>1, <4>2
    <3> QED BY <3>1, <3>2, <3>3, <3>4, RowSteps
  <2>3. CashChangesHandsAtTheDoor'
    BY <2>2 DEF CashChangesHandsAtTheDoor, CashRow
  <2>4. CashWrites'
    <3> SUFFICES ASSUME NEW s \in Sessions, txn'[s] # None
                 PROVE  /\ CashRow(txn'[s].order, txn'[s].snap)
                        /\ CashRow(txn'[s].order, txn'[s].new)
                        /\ txn'[s].snap.delivered => txn'[s].new.delivered
                        /\ txn'[s].snap.delivered => order'[txn'[s].order].delivered
      BY DEF CashWrites
    <3>1. CASE txn'[s] = txn[s]
      <4>1. PICK x \in Orders : x = txn[s].order
        BY <2>0, <3>1 DEF TypeOK, Txn
      <4>2. order[x].delivered => order'[x].delivered
        BY RowOnlySets, LifecycleAssumption
      <4> QED BY <3>1, <4>1, <4>2 DEF CashWrites
    <3>2. CASE txn'[s] # txn[s]
      <4>1. PICK x \in Orders : Opened(s, x)
        BY <2>0, <3>2, TxnSteps
      <4>2. order[x] \in Row /\ txn'[s].new \in Row
        BY <2>0, <4>1 DEF TypeOK, Opened, Txn
      <4>3. CashRow(x, txn'[s].new) /\ (order[x].delivered => txn'[s].new.delivered)
        BY <2>1, <4>1, <4>2 DEF Opened, Served, Became, Repaid, CashRow, Row
      <4> QED BY <2>1, <4>1, <4>3 DEF Opened
    <3> QED BY <3>1, <3>2
  <2> QED BY <2>3, <2>4
<1>3. CInv => CashChangesHandsAtTheDoor
  OBVIOUS
<1> QED BY <1>1, <1>2, <1>3, PTL DEF Spec

(***************************************************************************)
(* Races                                                                   *)
(***************************************************************************)
\* A request that cancels for the kitchen or an operator holds the row's lock and
\* found the order cancellable; only a customer's request cancels without one.
CancelsHeld(t) ==
    \/ t.new.cancelledBy = t.snap.cancelledBy
    \/ t.new.cancelledBy = "CUSTOMER"
    \/ t.locked /\ t.new.cancelledBy = "VENDOR" /\ t.snap.status \in VendorCancellable
    \/ t.locked /\ t.new.cancelledBy = "ADMIN" /\ t.snap.status \in Assignable

CancelsAreHeld == \A s \in Sessions : txn[s] # None => CancelsHeld(txn[s])

\* A request under the row's lock that cancels has read a row it may cancel.
LEMMA CancelsHeldStep ==
    ASSUME TypeOK, CancelsAreHeld, [Next]_vars
    PROVE  CancelsAreHeld'
<1> SUFFICES ASSUME NEW s \in Sessions, txn'[s] # None PROVE CancelsHeld(txn'[s])
  BY DEF CancelsAreHeld
<1>1. CASE txn'[s] = txn[s]
  BY <1>1 DEF CancelsAreHeld
<1>2. CASE txn'[s] # txn[s]
  <2>1. PICK x \in Orders : Opened(s, x)
    BY <1>2, TxnSteps
  <2> QED BY <2>1 DEF Opened, Served, Became, CancelsHeld
<1> QED BY <1>1, <1>2

\* The kitchen, an operator and the sweep cancel only what they may cancel at the
\* moment it is written: what they checked under the row's lock is still so.
THEOREM LockedCancels == Spec => LockedCancelsInTime
<1> DEFINE InTime(o) ==
        order'[o].status = "CANCELLED" /\ order'[o].cancelledBy # order[o].cancelledBy =>
            CASE order'[o].cancelledBy = "VENDOR" -> order[o].status \in VendorCancellable
              [] order'[o].cancelledBy = "ADMIN"  -> order[o].status \in Assignable
              [] order'[o].cancelledBy = "SYSTEM" -> order[o].status = "PENDING"
              [] OTHER -> TRUE
<1>1. Init => IInv /\ CancelsAreHeld
  BY Initially, LifecycleAssumption DEF Init, CancelsAreHeld
<1>2. IInv /\ CancelsAreHeld /\ [Next]_vars => (IInv /\ CancelsAreHeld)'
  BY Inductive, CancelsHeldStep, LifecycleAssumption DEF IInv
<1>3. IInv /\ CancelsAreHeld /\ LockedReadIsCurrent /\ [Next]_vars => \A o \in Orders : InTime(o)
  <2> SUFFICES ASSUME IInv, CancelsAreHeld, LockedReadIsCurrent, [Next]_vars,
                      NEW o \in Orders, order'[o].cancelledBy # order[o].cancelledBy
               PROVE  \/ order'[o].cancelledBy = "VENDOR" /\ order[o].status \in VendorCancellable
                      \/ order'[o].cancelledBy = "ADMIN" /\ order[o].status \in Assignable
                      \/ order'[o].cancelledBy = "SYSTEM" /\ order[o].status = "PENDING"
                      \/ order'[o].cancelledBy = "CUSTOMER"
    OBVIOUS
  <2>1. order[o] \in Row
    BY DEF IInv, TypeOK
  <2>2. ASSUME NEW s \in Sessions, FlushedBy(o, s)
        PROVE  \/ order'[o].cancelledBy = "VENDOR" /\ order[o].status \in VendorCancellable
               \/ order'[o].cancelledBy = "ADMIN" /\ order[o].status \in Assignable
               \/ order'[o].cancelledBy = "CUSTOMER"
    <3>1. order'[o].cancelledBy = txn[s].new.cancelledBy
          /\ txn[s].new.cancelledBy # txn[s].snap.cancelledBy
      BY <2>2 DEF FlushedBy, Flushed, Column
    <3>2. txn[s].locked => order[o] = txn[s].snap
      BY <2>2 DEF FlushedBy, LockedReadIsCurrent
    <3>3. CancelsHeld(txn[s])
      BY <2>2 DEF FlushedBy, CancelsAreHeld
    <3> QED BY <3>1, <3>2, <3>3 DEF CancelsHeld
  <2>3. ASSUME NEW r \in Riders, ClaimedBy(o, r) PROVE FALSE
    BY <2>1, <2>3 DEF ClaimedBy, Row
  <2>4. CASE Declined(o)
    <3>1. Cancelled(order[o], "SYSTEM").cancelledBy = "SYSTEM"
      <4>1. CASE order[o].payment = "PAID"
        BY <2>1, <4>1 DEF Cancelled, Refunded, Row
      <4>2. CASE order[o].payment # "PAID"
        BY <2>1, <4>2 DEF Cancelled, Refunded, Row
      <4> QED BY <4>1, <4>2
    <3> QED BY <2>4, <3>1 DEF Declined
  <2>5. ~Untouched(o)
    BY DEF Untouched
  <2> QED BY <2>2, <2>3, <2>4, <2>5, RowSteps
<1>4. IInv /\ CancelsAreHeld /\ LockedReadIsCurrent /\ [Next]_vars => [\A o \in Orders : InTime(o)]_vars
  BY <1>3
<1> QED BY <1>1, <1>2, <1>4, LockedReads, PTL DEF Spec, LockedCancelsInTime

(***************************************************************************)
(* One request at a time on each order                                     *)
(***************************************************************************)
\* No two open requests are on one order.
Alone == \A s, q \in Sessions : txn[s] # None /\ s # q =>
    /\ txn[q] # None => txn[q].order # txn[s].order
    /\ claim[q] # None => claim[q].order # txn[s].order

\* What an open request read is what is stored, and it computes what it may.
Fresh == \A s \in Sessions : txn[s] # None =>
    /\ txn[s].snap = order[txn[s].order]
    /\ Served(txn[s].order, txn[s].snap, txn[s].new, txn[s].locked)

\* No money is recorded before the order is delivered.
PaidLate == \A o \in Orders : order[o].status # "DELIVERED" => order[o].payment = "PENDING"

SInv == IInv /\ OneRequest /\ Alone /\ Fresh /\ PaidLate

\* The contract's step on order o, read off its row before and after.
Promised(o) ==
    \/ Untouched(o)
    \/ \E locked \in BOOLEAN : Served(o, order[o], order'[o], locked)
    \/ \E r \in Riders : ClaimedBy(o, r)
    \/ Declined(o)

\* Flushing onto the very row that was read yields the row computed.
LEMMA FlushedFresh ==
    ASSUME NEW t \in Txn
    PROVE  Flushed(t.snap, t) = t.new
BY DEF Txn, Row, Flushed, Column

\* A lone writer's commit is one of the moves the contract knows.
LEMMA PromisedStep ==
    ASSUME SInv, [Next]_vars, NEW o \in Orders
    PROVE  Promised(o)
<1>1. ASSUME NEW s \in Sessions, FlushedBy(o, s) PROVE Promised(o)
  <2>1. /\ txn[s] \in Txn /\ txn[s].locked \in BOOLEAN
        /\ order'[o] = Flushed(txn[s].snap, txn[s])
        /\ Served(o, order[o], txn[s].new, txn[s].locked)
    BY <1>1 DEF SInv, IInv, TypeOK, FlushedBy, Fresh, Txn
  <2> QED BY <2>1, FlushedFresh DEF Promised
<1> QED BY <1>1, RowSteps DEF SInv, Promised

\* A step opens or ends the request of one session.
LEMMA OneActs ==
    ASSUME TypeOK, [Next]_vars, NEW s \in Sessions, NEW q \in Sessions, s # q
    PROVE  \/ txn'[s] = txn[s] /\ claim'[s] = claim[s]
           \/ txn'[q] = txn[q] /\ claim'[q] = claim[q]
<1> DEFINE One(p) == \A z \in Sessions : z = p \/ (txn'[z] = txn[z] /\ claim'[z] = claim[z])
<1>1. ASSUME NEW p \in Sessions, NEW x \in Orders, NEW op, NEW new, NEW event,
             Lock(p, x, op, new, event) \/ Read(p, x, op, new, event)
      PROVE  One(p)
  <2>1. PICK locked \in BOOLEAN : txn' = [txn EXCEPT ![p] = Request(x, op, locked, new, event)]
    BY <1>1 DEF Lock, Read
  <2> QED BY <1>1, <2>1 DEF Lock, Read, TypeOK
<1>2. ASSUME NEW p \in Sessions, NEW x \in Orders, NEW op, NEW actor, Complete(p, x, op, actor)
      PROVE  One(p)
  <2>1. \E t : txn' = [txn EXCEPT ![p] = t]
    BY <1>2 DEF Complete
  <2> QED BY <1>2, <2>1 DEF Complete, TypeOK
<1>3. ASSUME NEW p \in Sessions, NEW x \in Orders,
             \/ CustomerCancel(p, x) \/ AcceptOrder(p, x) \/ RejectOrder(p, x)
             \/ MarkReady(p, x) \/ HandoffOrder(p, x) \/ HandoffMiss(p, x)
             \/ Deliver(p, x) \/ DeliverAsAdmin(p, x)
             \/ AdminCancel(p, x) \/ AdminRefund(p, x)
      PROVE  One(p)
  BY <1>1, <1>2, <1>3 DEF CustomerCancel, AcceptOrder, RejectOrder, MarkReady, HandoffOrder,
      HandoffMiss, Deliver, DeliverAsAdmin, AdminCancel, AdminRefund
<1>4. ASSUME NEW p \in Sessions, NEW x \in Orders, NEW r \in Riders,
             AssignRider(p, x, r) \/ DispatchRider(p, x, r) \/ AcceptOffer(p, x, r)
      PROVE  One(p)
  BY <1>1, <1>4 DEF AssignRider, DispatchRider, Assign, AcceptOffer, TypeOK
<1>5. ASSUME NEW p \in Sessions, Commit(p) \/ ClaimOffer(p) \/ Abort(p) PROVE One(p)
  BY <1>5 DEF Commit, ClaimOffer, Abort, TypeOK
<1>6. ASSUME \/ \E r \in Riders : SetShift(r)
             \/ \E x \in Orders : TimeoutPasses(x)
             \/ AutoDecline
             \/ UNCHANGED vars
      PROVE  One(s)
  BY <1>6 DEF SetShift, TimeoutPasses, AutoDecline, vars
<1>7. \E p \in Sessions : One(p)
  BY <1>3, <1>4, <1>5, <1>6 DEF Next
<1> QED BY <1>7

\* A rider's accept starts on an order nobody else is busy with.
LEMMA ClaimSteps ==
    ASSUME TypeOK, ~Overlapping, [Next]_vars, NEW s \in Sessions,
           claim'[s] # claim[s], claim'[s] # None
    PROVE  \E x \in Orders : claim'[s].order = x /\ Quiet(x) /\ UNCHANGED txn
<1>1. ASSUME NEW q \in Sessions, NEW x \in Orders,
             \/ CustomerCancel(q, x) \/ AcceptOrder(q, x) \/ RejectOrder(q, x)
             \/ MarkReady(q, x) \/ HandoffOrder(q, x) \/ HandoffMiss(q, x)
             \/ Deliver(q, x) \/ DeliverAsAdmin(q, x)
             \/ AdminCancel(q, x) \/ AdminRefund(q, x)
      PROVE  UNCHANGED claim
  BY <1>1 DEF CustomerCancel, AcceptOrder, RejectOrder, MarkReady, HandoffOrder, HandoffMiss,
              Deliver, DeliverAsAdmin, Complete, AdminCancel, AdminRefund, Read, Lock
<1>2. ASSUME NEW q \in Sessions, NEW x \in Orders, NEW r \in Riders,
             AssignRider(q, x, r) \/ DispatchRider(q, x, r)
      PROVE  UNCHANGED claim
  BY <1>2 DEF AssignRider, DispatchRider, Assign, Read
<1>3. ASSUME \/ \E q \in Sessions : Commit(q)
             \/ \E r \in Riders : SetShift(r)
             \/ \E x \in Orders : TimeoutPasses(x)
             \/ AutoDecline
             \/ UNCHANGED vars
      PROVE  UNCHANGED claim
  BY <1>3 DEF Commit, SetShift, TimeoutPasses, AutoDecline, vars
<1>4. ASSUME NEW q \in Sessions, ClaimOffer(q) \/ Abort(q) PROVE FALSE
  BY <1>4 DEF ClaimOffer, Abort, TypeOK
<1>5. ASSUME NEW q \in Sessions, NEW x \in Orders, NEW r \in Riders, AcceptOffer(q, x, r)
      PROVE  claim'[s].order = x /\ Quiet(x) /\ UNCHANGED txn
  BY <1>5 DEF AcceptOffer, MayStart, TypeOK
<1> QED BY <1>1, <1>2, <1>3, <1>4, <1>5 DEF Next

\* Served one at a time, two sessions never work on one order.
LEMMA AloneStep ==
    ASSUME ~Overlapping, SInv, [Next]_vars
    PROVE  Alone'
<1> SUFFICES ASSUME NEW s \in Sessions, NEW q \in Sessions, txn'[s] # None, s # q
             PROVE  /\ txn'[q] # None => txn'[q].order # txn'[s].order
                    /\ claim'[q] # None => claim'[q].order # txn'[s].order
  BY DEF Alone
<1>0. TypeOK
  BY DEF SInv, IInv
<1>1. CASE txn'[s] # txn[s]
  <2>1. PICK x \in Orders : Opened(s, x)
    BY <1>0, <1>1, TxnSteps
  <2>2. txn'[q] = txn[q] /\ claim'[q] = claim[q]
    BY <1>0, <1>1, OneActs
  <2> QED BY <2>1, <2>2 DEF Opened, Quiet
<1>2. CASE txn'[s] = txn[s] /\ txn'[q] # txn[q]
  <2>1. CASE txn'[q] = None /\ claim'[q] = claim[q]
    BY <1>2, <2>1 DEF SInv, Alone
  <2>2. ASSUME NEW x \in Orders, Opened(q, x)
        PROVE  txn'[q].order # txn'[s].order /\ claim'[q] = None
    BY <1>2, <2>2 DEF Opened, Quiet
  <2>3. txn'[q] = None /\ claim'[q] # claim[q] => claim'[q] = None
    BY <1>0, <1>2, ClaimSteps
  <2> QED BY <1>0, <1>2, <2>1, <2>2, <2>3, TxnSteps
<1>3. CASE txn'[s] = txn[s] /\ txn'[q] = txn[q] /\ claim'[q] # claim[q]
  <2>1. claim'[q] # None => claim'[q].order # txn'[s].order
    BY <1>0, <1>3, ClaimSteps DEF Quiet
  <2> QED BY <1>3, <2>1 DEF SInv, Alone
<1>4. CASE txn'[s] = txn[s] /\ txn'[q] = txn[q] /\ claim'[q] = claim[q]
  BY <1>4 DEF SInv, Alone
<1> QED BY <1>1, <1>2, <1>3, <1>4

\* Served one at a time, what a request read is still what is stored.
LEMMA FreshStep ==
    ASSUME ~Overlapping, SInv, [Next]_vars
    PROVE  Fresh'
<1> SUFFICES ASSUME NEW s \in Sessions, txn'[s] # None
             PROVE  /\ txn'[s].snap = order'[txn'[s].order]
                    /\ Served(txn'[s].order, txn'[s].snap, txn'[s].new, txn'[s].locked)
  BY DEF Fresh, Served, Became
<1>0. TypeOK
  BY DEF SInv, IInv
<1>1. CASE txn'[s] # txn[s]
  BY <1>0, <1>1, TxnSteps DEF Opened
<1>2. CASE txn'[s] = txn[s]
  <2>1. PICK o \in Orders : o = txn[s].order /\ txn[s].snap = order[o]
    BY <1>0, <1>2 DEF SInv, Fresh, TypeOK, Txn
  <2>2. ASSUME NEW q \in Sessions, Commit(q) PROVE Untouched(o)
    <3>1. q # s
      BY <1>0, <1>2, <2>2 DEF Commit, TypeOK
    <3>2. txn[q].order # o
      BY <1>2, <2>1, <2>2, <3>1 DEF Commit, SInv, Alone
    <3> QED BY <1>0, <2>1, <2>2, <3>2 DEF Commit, Untouched, TypeOK
  <2>3. ASSUME NEW q \in Sessions, ClaimOffer(q) PROVE Untouched(o)
    <3>1. q # s
      BY <1>2, <2>3 DEF ClaimOffer, SInv, OneRequest
    <3>2. claim[q].order # o
      BY <1>2, <2>1, <2>3, <3>1 DEF ClaimOffer, SInv, Alone
    <3> QED BY <1>0, <2>1, <2>3, <3>2 DEF ClaimOffer, Untouched, TypeOK
  <2>4. ASSUME AutoDecline PROVE Untouched(o)
    BY <1>2, <2>1, <2>4 DEF AutoDecline, Due, Quiet, Untouched
  <2>5. Untouched(o)
    BY <2>2, <2>3, <2>4, OrderWriters DEF Untouched
  <2> QED BY <1>2, <2>1, <2>5 DEF Untouched, SInv, Fresh
<1> QED BY <1>1, <1>2

\* A refusal of a paid order refunds it.
LEMMA DeclinedRow ==
    ASSUME NEW row \in Row, NEW actor
    PROVE  Became(Cancelled(row, actor), "CANCELLED", row.rider, actor, Repaid(row.payment),
                  row.delivered)
<1>1. CASE row.payment = "PAID"
  BY <1>1 DEF Cancelled, Refunded, Became, Repaid, Row
<1>2. CASE row.payment # "PAID"
  BY <1>2 DEF Cancelled, Refunded, Became, Repaid, Row
<1> QED BY <1>1, <1>2

\* Money is on an order only once it has been delivered.
LEMMA PaidLateStep ==
    ASSUME SInv, [Next]_vars
    PROVE  PaidLate'
<1> SUFFICES ASSUME NEW o \in Orders, order'[o].status # "DELIVERED"
             PROVE  order'[o].payment = "PENDING"
  BY DEF PaidLate
<1>0. order[o] \in Row /\ (order[o].status # "DELIVERED" => order[o].payment = "PENDING")
  BY DEF SInv, IInv, TypeOK, PaidLate
<1>1. CASE Untouched(o)
  BY <1>0, <1>1 DEF Untouched
<1>2. ASSUME NEW locked \in BOOLEAN, Served(o, order[o], order'[o], locked)
      PROVE  order'[o].payment = "PENDING"
  BY <1>0, <1>2 DEF Served, Became, Repaid, Assignable, VendorCancellable
<1>3. ASSUME NEW r \in Riders, ClaimedBy(o, r) PROVE order'[o].payment = "PENDING"
  BY <1>0, <1>3 DEF ClaimedBy, Row
<1>4. CASE Declined(o)
  BY <1>0, <1>4, DeclinedRow DEF Declined, Became, Repaid
<1> QED BY <1>1, <1>2, <1>3, <1>4, PromisedStep DEF Promised

\* Every step of the code on an order is a step of the contract on it, or none.
LEMMA ContractStep ==
    ASSUME SInv, [Next]_vars, NEW o \in Orders
    PROVE  Contract!Step(o) \/ Contract!Same(o)
<1>0. order[o] \in Row /\ (order[o].status # "DELIVERED" => order[o].payment = "PENDING")
  BY DEF SInv, IInv, TypeOK, PaidLate
<1>1. CASE Untouched(o)
  BY <1>1 DEF Untouched, Contract!Same, Contract!Becomes
<1>2. ASSUME NEW actor \in {"CUSTOMER", "VENDOR", "ADMIN", "SYSTEM"},
             order[o].status \in Contract!CancellableBy(actor),
             Became(order'[o], "CANCELLED", order[o].rider, actor, Repaid(order[o].payment),
                    order[o].delivered)
      PROVE  Contract!Step(o)
  <2>1. Contract!Cancel(o, actor)
    BY <1>2 DEF Contract!Cancel, Contract!Becomes, Became, Repaid
  <2> QED BY <2>1 DEF Contract!Step
<1>3. /\ "PENDING" \in Contract!CancellableBy("CUSTOMER")
      /\ "PENDING" \in Contract!CancellableBy("SYSTEM")
      /\ VendorCancellable \subseteq Contract!CancellableBy("VENDOR")
      /\ Assignable \subseteq Contract!CancellableBy("ADMIN")
  BY DEF Contract!CancellableBy, VendorCancellable, Assignable
<1>4. ASSUME NEW r \in Riders, order[o].status \in Assignable,
             order'[o].status = order[o].status, order'[o].rider = r,
             order'[o].cancelledBy = order[o].cancelledBy,
             order'[o].payment = order[o].payment
      PROVE  Contract!Step(o)
  BY <1>4 DEF Contract!Step, Contract!Assign, Contract!Becomes, Assignable
<1>5. ASSUME NEW locked \in BOOLEAN, Served(o, order[o], order'[o], locked)
      PROVE  Contract!Step(o) \/ Contract!Same(o)
  <2> DEFINE a == order[o]
             b == order'[o]
  <2>1. CASE Became(b, a.status, a.rider, a.cancelledBy, a.payment, a.delivered)
    BY <2>1 DEF Became, Contract!Same, Contract!Becomes
  <2>2. CASE /\ a.status = "PENDING"
             /\ Became(b, "PREPARING", a.rider, a.cancelledBy, a.payment, a.delivered)
    BY <2>2 DEF Became, Contract!Step, Contract!Accept, Contract!Becomes
  <2>3. CASE /\ a.status = "PREPARING"
             /\ Became(b, "READY", a.rider, a.cancelledBy, a.payment, a.delivered)
    BY <2>3 DEF Became, Contract!Step, Contract!Ready, Contract!Becomes
  <2>4. CASE /\ a.status = "READY" /\ a.rider # None
             /\ Became(b, "PICKED_UP", a.rider, a.cancelledBy, a.payment, a.delivered)
    BY <2>4 DEF Became, Contract!Step, Contract!Collect, Contract!Becomes
  <2>5. CASE /\ a.status = "PICKED_UP"
             /\ Became(b, "DELIVERED", a.rider, a.cancelledBy,
                       IF o \in CashOrders THEN "PAID" ELSE a.payment, TRUE)
    BY <2>5 DEF Became, Contract!Step, Contract!Deliver, Contract!Becomes
  <2>6. CASE /\ a.status = "PENDING"
             /\ Became(b, "CANCELLED", a.rider, "CUSTOMER", a.payment, a.delivered)
    BY <1>0, <1>2, <1>3, <2>6 DEF Repaid
  <2>7. CASE /\ locked /\ a.status \in VendorCancellable
             /\ Became(b, "CANCELLED", a.rider, "VENDOR", Repaid(a.payment), a.delivered)
    BY <1>2, <1>3, <2>7
  <2>8. CASE /\ locked /\ a.status \in Assignable
             /\ Became(b, "CANCELLED", a.rider, "ADMIN", Repaid(a.payment), a.delivered)
    BY <1>2, <1>3, <2>8
  <2>9. CASE /\ a.status \in Assignable
             /\ \E r \in Riders : Became(b, a.status, r, a.cancelledBy, a.payment, a.delivered)
    BY <1>4, <2>9 DEF Became
  <2>10. CASE /\ a.payment = "PAID"
              /\ Became(b, a.status, a.rider, a.cancelledBy, "REFUNDED", a.delivered)
    BY <2>10 DEF Became, Contract!Step, Contract!Refund, Contract!Becomes
  <2> QED BY <1>5, <2>1, <2>2, <2>3, <2>4, <2>5, <2>6, <2>7, <2>8, <2>9, <2>10 DEF Served
<1>6. ASSUME NEW r \in Riders, ClaimedBy(o, r) PROVE Contract!Step(o)
  BY <1>0, <1>4, <1>6 DEF ClaimedBy, Offerable, Assignable, Row
<1>7. CASE Declined(o)
  BY <1>0, <1>2, <1>3, <1>7, DeclinedRow DEF Declined
<1> QED BY <1>1, <1>5, <1>6, <1>7, PromisedStep DEF Promised

\* Served one at a time, the sessions, the rows they read and the money agree.
LEMMA SerialInvariant ==
    ASSUME ~Overlapping
    PROVE  Spec => []SInv
<1>1. Init => SInv
  BY Initially, LifecycleAssumption
     DEF Init, SInv, OneRequest, Alone, Fresh, PaidLate, FreshRow
<1>2. SInv /\ [Next]_vars => SInv'
  BY Inductive, OneRequestStep, AloneStep, FreshStep, PaidLateStep, LifecycleAssumption
     DEF SInv, IInv
<1> QED BY <1>1, <1>2, PTL DEF Spec

\* Served one at a time on each order, the handlers keep the contract.
THEOREM ContractKept == ASSUME ~Overlapping PROVE Spec => KeepsContract
<1>1. Init => Contract!Init
  BY DEF Init, Contract!Init, FreshRow
<1>2. SInv /\ [Next]_vars => [Contract!Next]_Contract!contract
  <2> SUFFICES ASSUME SInv, [Next]_vars PROVE Contract!Next
    OBVIOUS
  <2> QED BY ContractStep DEF Contract!Next
<1> QED BY <1>1, <1>2, SerialInvariant, PTL DEF Spec, KeepsContract, Contract!Spec

(***************************************************************************)
(* What a request carries to its commit                                    *)
(***************************************************************************)
\* Beside the row, a request op carries the history row that tells its move, from
\* a status where the order is still open; only an assignment changes the rider
\* and only a delivery delivers.
Tells(op, a, b, event) ==
    /\ b.rider = a.rider \/ op \in {"assign", "dispatch"}
    /\ b.status = "DELIVERED" => a.status = "DELIVERED" \/ op \in {"deliver", "admin_deliver"}
    /\ event = None => b.status = a.status
    /\ event # None => /\ event.from = a.status /\ event.to = b.status
                       /\ a.status \in InFlightStatuses

\* Only a delivery counts for a rider, and it counts one more.
Carries(t) ==
    /\ t.op \in Requests
    /\ Tells(t.op, t.snap, t.new, t.event)
    /\ t.profile # None => /\ t.event # None /\ t.event.to = "DELIVERED"
                           /\ t.count = deliveries[t.profile] + 1

\* Every move of an order has its history row.
LEMMA MovedType ==
    ASSUME EventAssumption, NEW row \in Row, NEW to \in Statuses, NEW actor \in Actors
    PROVE  /\ Moved(row, to, actor) # None
           /\ Moved(row, to, actor).from = row.status /\ Moved(row, to, actor).to = to
BY DEF EventAssumption, Moved, Event, Row

\* What a request carries when it opens.
LEMMA CarriesSteps ==
    ASSUME TypeOK, EventAssumption, LifecycleAssumption, [Next]_vars,
           NEW s \in Sessions, txn'[s] # txn[s], txn'[s] # None
    PROVE  Carries(txn'[s])
<1>1. ASSUME NEW q \in Sessions, NEW x \in Orders, NEW op, NEW new, NEW event,
             Lock(q, x, op, new, event) \/ Read(q, x, op, new, event),
             Tells(op, order[x], new, event)
      PROVE  Carries(txn'[s])
  <2>1. PICK locked \in BOOLEAN : txn' = [txn EXCEPT ![q] = Request(x, op, locked, new, event)]
    BY <1>1 DEF Read, Lock
  <2> DEFINE t == Request(x, op, locked, new, event)
  <2>2. /\ t.op = op /\ t.snap = order[x] /\ t.new = new /\ t.event = event /\ t.profile = None
        /\ op \in Requests
    BY <1>1 DEF Request, Read, Lock, MayStart
  <2> HIDE DEF t
  <2>3. txn'[s] = t
    BY <2>1 DEF TypeOK, t
  <2> QED BY <1>1, <2>2, <2>3 DEF Carries
<1>2. ASSUME NEW q \in Sessions, NEW x \in Orders, NEW op, NEW actor \in Actors,
             op \in {"deliver", "admin_deliver"}, Complete(q, x, op, actor)
      PROVE  Carries(txn'[s])
  <2> DEFINE new == [order[x] EXCEPT !.status = "DELIVERED", !.delivered = TRUE,
                                     !.payment = IF x \in CashOrders THEN "PAID" ELSE @]
             event == Moved(order[x], "DELIVERED", actor)
             request == Request(x, op, FALSE, new, event)
             t == [request EXCEPT !.profile = order[x].rider,
                                  !.count = deliveries[order[x].rider] + 1]
  <2>1. txn' = [txn EXCEPT ![q] = t] /\ op \in Requests /\ order[x].status = "PICKED_UP"
    BY <1>2 DEF Complete, MayStart
  <2>2. /\ t.op = op /\ t.snap = order[x] /\ t.new = new /\ t.event = event
        /\ t.profile = order[x].rider /\ t.count = deliveries[order[x].rider] + 1
    BY DEF Request
  <2>3. order[x] \in Row
    BY DEF TypeOK
  <2>4. new.status = "DELIVERED" /\ new.rider = order[x].rider
    BY <2>3 DEF Row
  <2>5. event # None /\ event.from = order[x].status /\ event.to = "DELIVERED"
    BY <2>3, MovedType DEF Statuses
  <2> HIDE DEF t, new, event
  <2>6. txn'[s] = t
    BY <2>1 DEF TypeOK
  <2> QED BY <1>2, <2>1, <2>2, <2>4, <2>5, <2>6 DEF Carries, Tells, InFlightStatuses
<1>3. ASSUME NEW q \in Sessions, NEW x \in Orders,
             \/ CustomerCancel(q, x) \/ AcceptOrder(q, x) \/ RejectOrder(q, x)
             \/ MarkReady(q, x) \/ HandoffOrder(q, x) \/ HandoffMiss(q, x)
             \/ Deliver(q, x) \/ DeliverAsAdmin(q, x)
             \/ AdminCancel(q, x) \/ AdminRefund(q, x)
      PROVE  Carries(txn'[s])
  <2> DEFINE row == order[x]
  <2>0. row \in Row /\ row.status \in Statuses
    BY DEF TypeOK, Row
  <2>a. ASSUME NEW op, NEW new, NEW to \in Statuses \ {"DELIVERED"}, NEW actor \in Actors,
               new.rider = row.rider, new.status = to, row.status \in InFlightStatuses
        PROVE  Tells(op, row, new, Moved(row, to, actor))
    BY <2>0, <2>a, MovedType DEF Tells
  <2>b. ASSUME NEW op, NEW new, new.rider = row.rider, new.status = row.status
        PROVE  Tells(op, row, new, None)
    BY <2>b DEF Tells
  <2>c. ASSUME NEW a
        PROVE  Cancelled(row, a).rider = row.rider /\ Cancelled(row, a).status = "CANCELLED"
    BY <2>0, DeclinedRow DEF Became
  <2>d. /\ "CANCELLED" \in Statuses \ {"DELIVERED"} /\ "PREPARING" \in Statuses \ {"DELIVERED"}
        /\ "READY" \in Statuses \ {"DELIVERED"} /\ "PICKED_UP" \in Statuses \ {"DELIVERED"}
        /\ "CUSTOMER" \in Actors /\ "VENDOR" \in Actors /\ "RIDER" \in Actors /\ "ADMIN" \in Actors
    BY DEF Statuses, Actors
  <2>1. CASE CustomerCancel(q, x)
    <3> DEFINE new == [row EXCEPT !.status = "CANCELLED", !.cancelledBy = "CUSTOMER"]
    <3>1. row.status = "PENDING" /\ new.status = "CANCELLED" /\ new.rider = row.rider
      BY <2>0, <2>1 DEF CustomerCancel, Row
    <3> HIDE DEF new
    <3>2. Tells("customer_cancel", row, new, Moved(row, "CANCELLED", "CUSTOMER"))
      BY <2>a, <2>d, <3>1 DEF InFlightStatuses
    <3> QED BY <1>1, <2>1, <3>2 DEF CustomerCancel, new
  <2>2. CASE AcceptOrder(q, x)
    <3> DEFINE new == [row EXCEPT !.status = "PREPARING", !.autoDecline = FALSE]
    <3>1. row.status = "PENDING" /\ new.status = "PREPARING" /\ new.rider = row.rider
      BY <2>0, <2>2, TransitionsAre DEF AcceptOrder, Row
    <3> HIDE DEF new
    <3>2. Tells("accept", row, new, Moved(row, "PREPARING", "VENDOR"))
      BY <2>a, <2>d, <3>1 DEF InFlightStatuses
    <3> QED BY <1>1, <2>2, <3>2 DEF AcceptOrder, new
  <2>3. CASE RejectOrder(q, x)
    <3>1. Tells("reject", row, Cancelled(row, "VENDOR"), Moved(row, "CANCELLED", "VENDOR"))
      BY <2>3, <2>a, <2>c, <2>d DEF RejectOrder, VendorCancellable, InFlightStatuses
    <3> QED BY <1>1, <2>3, <3>1 DEF RejectOrder
  <2>4. CASE MarkReady(q, x)
    <3> DEFINE new == [row EXCEPT !.status = "READY", !.pin = issued[x] + 1, !.attempts = 0]
               event == IF row.status = "READY" THEN None ELSE Moved(row, "READY", "VENDOR")
    <3>1. row.status \in {"PREPARING", "READY"} /\ new.status = "READY" /\ new.rider = row.rider
      BY <2>0, <2>4, TransitionsAre DEF MarkReady, Row
    <3>2. Read(q, x, "ready", new, event)
      BY <2>4 DEF MarkReady
    <3> HIDE DEF new
    <3>3. Tells("ready", row, new, event)
      BY <2>a, <2>b, <2>d, <3>1 DEF InFlightStatuses
    <3> QED BY <1>1, <3>2, <3>3
  <2>5. CASE HandoffOrder(q, x)
    <3> DEFINE new == [row EXCEPT !.status = "PICKED_UP", !.pin = 0]
    <3>1. row.status = "READY" /\ new.status = "PICKED_UP" /\ new.rider = row.rider
      BY <2>0, <2>5 DEF HandoffOrder, MayHandOff, Row
    <3> HIDE DEF new
    <3>2. Tells("handoff", row, new, Moved(row, "PICKED_UP", "VENDOR"))
      BY <2>a, <2>d, <3>1 DEF InFlightStatuses
    <3> QED BY <1>1, <2>5, <3>2 DEF HandoffOrder, new
  <2>6. CASE HandoffMiss(q, x)
    <3> DEFINE new == [row EXCEPT !.attempts = @ + 1]
    <3>1. new.status = row.status /\ new.rider = row.rider
      BY <2>0 DEF Row
    <3> HIDE DEF new
    <3>2. Tells("miss", row, new, None)
      BY <2>b, <3>1
    <3> QED BY <1>1, <2>6, <3>2 DEF HandoffMiss, new
  <2>7. CASE Deliver(q, x) \/ DeliverAsAdmin(q, x)
    BY <1>2, <2>7, <2>d DEF Deliver, DeliverAsAdmin
  <2>8. CASE AdminCancel(q, x)
    <3>1. Tells("admin_cancel", row, Cancelled(row, "ADMIN"), Moved(row, "CANCELLED", "ADMIN"))
      BY <2>0, <2>8, <2>a, <2>c, <2>d, TransitionsAre DEF AdminCancel, Assignable, InFlightStatuses
    <3> QED BY <1>1, <2>8, <3>1 DEF AdminCancel
  <2>9. CASE AdminRefund(q, x)
    <3>1. Refunded(row).status = row.status /\ Refunded(row).rider = row.rider
      BY <2>0, <2>9 DEF AdminRefund, Refunded, Row
    <3>2. Tells("refund", row, Refunded(row), None)
      BY <2>b, <3>1
    <3> QED BY <1>1, <2>9, <3>2 DEF AdminRefund
  <2> QED BY <1>3, <2>1, <2>2, <2>3, <2>4, <2>5, <2>6, <2>7, <2>8, <2>9
<1>4. ASSUME NEW q \in Sessions, NEW x \in Orders, NEW r \in Riders,
             AssignRider(q, x, r) \/ DispatchRider(q, x, r)
      PROVE  Carries(txn'[s])
  <2> DEFINE new == [order[x] EXCEPT !.rider = r]
  <2>1. new.status = order[x].status
    BY DEF TypeOK, Row
  <2>2. PICK op \in {"assign", "dispatch"} : Read(q, x, op, new, None)
    BY <1>4 DEF AssignRider, DispatchRider, Assign
  <2> HIDE DEF new
  <2>3. Tells(op, order[x], new, None)
    BY <2>1, <2>2 DEF Tells
  <2> QED BY <1>1, <2>2, <2>3
<1>5. ASSUME NEW q \in Sessions, Commit(q) \/ Abort(q) PROVE FALSE
  BY <1>5 DEF Commit, Abort, TypeOK
<1>6. ASSUME \/ \E q \in Sessions : ClaimOffer(q)
             \/ \E q \in Sessions, x \in Orders, r \in Riders : AcceptOffer(q, x, r)
             \/ \E r \in Riders : SetShift(r)
             \/ \E x \in Orders : TimeoutPasses(x)
             \/ AutoDecline
             \/ UNCHANGED vars
      PROVE  FALSE
  BY <1>6 DEF ClaimOffer, AcceptOffer, SetShift, TimeoutPasses, AutoDecline, vars
<1> QED BY <1>3, <1>4, <1>5, <1>6 DEF Next

(***************************************************************************)
(* How much a rider carries                                                *)
(***************************************************************************)
\* What rider r has in flight.
Carried(r) == {o \in Orders : order[o].rider = r /\ order[o].status \in InFlightStatuses}

\* Two accepts never hold one rider's profile, and one that counted still has room.
RoomIsKept ==
    /\ \A s, q \in Sessions : claim[s] # None /\ claim[q] # None /\ s # q =>
          claim[s].rider # claim[q].rider
    /\ \A s \in Sessions : claim[s] # None => Cardinality(Carried(claim[s].rider)) < MaxJobs
    /\ \A r \in Riders : IsFiniteSet(Carried(r)) /\ Cardinality(Carried(r)) <= MaxJobs

\* No open request gives an order to a rider: only a claim does.
OnlyOffers == \A s \in Sessions : txn[s] # None => txn[s].new.rider = txn[s].snap.rider

\* Only an assignment gives its order to another rider than the one it read.
DeskNames == \A s \in Sessions : txn[s] # None =>
    txn[s].new.rider = txn[s].snap.rider \/ txn[s].op \in {"assign", "dispatch"}

\* A rider who has an order loses it only to the rider an operator or dispatch
\* names: the flush writes no column it did not set, and a claim matches an order
\* without a rider only.
THEOREM ReassignedByTheDesk == Spec => OnlyTheDeskReassigns
<1> DEFINE Desk(o) == order[o].rider # None /\ order'[o].rider # order[o].rider =>
        \E s \in Sessions :
            /\ txn[s] # None /\ txn[s].order = o /\ txn[s].op \in {"assign", "dispatch"}
            /\ order'[o].rider = txn[s].new.rider /\ txn'[s] = None
<1>1. Init => IInv /\ DeskNames
  BY Initially, LifecycleAssumption DEF Init, DeskNames
<1>2. IInv /\ DeskNames /\ [Next]_vars => IInv' /\ DeskNames'
  <2> SUFFICES ASSUME IInv, DeskNames, [Next]_vars PROVE IInv' /\ DeskNames'
    OBVIOUS
  <2>1. ASSUME NEW s \in Sessions, txn'[s] # None
        PROVE  txn'[s].new.rider = txn'[s].snap.rider \/ txn'[s].op \in {"assign", "dispatch"}
    <3>1. CASE txn'[s] = txn[s]
      BY <2>1, <3>1 DEF DeskNames
    <3>2. CASE txn'[s] # txn[s]
      BY <2>1, <3>2, CarriesSteps, EventAssumption, LifecycleAssumption DEF IInv, Carries, Tells
    <3> QED BY <3>1, <3>2
  <2> QED BY <2>1, Inductive, LifecycleAssumption DEF DeskNames
<1>3. IInv /\ DeskNames /\ [Next]_vars => [\A o \in Orders : Desk(o)]_vars
  <2> SUFFICES ASSUME IInv, DeskNames, [Next]_vars, NEW o \in Orders,
                      order[o].rider # None, order'[o].rider # order[o].rider
               PROVE  \E s \in Sessions :
                          /\ txn[s] # None /\ txn[s].order = o /\ txn[s].op \in {"assign", "dispatch"}
                          /\ order'[o].rider = txn[s].new.rider /\ txn'[s] = None
    OBVIOUS
  <2>1. ASSUME NEW q \in Sessions, Commit(q)
        PROVE  /\ txn[q] # None /\ txn[q].order = o /\ txn[q].op \in {"assign", "dispatch"}
               /\ order'[o].rider = txn[q].new.rider /\ txn'[q] = None
    <3>1. /\ txn[q] # None /\ txn'[q] = None
          /\ order' = [order EXCEPT ![txn[q].order] = Flushed(order[txn[q].order], txn[q])]
      BY <2>1 DEF Commit, IInv, TypeOK
    <3>2. txn[q].order = o /\ order'[o] = Flushed(order[o], txn[q])
      BY <3>1 DEF IInv, TypeOK
    <3>3. order'[o].rider = Column(order[o].rider, txn[q].snap.rider, txn[q].new.rider)
      BY <3>2 DEF Flushed
    <3> QED BY <3>1, <3>2, <3>3 DEF Column, DeskNames
  <2>2. ASSUME NEW q \in Sessions, ClaimOffer(q) PROVE order[o].rider = None
    <3> DEFINE c == claim[q]
    <3>1. order' = [order EXCEPT ![c.order].rider = c.rider] /\ order[c.order].rider = None
      BY <2>2 DEF ClaimOffer
    <3> HIDE DEF c
    <3> QED BY <3>1 DEF IInv, TypeOK
  <2>3. CASE AutoDecline
    <3>1. order'[o] = order[o] \/ order'[o] = Cancelled(order[o], "SYSTEM")
      BY <2>3 DEF AutoDecline
    <3>2. order[o] \in Row
      BY DEF IInv, TypeOK
    <3>3. Cancelled(order[o], "SYSTEM").rider = order[o].rider
      BY <3>2 DEF Cancelled, Refunded, Row
    <3> QED BY <3>1, <3>3
  <2> QED BY <2>1, <2>2, <2>3, OrderWriters
<1> QED BY <1>1, <1>2, <1>3, PTL DEF Spec, OnlyTheDeskReassigns

\* What is delivered stays delivered.
DeliveredStays == [][\A o \in Orders :
    order[o].status = "DELIVERED" => order'[o].status = "DELIVERED"]_vars

\* A new claim found its rider's profile free and the rider with room.
LEMMA ClaimOpens ==
    ASSUME TypeOK, [Next]_vars, NEW s \in Sessions, claim'[s] # claim[s], claim'[s] # None
    PROVE  /\ UNCHANGED order
           /\ Cardinality(Carried(claim'[s].rider)) < MaxJobs
           /\ \A q \in Sessions \ {s} : claim[q] # None => claim[q].rider # claim'[s].rider
<1>1. ASSUME NEW q \in Sessions, NEW x \in Orders,
             \/ CustomerCancel(q, x) \/ AcceptOrder(q, x) \/ RejectOrder(q, x)
             \/ MarkReady(q, x) \/ HandoffOrder(q, x) \/ HandoffMiss(q, x)
             \/ Deliver(q, x) \/ DeliverAsAdmin(q, x)
             \/ AdminCancel(q, x) \/ AdminRefund(q, x)
      PROVE  UNCHANGED claim
  BY <1>1 DEF CustomerCancel, AcceptOrder, RejectOrder, MarkReady, HandoffOrder, HandoffMiss,
              Deliver, DeliverAsAdmin, Complete, AdminCancel, AdminRefund, Read, Lock
<1>2. ASSUME NEW q \in Sessions, NEW x \in Orders, NEW r \in Riders,
             AssignRider(q, x, r) \/ DispatchRider(q, x, r)
      PROVE  UNCHANGED claim
  BY <1>2 DEF AssignRider, DispatchRider, Assign, Read
<1>3. ASSUME \/ \E q \in Sessions : Commit(q)
             \/ \E r \in Riders : SetShift(r)
             \/ \E x \in Orders : TimeoutPasses(x)
             \/ AutoDecline
             \/ UNCHANGED vars
      PROVE  UNCHANGED claim
  BY <1>3 DEF Commit, SetShift, TimeoutPasses, AutoDecline, vars
<1>4. ASSUME NEW q \in Sessions, ClaimOffer(q) \/ Abort(q) PROVE FALSE
  BY <1>4 DEF ClaimOffer, Abort, TypeOK
<1>5. ASSUME NEW q \in Sessions, NEW x \in Orders, NEW r \in Riders, AcceptOffer(q, x, r)
      PROVE  /\ UNCHANGED order
             /\ Cardinality(Carried(claim'[s].rider)) < MaxJobs
             /\ \A z \in Sessions \ {s} : claim[z] # None => claim[z].rider # claim'[s].rider
  <2>1. /\ claim' = [claim EXCEPT ![q] = [order |-> x, rider |-> r]]
        /\ ~ProfileLocked(r, q) /\ Cardinality(Carried(r)) < MaxJobs /\ UNCHANGED order
    BY <1>5 DEF AcceptOffer, InFlight, Carried, tables
  <2>2. q = s /\ claim'[s].rider = r
    BY <2>1 DEF TypeOK
  <2> QED BY <2>1, <2>2 DEF ProfileLocked
<1> QED BY <1>1, <1>2, <1>3, <1>4, <1>5 DEF Next

\* Where no order is assigned by hand, an order a rider carries after a step was
\* carried before it, or is the order of the claim that ended in this step.
LEMMA CarriedStep ==
    ASSUME IInv, IInv', OnlyOffers, [Next]_vars, NEW r \in Riders,
           \A o \in Orders : order[o].status = "DELIVERED" => order'[o].status = "DELIVERED"
    PROVE  \/ Carried(r)' \subseteq Carried(r)
           \/ \E s \in Sessions :
                 /\ claim[s] # None /\ claim[s].rider = r
                 /\ \A q \in Sessions : claim'[q] = IF q = s THEN None ELSE claim[q]
                 /\ Carried(r)' \subseteq Carried(r) \cup {claim[s].order}
<1>0. TypeOK /\ \A o \in Orders : order[o] \in Row /\ order'[o] \in Row
  BY DEF IInv, TypeOK
<1>1. ASSUME NEW o \in Orders, order'[o].rider = order[o].rider,
             order'[o].status \in InFlightStatuses
      PROVE  order[o].status \in InFlightStatuses
  <2>1. order[o].status # "DELIVERED"
    BY <1>1 DEF InFlightStatuses
  <2>2. order[o].cancelledBy # None => order'[o].cancelledBy # None
    BY RowOnlySets, LifecycleAssumption
  <2>3. order[o].status # "CANCELLED"
    BY <1>1, <2>2 DEF IInv, RowsPassChecks, Checks, InFlightStatuses
  <2> QED BY <1>0, <2>1, <2>3 DEF Row, Statuses, InFlightStatuses
<1>2. ASSUME \A o \in Orders : order'[o].rider = order[o].rider
      PROVE  Carried(r)' \subseteq Carried(r)
  BY <1>1, <1>2 DEF Carried
<1>3. ASSUME NEW s \in Sessions, Commit(s) PROVE Carried(r)' \subseteq Carried(r)
  <2> DEFINE t == txn[s]
  <2>1. t \in Txn /\ t # None /\ t.order \in Orders
        /\ order' = [order EXCEPT ![t.order] = Flushed(order[t.order], t)]
    BY <1>0, <1>3 DEF Commit, TypeOK, Txn
  <2>2. t.new.rider = t.snap.rider
    BY <2>1 DEF OnlyOffers
  <2> HIDE DEF t
  <2>3. Flushed(order[t.order], t).rider = order[t.order].rider
    BY <2>2 DEF Flushed, Column
  <2> QED BY <1>0, <1>2, <2>1, <2>3 DEF TypeOK
<1>4. ASSUME AutoDecline PROVE Carried(r)' \subseteq Carried(r)
  <2>1. \A o \in Orders : Cancelled(order[o], "SYSTEM").rider = order[o].rider
    BY <1>0, DeclinedRow DEF Became
  <2> QED BY <1>2, <1>4, <2>1 DEF AutoDecline
<1>5. ASSUME NEW s \in Sessions, ClaimOffer(s)
      PROVE  \/ Carried(r)' \subseteq Carried(r)
             \/ /\ claim[s] # None /\ claim[s].rider = r
                /\ \A q \in Sessions : claim'[q] = IF q = s THEN None ELSE claim[q]
                /\ Carried(r)' \subseteq Carried(r) \cup {claim[s].order}
  <2> DEFINE c == claim[s]
  <2>1. /\ c # None /\ c \in Claim /\ c.order \in Orders /\ c.rider \in Riders
        /\ order' = [order EXCEPT ![c.order].rider = c.rider]
        /\ claim' = [claim EXCEPT ![s] = None]
    BY <1>0, <1>5 DEF ClaimOffer, TypeOK, Claim
  <2>2. \A q \in Sessions : claim'[q] = IF q = s THEN None ELSE claim[q]
    BY <1>0, <2>1 DEF TypeOK
  <2> HIDE DEF c
  <2>3. \A o \in Orders \ {c.order} : order'[o] = order[o]
    BY <1>0, <2>1 DEF TypeOK
  <2>4. Carried(r)' \subseteq Carried(r) \cup {c.order}
    BY <2>3 DEF Carried
  <2>5. order'[c.order].rider = c.rider
    BY <1>0, <2>1 DEF TypeOK, Row
  <2>6. c.rider # r => Carried(r)' \subseteq Carried(r)
    BY <2>3, <2>5 DEF Carried
  <2> QED BY <2>1, <2>2, <2>4, <2>6 DEF c
<1>6. ASSUME UNCHANGED order PROVE Carried(r)' \subseteq Carried(r)
  BY <1>6 DEF Carried
<1> QED BY <1>3, <1>4, <1>5, <1>6, OrderWriters

\* A set that grows by at most one element holds at most one more.
LEMMA OneMore ==
    ASSUME NEW S, IsFiniteSet(S), NEW x, NEW T, T \subseteq S \cup {x}
    PROVE  IsFiniteSet(T) /\ Cardinality(T) <= Cardinality(S) + 1
<1>0. Cardinality(S) \in Nat
  BY FS_CardinalityType
<1>1. IsFiniteSet(S \cup {x}) /\ Cardinality(S \cup {x}) <= Cardinality(S) + 1
  <2>1. /\ IsFiniteSet(S \cup {x})
        /\ Cardinality(S \cup {x}) = IF x \in S THEN Cardinality(S) ELSE Cardinality(S) + 1
    BY FS_AddElement
  <2> QED BY <1>0, <2>1
<1>2. IsFiniteSet(T) /\ Cardinality(T) <= Cardinality(S \cup {x})
  BY <1>1, FS_Subset
<1>3. Cardinality(T) \in Nat /\ Cardinality(S \cup {x}) \in Nat
  BY <1>1, <1>2, FS_CardinalityType
<1> QED BY <1>0, <1>1, <1>2, <1>3

\* The profile lock keeps the count of `accept` true until its claim is written.
LEMMA RoomStep ==
    ASSUME IInv, IInv', OnlyOffers, RoomIsKept, LifecycleAssumption, [Next]_vars,
           \A o \in Orders : order[o].status = "DELIVERED" => order'[o].status = "DELIVERED"
    PROVE  RoomIsKept'
<1>0. TypeOK /\ MaxJobs \in Nat
  BY DEF IInv, LifecycleAssumption
<1>1. \A s, q \in Sessions : claim'[s] # None /\ claim'[q] # None /\ s # q =>
          claim'[s].rider # claim'[q].rider
  <2> SUFFICES ASSUME NEW s \in Sessions, NEW q \in Sessions,
                      claim'[s] # None, claim'[q] # None, s # q
               PROVE  claim'[s].rider # claim'[q].rider
    OBVIOUS
  <2>1. CASE claim'[s] = claim[s] /\ claim'[q] = claim[q]
    BY <2>1 DEF RoomIsKept
  <2>2. CASE claim'[s] # claim[s]
    BY <1>0, <2>2, ClaimOpens, OneActs
  <2>3. CASE claim'[q] # claim[q]
    BY <1>0, <2>3, ClaimOpens, OneActs
  <2> QED BY <2>1, <2>2, <2>3
<1>2. ASSUME NEW r \in Riders
      PROVE  /\ IsFiniteSet(Carried(r)') /\ Cardinality(Carried(r)') <= MaxJobs
             /\ \A s \in Sessions : claim'[s] # None /\ claim'[s].rider = r =>
                   Cardinality(Carried(r)') < MaxJobs
  <2> DEFINE C == Carried(r)
             D == Carried(r)'
  <2>1. IsFiniteSet(C) /\ Cardinality(C) \in Nat /\ Cardinality(C) <= MaxJobs
    BY FS_CardinalityType DEF RoomIsKept
  <2>2. \A s \in Sessions : claim[s] # None /\ claim[s].rider = r => Cardinality(C) < MaxJobs
    BY DEF RoomIsKept
  <2>3. \A s \in Sessions : claim'[s] # None /\ claim'[s].rider = r /\ claim'[s] # claim[s] =>
            D = C /\ Cardinality(C) < MaxJobs
    <3> SUFFICES ASSUME NEW s \in Sessions, claim'[s] # None, claim'[s].rider = r,
                        claim'[s] # claim[s]
                 PROVE  D = C /\ Cardinality(C) < MaxJobs
      OBVIOUS
    <3>1. UNCHANGED order /\ Cardinality(Carried(claim'[s].rider)) < MaxJobs
      BY <1>0, ClaimOpens
    <3> QED BY <3>1 DEF Carried
  <2>4. CASE D \subseteq C
    <3> HIDE DEF C, D
    <3>1. IsFiniteSet(D) /\ Cardinality(D) \in Nat /\ Cardinality(D) <= Cardinality(C)
      BY <2>1, <2>4, FS_Subset, FS_CardinalityType
    <3>2. Cardinality(D) <= MaxJobs
      BY <1>0, <2>1, <3>1
    <3>3. \A s \in Sessions : claim'[s] # None /\ claim'[s].rider = r => Cardinality(D) < MaxJobs
      BY <1>0, <2>1, <2>2, <2>3, <3>1
    <3> QED BY <3>1, <3>2, <3>3 DEF C, D
  <2>5. ASSUME NEW s \in Sessions, claim[s] # None, claim[s].rider = r,
               \A q \in Sessions : claim'[q] = IF q = s THEN None ELSE claim[q],
               D \subseteq C \cup {claim[s].order}
        PROVE  /\ IsFiniteSet(D) /\ Cardinality(D) <= MaxJobs
               /\ \A q \in Sessions : claim'[q] # None => claim'[q].rider # r
    <3>1. \A q \in Sessions : claim'[q] # None => claim'[q].rider # r
      BY <2>5 DEF RoomIsKept
    <3>2. Cardinality(C) < MaxJobs
      BY <2>2, <2>5
    <3> HIDE DEF C, D
    <3>3. IsFiniteSet(D) /\ Cardinality(D) <= Cardinality(C) + 1
      BY <2>1, <2>5, OneMore
    <3>4. Cardinality(D) \in Nat
      BY <3>3, FS_CardinalityType
    <3> QED BY <1>0, <2>1, <3>1, <3>2, <3>3, <3>4
  <2> QED BY <2>4, <2>5, CarriedStep
<1>3. \A s \in Sessions : claim'[s] # None => claim'[s].rider \in Riders
  BY DEF IInv, TypeOK, Claim
<1>4. RoomIsKept'
  BY <1>1, <1>2, <1>3 DEF RoomIsKept
<1> QED BY <1>4

\* While nobody assigns orders by hand and, which overlapping confirmations do not
\* grant (SerialDelivered and NothingToReturn say when), no stale write brings a
\* delivered order back, a rider's offers stay within MAX_CONCURRENT_JOBS.
LEMMA OffersWithinCap ==
    ASSUME Requests \cap {"assign", "dispatch"} = {}
    PROVE  Spec /\ DeliveredStays => []JobsWithinCap
<1> DEFINE KInv == IInv /\ OnlyOffers /\ RoomIsKept
           Kept == \A o \in Orders : order[o].status = "DELIVERED" => order'[o].status = "DELIVERED"
<1>1. Init => KInv
  <2> SUFFICES ASSUME Init PROVE KInv
    OBVIOUS
  <2>1. \A r \in Riders : Carried(r) = {}
    BY LifecycleAssumption DEF Init, FreshRow, Carried
  <2>2. RoomIsKept
    <3>1. \A s \in Sessions : claim[s] = None
      BY DEF Init
    <3>2. \A r \in Riders : IsFiniteSet(Carried(r)) /\ Cardinality(Carried(r)) <= MaxJobs
      BY <2>1, FS_EmptySet, LifecycleAssumption
    <3> QED BY <3>1, <3>2 DEF RoomIsKept
  <2> QED BY <2>2, Initially, LifecycleAssumption DEF Init, OnlyOffers
<1>2. KInv /\ [Next]_vars /\ [Kept]_vars => KInv'
  <2> SUFFICES ASSUME KInv, [Next]_vars, [Kept]_vars PROVE KInv'
    OBVIOUS
  <2>1. IInv' /\ TypeOK
    BY Inductive, LifecycleAssumption DEF IInv
  <2>2. OnlyOffers'
    <3> SUFFICES ASSUME NEW s \in Sessions, txn'[s] # None
                 PROVE  txn'[s].new.rider = txn'[s].snap.rider
      BY DEF OnlyOffers
    <3>1. CASE txn'[s] = txn[s]
      BY <3>1 DEF OnlyOffers
    <3>2. CASE txn'[s] # txn[s]
      BY <2>1, <3>2, CarriesSteps, EventAssumption, LifecycleAssumption DEF Carries, Tells
    <3> QED BY <3>1, <3>2
  <2>3. Kept
    BY DEF vars
  <2> QED BY <2>1, <2>2, <2>3, RoomStep, LifecycleAssumption
<1>3. KInv => JobsWithinCap
  BY DEF RoomIsKept, JobsWithinCap, InFlight, Carried
<1> QED BY <1>1, <1>2, <1>3, PTL DEF Spec, DeliveredStays

\* Served one at a time, no delivered order comes back.
LEMMA SerialDelivered ==
    ASSUME ~Overlapping
    PROVE  Spec => DeliveredStays
<1>1. SInv /\ [Next]_vars =>
        [\A o \in Orders : order[o].status = "DELIVERED" => order'[o].status = "DELIVERED"]_vars
  <2> SUFFICES ASSUME SInv, [Next]_vars, NEW o \in Orders, order[o].status = "DELIVERED"
               PROVE  order'[o].status = "DELIVERED"
    OBVIOUS
  <2>1. ASSUME NEW locked \in BOOLEAN, Served(o, order[o], order'[o], locked)
        PROVE  order'[o].status = "DELIVERED"
    BY <2>1 DEF Served, Became, Assignable, VendorCancellable
  <2> QED BY <2>1, PromisedStep DEF Promised, Untouched, ClaimedBy, Declined, Offerable
<1> QED BY <1>1, SerialInvariant, PTL DEF Spec, DeliveredStays

\* Where nobody confirms a delivery there is none to come back.
NoneDelivered ==
    /\ \A o \in Orders : order[o].status # "DELIVERED"
    /\ \A s \in Sessions : txn[s] # None => txn[s].new.status # "DELIVERED"

\* Without the two handlers that deliver, nothing is ever delivered.
LEMMA NothingToReturn ==
    ASSUME Requests \cap {"deliver", "admin_deliver"} = {}
    PROVE  Spec => DeliveredStays
<1>1. Init => IInv /\ NoneDelivered
  BY Initially, LifecycleAssumption DEF Init, FreshRow, NoneDelivered
<1>2. IInv /\ NoneDelivered /\ [Next]_vars => (IInv /\ NoneDelivered)'
  <2> SUFFICES ASSUME IInv, NoneDelivered, [Next]_vars PROVE NoneDelivered'
    BY Inductive, LifecycleAssumption
  <2>0. TypeOK
    BY DEF IInv
  <2>1. ASSUME NEW s \in Sessions, txn'[s] # None PROVE txn'[s].new.status # "DELIVERED"
    <3>1. CASE txn'[s] = txn[s]
      BY <2>1, <3>1 DEF NoneDelivered
    <3>2. CASE txn'[s] # txn[s]
      <4>1. Carries(txn'[s])
        BY <2>0, <2>1, <3>2, CarriesSteps, EventAssumption, LifecycleAssumption
      <4>2. PICK x \in Orders : txn'[s].snap = order[x]
        BY <2>0, <2>1, <3>2, TxnSteps DEF Opened
      <4> QED BY <4>1, <4>2 DEF Carries, Tells, NoneDelivered
    <3> QED BY <3>1, <3>2
  <2>2. ASSUME NEW o \in Orders PROVE order'[o].status # "DELIVERED"
    <3>0. order[o] \in Row
      BY <2>0 DEF TypeOK
    <3>1. ASSUME NEW s \in Sessions, FlushedBy(o, s) PROVE order'[o].status # "DELIVERED"
      BY <3>1 DEF FlushedBy, Flushed, Column, NoneDelivered
    <3>2. ASSUME NEW r \in Riders, ClaimedBy(o, r) PROVE order'[o].status # "DELIVERED"
      BY <3>0, <3>2 DEF ClaimedBy, Row, Offerable
    <3>3. CASE Declined(o)
      BY <3>0, <3>3, DeclinedRow DEF Declined, Became
    <3> QED BY <3>1, <3>2, <3>3, RowSteps DEF Untouched, NoneDelivered
  <2> QED BY <2>1, <2>2 DEF NoneDelivered
<1>3. NoneDelivered =>
        [\A o \in Orders : order[o].status = "DELIVERED" => order'[o].status = "DELIVERED"]_vars
  BY DEF NoneDelivered
<1> QED BY <1>1, <1>2, <1>3, PTL DEF Spec, DeliveredStays

\* Offers alone never load a rider beyond MAX_CONCURRENT_JOBS: served one at a time
\* on each order, or overlapping among the requests before a delivery.
THEOREM JobsCapped ==
    ASSUME Requests \cap {"assign", "dispatch"} = {},
           ~Overlapping \/ Requests \cap {"deliver", "admin_deliver"} = {}
    PROVE  Spec => []JobsWithinCap
<1>1. Spec => DeliveredStays
  BY SerialDelivered, NothingToReturn
<1>2. Spec /\ DeliveredStays => []JobsWithinCap
  BY OffersWithinCap
<1> QED BY <1>1, <1>2

(***************************************************************************)
(* What the history says                                                   *)
(***************************************************************************)
\* The rows that say DELIVERED in one order's history h.
RowsIn(h) == {i \in DOMAIN h : h[i].to = "DELIVERED"}

\* Adding a row to a history adds it to the delivered ones if it says so.
LEMMA RowsAppended ==
    ASSUME NEW h \in Seq(Event), NEW e \in Event
    PROVE  /\ RowsIn(Append(h, e)) = IF e.to = "DELIVERED" THEN RowsIn(h) \cup {Len(h) + 1}
                                     ELSE RowsIn(h)
           /\ Len(h) + 1 \notin RowsIn(h)
<1> DEFINE g == Append(h, e)
<1>1. /\ Len(h) \in Nat /\ DOMAIN h = 1..Len(h) /\ DOMAIN g = 1..(Len(h) + 1)
      /\ g[Len(h) + 1] = e /\ \A i \in 1..Len(h) : g[i] = h[i]
  OBVIOUS
<1> HIDE DEF g
<1>2. \A i : i \in 1..(Len(h) + 1) <=> i \in 1..Len(h) \/ i = Len(h) + 1
  BY <1>1
<1>3. Len(h) + 1 \notin 1..Len(h)
  BY <1>1
<1>4. RowsIn(g) = IF e.to = "DELIVERED" THEN RowsIn(h) \cup {Len(h) + 1} ELSE RowsIn(h)
  BY <1>1, <1>2, <1>3 DEF RowsIn
<1> QED BY <1>1, <1>3, <1>4 DEF RowsIn, g

\* Every delivery in the history of any order.
AllDelivered == UNION {{o} \X DeliveredRows(o) : o \in Orders}

\* Only a commit and the sweep write history rows, only a commit counts.
LEMMA HistoryWriters ==
    ASSUME [Next]_vars
    PROVE  \/ \E s \in Sessions : Commit(s)
           \/ AutoDecline
           \/ UNCHANGED <<history, deliveries>>
<1>1. ASSUME NEW s \in Sessions, NEW x \in Orders,
             \/ CustomerCancel(s, x) \/ AcceptOrder(s, x) \/ RejectOrder(s, x)
             \/ MarkReady(s, x) \/ HandoffOrder(s, x) \/ HandoffMiss(s, x)
             \/ Deliver(s, x) \/ DeliverAsAdmin(s, x)
             \/ AdminCancel(s, x) \/ AdminRefund(s, x)
      PROVE  UNCHANGED <<history, deliveries>>
  BY <1>1 DEF CustomerCancel, AcceptOrder, RejectOrder, MarkReady, HandoffOrder, HandoffMiss,
              Deliver, DeliverAsAdmin, Complete, AdminCancel, AdminRefund, Read, Lock, tables
<1>2. ASSUME NEW s \in Sessions, NEW x \in Orders, NEW r \in Riders,
             AssignRider(s, x, r) \/ DispatchRider(s, x, r) \/ AcceptOffer(s, x, r)
      PROVE  UNCHANGED <<history, deliveries>>
  BY <1>2 DEF AssignRider, DispatchRider, Assign, Read, AcceptOffer, tables
<1>3. ASSUME \/ \E s \in Sessions : ClaimOffer(s) \/ Abort(s)
             \/ \E r \in Riders : SetShift(r)
             \/ \E x \in Orders : TimeoutPasses(x)
             \/ UNCHANGED vars
      PROVE  UNCHANGED <<history, deliveries>>
  BY <1>3 DEF ClaimOffer, Abort, SetShift, TimeoutPasses, vars, tables
<1> QED BY <1>1, <1>2, <1>3 DEF Next

\* What an open request carries to its commit, whenever that comes.
Told == \A s \in Sessions : txn[s] # None =>
    LET t == txn[s]
    IN  /\ Tells(t.op, t.snap, t.new, t.event)
        /\ t.profile # None => t.event # None /\ t.event.to = "DELIVERED"

\* Counts are deliveries in the history, and a count to be written is at most one more.
Counted ==
    /\ IsFiniteSet(AllDelivered)
    /\ \A r \in Riders : deliveries[r] <= Cardinality(AllDelivered)
    /\ \A s \in Sessions : txn[s] # None /\ txn[s].profile # None =>
          txn[s].count <= Cardinality(AllDelivered) + 1

LEMMA ToldStep ==
    ASSUME TypeOK, EventAssumption, LifecycleAssumption, Told, [Next]_vars
    PROVE  Told'
<1> SUFFICES ASSUME NEW s \in Sessions, txn'[s] # None
             PROVE  /\ Tells(txn'[s].op, txn'[s].snap, txn'[s].new, txn'[s].event)
                    /\ txn'[s].profile # None =>
                          txn'[s].event # None /\ txn'[s].event.to = "DELIVERED"
  BY DEF Told, Tells
<1>1. CASE txn'[s] = txn[s]
  BY <1>1 DEF Told
<1>2. CASE txn'[s] # txn[s]
  BY <1>2, CarriesSteps DEF Carries
<1> QED BY <1>1, <1>2

\* How the delivered rows of the history grow.
LEMMA DeliveredGrow ==
    ASSUME TypeOK, EventAssumption, [Next]_vars
    PROVE  \/ \A o \in Orders : DeliveredRows(o)' = DeliveredRows(o)
           \/ \E s \in Sessions :
                 /\ Commit(s) /\ txn[s].event # None /\ txn[s].event.to = "DELIVERED"
                 /\ \A o \in Orders : DeliveredRows(o)' =
                       IF o = txn[s].order THEN DeliveredRows(o) \cup {Len(history[o]) + 1}
                                           ELSE DeliveredRows(o)
<1>0. \A o \in Orders : /\ history[o] \in Seq(Event) /\ DeliveredRows(o) = RowsIn(history[o])
                        /\ DeliveredRows(o)' = RowsIn(history'[o])
  BY DEF TypeOK, DeliveredRows, RowsIn
<1>1. ASSUME NEW s \in Sessions, Commit(s)
      PROVE  \/ \A o \in Orders : DeliveredRows(o)' = DeliveredRows(o)
             \/ /\ txn[s].event # None /\ txn[s].event.to = "DELIVERED"
                /\ \A o \in Orders : DeliveredRows(o)' =
                       IF o = txn[s].order THEN DeliveredRows(o) \cup {Len(history[o]) + 1}
                                           ELSE DeliveredRows(o)
  <2> DEFINE t == txn[s]
  <2>1. t \in Txn /\ t.order \in Orders /\ t.event \in Event \cup {None}
        /\ history' = IF t.event = None THEN history
                      ELSE [history EXCEPT ![t.order] = Append(@, t.event)]
    BY <1>1 DEF Commit, TypeOK, Txn
  <2> HIDE DEF t
  <2>2. CASE t.event = None
    BY <1>0, <2>1, <2>2
  <2>3. CASE t.event # None
    <3>1. \A o \in Orders : history'[o] = IF o = t.order THEN Append(history[o], t.event)
                                          ELSE history[o]
      BY <2>1, <2>3 DEF TypeOK
    <3>2. \A o \in Orders : RowsIn(Append(history[o], t.event)) =
              IF t.event.to = "DELIVERED" THEN RowsIn(history[o]) \cup {Len(history[o]) + 1}
              ELSE RowsIn(history[o])
      BY <1>0, <2>1, <2>3, RowsAppended
    <3>3. CASE t.event.to = "DELIVERED"
      BY <1>0, <2>3, <3>1, <3>2, <3>3 DEF t
    <3>4. CASE t.event.to # "DELIVERED"
      BY <1>0, <3>1, <3>2, <3>4
    <3> QED BY <3>3, <3>4
  <2> QED BY <2>2, <2>3
<1>2. ASSUME AutoDecline PROVE \A o \in Orders : DeliveredRows(o)' = DeliveredRows(o)
  <2> SUFFICES ASSUME NEW o \in Orders PROVE RowsIn(history'[o]) = RowsIn(history[o])
    BY <1>0
  <2> DEFINE e == Moved(order[o], "CANCELLED", "SYSTEM")
  <2>1. history'[o] = IF o \in Due THEN Append(history[o], e) ELSE history[o]
    BY <1>2 DEF AutoDecline
  <2>2. e \in Event /\ e.to = "CANCELLED"
    BY DEF TypeOK, Row, Moved, Event, Statuses, Actors
  <2> HIDE DEF e
  <2> QED BY <1>0, <2>1, <2>2, RowsAppended
<1>3. ASSUME UNCHANGED history PROVE \A o \in Orders : DeliveredRows(o)' = DeliveredRows(o)
  BY <1>0, <1>3
<1> QED BY <1>1, <1>2, <1>3, HistoryWriters

\* A delivery adds one element to all of them.
LEMMA AllGrow ==
    ASSUME TypeOK, EventAssumption, [Next]_vars, IsFiniteSet(AllDelivered)
    PROVE  \/ AllDelivered' = AllDelivered
           \/ \E s \in Sessions :
                 /\ Commit(s) /\ IsFiniteSet(AllDelivered')
                 /\ Cardinality(AllDelivered') = Cardinality(AllDelivered) + 1
<1>0. \A p : /\ p \in AllDelivered <=> \E o \in Orders : \E i \in DeliveredRows(o) : p = <<o, i>>
             /\ p \in AllDelivered' <=> \E o \in Orders : \E i \in DeliveredRows(o)' : p = <<o, i>>
  BY DEF AllDelivered
<1>1. CASE \A o \in Orders : DeliveredRows(o)' = DeliveredRows(o)
  BY <1>1 DEF AllDelivered
<1>2. ASSUME NEW s \in Sessions, Commit(s), txn[s].event # None, txn[s].event.to = "DELIVERED",
             \A o \in Orders : DeliveredRows(o)' =
                 IF o = txn[s].order THEN DeliveredRows(o) \cup {Len(history[o]) + 1}
                                     ELSE DeliveredRows(o)
      PROVE  IsFiniteSet(AllDelivered') /\ Cardinality(AllDelivered') = Cardinality(AllDelivered) + 1
  <2> DEFINE x == txn[s].order
             p == <<x, Len(history[x]) + 1>>
             A == AllDelivered
             B == AllDelivered'
  <2>1. x \in Orders /\ history[x] \in Seq(Event) /\ txn[s].event \in Event
    BY <1>2 DEF Commit, TypeOK, Txn
  <2>2. Len(history[x]) + 1 \notin DeliveredRows(x)
    BY <2>1, RowsAppended DEF DeliveredRows, RowsIn
  <2>3. p \notin A
    BY <1>0, <2>2
  <2>4. \A q : q \in B <=> q \in A \/ q = p
    BY <1>0, <1>2, <2>1
  <2> HIDE DEF A, B, p
  <2>5. B = A \cup {p}
    BY <2>4
  <2>6. IsFiniteSet(A)
    BY DEF A
  <2>7. IsFiniteSet(B) /\ Cardinality(B) = Cardinality(A) + 1
    BY <2>3, <2>5, <2>6, FS_AddElement
  <2> QED BY <2>7 DEF A, B
<1> QED BY <1>1, <1>2, DeliveredGrow

LEMMA CountedStep ==
    ASSUME TypeOK, TypeOK', EventAssumption, LifecycleAssumption, Told, Counted, [Next]_vars
    PROVE  Counted'
<1> DEFINE n == Cardinality(AllDelivered)
           m == Cardinality(AllDelivered')
<1>1. n \in Nat /\ m \in Nat /\ n <= m /\ IsFiniteSet(AllDelivered')
  <2>1. n \in Nat /\ IsFiniteSet(AllDelivered)
    BY FS_CardinalityType DEF Counted
  <2> QED BY <2>1, AllGrow
<1>2. \A r \in Riders : deliveries[r] \in Nat /\ deliveries[r] <= n
  BY DEF TypeOK, Counted
<1>3. \A s \in Sessions : txn[s] # None /\ txn[s].profile # None =>
          txn[s].count \in Nat /\ txn[s].count <= n + 1 /\ txn[s].profile \in Riders
  BY DEF TypeOK, Counted, Txn
<1>4. \A s \in Sessions : txn'[s] # None /\ txn'[s].profile # None => txn'[s].count <= m + 1
  <2> SUFFICES ASSUME NEW s \in Sessions, txn'[s] # None, txn'[s].profile # None
               PROVE  txn'[s].count <= m + 1
    OBVIOUS
  <2>1. CASE txn'[s] = txn[s]
    BY <1>1, <1>3, <2>1
  <2>2. CASE txn'[s] # txn[s]
    <3>1. txn'[s].count = deliveries[txn'[s].profile] + 1
      BY <2>2, CarriesSteps DEF Carries
    <3>2. txn'[s].profile \in Riders
      BY DEF TypeOK, Txn
    <3> QED BY <1>1, <1>2, <3>1, <3>2
  <2> QED BY <2>1, <2>2
<1>5. \A r \in Riders : deliveries'[r] <= m
  <2>1. ASSUME NEW s \in Sessions, Commit(s) PROVE \A r \in Riders : deliveries'[r] <= m
    <3> DEFINE t == txn[s]
    <3>1. t # None /\ deliveries' = IF t.profile = None THEN deliveries
                                    ELSE [deliveries EXCEPT ![t.profile] = t.count]
      BY <2>1 DEF Commit
    <3> HIDE DEF t
    <3>2. CASE t.profile = None
      BY <1>1, <1>2, <3>1, <3>2
    <3>3. CASE t.profile # None
      <4>1. t.count \in Nat /\ t.count <= n + 1 /\ t.event # None /\ t.event.to = "DELIVERED"
        BY <1>3, <3>1, <3>3 DEF Told, t
      <4>2. m = n + 1
        <5>1. PICK x \in Orders : x = t.order
          BY <3>1 DEF TypeOK, Txn, t
        <5>2. t.event \in Event /\ history[x] \in Seq(Event)
          BY <3>1, <4>1 DEF TypeOK, Txn, t
        <5>3. history'[x] = Append(history[x], t.event)
          BY <2>1, <4>1, <5>1 DEF Commit, TypeOK, t
        <5>4. RowsIn(history'[x]) # RowsIn(history[x])
          BY <4>1, <5>2, <5>3, RowsAppended
        <5>5. DeliveredRows(x)' # DeliveredRows(x)
          BY <5>4 DEF DeliveredRows, RowsIn
        <5>6. \A i : i \in DeliveredRows(x) <=> <<x, i>> \in AllDelivered
          BY DEF AllDelivered
        <5>7. \A i : i \in DeliveredRows(x)' <=> <<x, i>> \in AllDelivered'
          BY DEF AllDelivered
        <5>8. AllDelivered' # AllDelivered
          BY <5>5, <5>6, <5>7
        <5> QED BY <5>8, AllGrow DEF Counted
      <4> QED BY <1>1, <1>2, <3>1, <3>3, <4>1, <4>2 DEF TypeOK
    <3> QED BY <3>2, <3>3
  <2>2. ASSUME UNCHANGED deliveries PROVE \A r \in Riders : deliveries'[r] <= m
    BY <1>1, <1>2, <2>2
  <2> QED BY <2>1, <2>2, HistoryWriters DEF AutoDecline
<1> QED BY <1>1, <1>4, <1>5 DEF Counted

\* A rider's delivery count never counts what the history does not show, whatever
\* confirmations overlap: each writes one more than a count no larger than what
\* was delivered, together with the history row of its own delivery.
THEOREM CountsAreTrue == Spec => []DeliveriesNotOvercounted
<1> DEFINE CInv == IInv /\ Told /\ Counted
<1>1. Init => CInv
  <2> SUFFICES ASSUME Init PROVE Counted /\ Told
    BY Initially, LifecycleAssumption
  <2>1. AllDelivered = {}
    BY DEF Init, AllDelivered, DeliveredRows
  <2>2. IsFiniteSet(AllDelivered) /\ Cardinality(AllDelivered) = 0
    BY <2>1, FS_EmptySet
  <2> QED BY <2>2 DEF Init, Counted, Told
<1>2. CInv /\ [Next]_vars => CInv'
  <2> SUFFICES ASSUME CInv, [Next]_vars PROVE CInv'
    OBVIOUS
  <2>1. IInv' /\ TypeOK /\ TypeOK'
    BY Inductive, LifecycleAssumption DEF IInv
  <2> QED BY <2>1, ToldStep, CountedStep, EventAssumption, LifecycleAssumption
<1>3. CInv => DeliveriesNotOvercounted
  BY DEF Counted, DeliveriesNotOvercounted, AllDelivered
<1> QED BY <1>1, <1>2, <1>3, PTL DEF Spec

\* Each row of history h starts where the one before ended.
Chained(h) == \A i \in DOMAIN h : h[i].from = IF i = 1 THEN "PENDING" ELSE h[i - 1].to

\* The status history h leads to.
Standing(h) == IF h = <<>> THEN "PENDING" ELSE h[Len(h)].to

\* The history of order o tells its life, and says DELIVERED only if it is.
LifeTold(o) ==
    /\ Chained(history[o])
    /\ order[o].status = Standing(history[o])
    /\ order[o].status # "DELIVERED" => RowsIn(history[o]) = {}
    /\ RowsIn(history[o]) = {} \/ \E i : RowsIn(history[o]) = {i}

\* One more row of the life: from where it stood to another status.
LEMMA LifeGoesOn ==
    ASSUME NEW h \in Seq(Event), NEW e \in Event, Chained(h), e.from = Standing(h),
           RowsIn(h) = {}
    PROVE  /\ Chained(Append(h, e)) /\ Standing(Append(h, e)) = e.to
           /\ e.to # "DELIVERED" => RowsIn(Append(h, e)) = {}
           /\ RowsIn(Append(h, e)) = {} \/ \E i : RowsIn(Append(h, e)) = {i}
<1> DEFINE g == Append(h, e)
<1>a. Len(h) \in Nat /\ DOMAIN h = 1..Len(h) /\ (h = <<>> <=> Len(h) = 0)
  OBVIOUS
<1>b. /\ DOMAIN g = 1..(Len(h) + 1) /\ Len(g) = Len(h) + 1
      /\ g[Len(h) + 1] = e /\ \A i \in 1..Len(h) : g[i] = h[i]
  OBVIOUS
<1>c. g # <<>>
  <2>1. Len(g) # 0
    BY <1>a, <1>b
  <2>2. Len(<<>>) = 0
    OBVIOUS
  <2> HIDE DEF g
  <2> QED BY <2>1, <2>2
<1> HIDE DEF g
<1>1. /\ Len(h) \in Nat /\ DOMAIN h = 1..Len(h) /\ DOMAIN g = 1..(Len(h) + 1)
      /\ Len(g) = Len(h) + 1 /\ g # <<>> /\ (h = <<>> <=> Len(h) = 0)
      /\ g[Len(h) + 1] = e /\ \A i \in 1..Len(h) : g[i] = h[i]
  BY <1>a, <1>b, <1>c
<1>2. RowsIn(g) = IF e.to = "DELIVERED" THEN RowsIn(h) \cup {Len(h) + 1} ELSE RowsIn(h)
  BY RowsAppended DEF g
<1>3. ASSUME NEW i \in DOMAIN g PROVE g[i].from = IF i = 1 THEN "PENDING" ELSE g[i - 1].to
  <2>1. CASE i \in 1..Len(h)
    <3>1. g[i] = h[i] /\ (i # 1 => i - 1 \in 1..Len(h))
      BY <1>1, <2>1
    <3> QED BY <1>1, <2>1, <3>1 DEF Chained
  <2>2. CASE i = Len(h) + 1
    <3>1. g[i].from = Standing(h)
      BY <1>1, <2>2
    <3>2. i = 1 => Standing(h) = "PENDING"
      BY <1>1, <2>2 DEF Standing
    <3>3. i # 1 => i - 1 = Len(h) /\ Len(h) \in 1..Len(h) /\ Standing(h) = h[Len(h)].to
      BY <1>1, <2>2 DEF Standing
    <3> QED BY <1>1, <3>1, <3>2, <3>3
  <2> QED BY <1>1, <2>1, <2>2
<1>4. Chained(g) /\ Standing(g) = e.to
  BY <1>1, <1>3 DEF Chained, Standing
<1> QED BY <1>2, <1>4 DEF g

\* Served one at a time, each row of an order's history starts where the one before
\* ended, the last ends where the order is, and it is delivered at most once.
LEMMA LifeStep ==
    ASSUME SInv, Told, EventAssumption, [Next]_vars, NEW o \in Orders, LifeTold(o)
    PROVE  LifeTold(o)'
<1>0. TypeOK /\ order[o] \in Row /\ history[o] \in Seq(Event)
  BY DEF SInv, IInv, TypeOK
<1>1. ASSUME NEW e \in Event, e.from = order[o].status, order[o].status # "DELIVERED",
             history'[o] = Append(history[o], e), order'[o].status = e.to
      PROVE  LifeTold(o)'
  <2>1. Chained(history[o]) /\ e.from = Standing(history[o]) /\ RowsIn(history[o]) = {}
    BY <1>1 DEF LifeTold
  <2>2. /\ Chained(history'[o]) /\ Standing(history'[o]) = e.to
        /\ e.to # "DELIVERED" => RowsIn(history'[o]) = {}
        /\ RowsIn(history'[o]) = {} \/ \E i : RowsIn(history'[o]) = {i}
    BY <1>0, <1>1, <2>1, LifeGoesOn
  <2> QED BY <1>1, <2>2 DEF LifeTold
<1>2. ASSUME history'[o] = history[o], order'[o].status = order[o].status
      PROVE  LifeTold(o)'
  BY <1>2 DEF LifeTold
<1>3. ASSUME NEW s \in Sessions, Commit(s) PROVE LifeTold(o)'
  <2> DEFINE t == txn[s]
  <2>1. /\ t # None /\ t \in Txn /\ t.order \in Orders /\ t.event \in Event \cup {None}
        /\ order' = [order EXCEPT ![t.order] = Flushed(order[t.order], t)]
        /\ history' = IF t.event = None THEN history
                      ELSE [history EXCEPT ![t.order] = Append(@, t.event)]
    BY <1>0, <1>3 DEF Commit, TypeOK, Txn
  <2>2. t.snap = order[t.order] /\ Tells(t.op, t.snap, t.new, t.event)
    BY <2>1 DEF SInv, Fresh, Told
  <2> HIDE DEF t
  <2>3. CASE t.order # o
    BY <1>0, <1>2, <2>1, <2>3 DEF TypeOK
  <2>4. CASE t.order = o
    <3>1. order'[o] = t.new
      BY <1>0, <2>1, <2>2, <2>4, FlushedFresh DEF TypeOK
    <3>2. CASE t.event = None
      BY <1>2, <2>1, <2>2, <2>4, <3>1, <3>2 DEF Tells
    <3>3. CASE t.event # None
      <4>1. history'[o] = Append(history[o], t.event) /\ t.event \in Event
        BY <1>0, <2>1, <2>4, <3>3 DEF TypeOK
      <4>2. /\ t.event.from = order[o].status /\ t.event.to = t.new.status
            /\ order[o].status # "DELIVERED"
        BY <2>2, <2>4, <3>3 DEF Tells, InFlightStatuses
      <4> QED BY <1>1, <3>1, <4>1, <4>2
    <3> QED BY <3>2, <3>3
  <2> QED BY <2>3, <2>4
<1>4. CASE AutoDecline
  <2>1. CASE o \notin Due
    BY <1>2, <1>4, <2>1 DEF AutoDecline
  <2>2. CASE o \in Due
    <3> DEFINE e == Moved(order[o], "CANCELLED", "SYSTEM")
    <3>1. e \in Event /\ e.from = order[o].status /\ e.to = "CANCELLED"
      BY <1>0 DEF Row, Moved, Event, Statuses, Actors
    <3>2. history'[o] = Append(history[o], e) /\ order'[o] = Cancelled(order[o], "SYSTEM")
          /\ order[o].status = "PENDING"
      BY <1>4, <2>2 DEF AutoDecline, Due
    <3>3. order'[o].status = "CANCELLED"
      BY <1>0, <3>2, DeclinedRow DEF Became
    <3> HIDE DEF e
    <3> QED BY <1>1, <3>1, <3>2, <3>3
  <2> QED BY <2>1, <2>2
<1>5. ASSUME NEW s \in Sessions, ClaimOffer(s) PROVE LifeTold(o)'
  <2> DEFINE c == claim[s]
  <2>1. c.order \in Orders /\ order' = [order EXCEPT ![c.order].rider = c.rider]
        /\ UNCHANGED history
    BY <1>0, <1>5 DEF ClaimOffer, TypeOK, Claim
  <2> HIDE DEF c
  <2>2. order'[o].status = order[o].status
    BY <1>0, <2>1 DEF TypeOK, Row
  <2> QED BY <1>2, <2>1, <2>2
<1>6. ASSUME UNCHANGED order, UNCHANGED history PROVE LifeTold(o)'
  BY <1>2, <1>6
<1>7. UNCHANGED history \/ (\E s \in Sessions : Commit(s)) \/ AutoDecline
  BY HistoryWriters
<1> QED BY <1>3, <1>4, <1>5, <1>6, <1>7, OrderWriters

\* With one request at a time on an order, its history tells its life.
THEOREM HistoryTold == ASSUME ~Overlapping PROVE Spec => []HistoryIsTrue
<1> DEFINE Life == \A o \in Orders : LifeTold(o)
<1>1. Init => Told /\ Life
  BY DEF Init, Told, LifeTold, Chained, Standing, RowsIn, FreshRow
<1>2. SInv /\ Told /\ Life /\ [Next]_vars => (Told /\ Life)'
  BY ToldStep, LifeStep, EventAssumption, LifecycleAssumption DEF SInv, IInv
<1>3. Life => TimelineIsItsLife
  <2> SUFFICES ASSUME Life, NEW o \in Orders PROVE Cardinality(DeliveredRows(o)) <= 1
    BY DEF TimelineIsItsLife, LifeTold, Chained, Standing
  <2>1. DeliveredRows(o) = {} \/ \E i : DeliveredRows(o) = {i}
    BY DEF LifeTold, RowsIn, DeliveredRows
  <2>2. CASE DeliveredRows(o) = {}
    BY <2>2, FS_EmptySet
  <2>3. ASSUME NEW i, DeliveredRows(o) = {i} PROVE Cardinality(DeliveredRows(o)) = 1
    BY <2>3, FS_Singleton
  <2> QED BY <2>1, <2>2, <2>3
<1> QED BY <1>1, <1>2, <1>3, SerialInvariant, CountsAreTrue, PTL DEF Spec, HistoryIsTrue

(***************************************************************************)
(* What the screens show                                                   *)
(***************************************************************************)
\* Where there is food waiting, or about to be, there is a code.
Coded == /\ \A o \in Orders : order[o].status = "READY" => order[o].pin # 0
         /\ \A s \in Sessions : txn[s] # None /\ txn[s].new.status = "READY" => txn[s].new.pin # 0

\* A request that leaves an order READY leaves it a code.
LEMMA CodeSteps ==
    ASSUME TypeOK, Coded, LifecycleAssumption, [Next]_vars,
           NEW s \in Sessions, txn'[s] # txn[s], txn'[s] # None, txn'[s].new.status = "READY"
    PROVE  txn'[s].new.pin # 0
<1>1. ASSUME NEW q \in Sessions, NEW x \in Orders, NEW op, NEW new, NEW event,
             Lock(q, x, op, new, event) \/ Read(q, x, op, new, event),
             new.pin # 0 \/ new.status # "READY"
      PROVE  txn'[s].new.pin # 0
  <2>1. PICK locked \in BOOLEAN : txn' = [txn EXCEPT ![q] = Request(x, op, locked, new, event)]
    BY <1>1 DEF Read, Lock
  <2> DEFINE t == Request(x, op, locked, new, event)
  <2>2. t.new = new
    BY DEF Request
  <2> HIDE DEF t
  <2>3. txn'[s] = t
    BY <2>1 DEF TypeOK, t
  <2> QED BY <1>1, <2>2, <2>3
<1>2. ASSUME NEW q \in Sessions, NEW x \in Orders, NEW op, NEW actor, Complete(q, x, op, actor)
      PROVE  FALSE
  <2> DEFINE new == [order[x] EXCEPT !.status = "DELIVERED", !.delivered = TRUE,
                                     !.payment = IF x \in CashOrders THEN "PAID" ELSE @]
             request == Request(x, op, FALSE, new, Moved(order[x], "DELIVERED", actor))
             t == [request EXCEPT !.profile = order[x].rider,
                                  !.count = deliveries[order[x].rider] + 1]
  <2>1. txn' = [txn EXCEPT ![q] = t]
    BY <1>2 DEF Complete
  <2>2. t.new = new
    BY DEF Request
  <2>3. new.status = "DELIVERED"
    BY DEF TypeOK, Row
  <2> HIDE DEF t, new
  <2>4. txn'[s] = t
    BY <2>1 DEF TypeOK
  <2> QED BY <2>2, <2>3, <2>4
<1>3. ASSUME NEW q \in Sessions, NEW x \in Orders,
             \/ CustomerCancel(q, x) \/ AcceptOrder(q, x) \/ RejectOrder(q, x)
             \/ MarkReady(q, x) \/ HandoffOrder(q, x) \/ HandoffMiss(q, x)
             \/ Deliver(q, x) \/ DeliverAsAdmin(q, x)
             \/ AdminCancel(q, x) \/ AdminRefund(q, x)
      PROVE  txn'[s].new.pin # 0
  <2> DEFINE row == order[x]
  <2>0. row \in Row /\ (row.pin # 0 \/ row.status # "READY") /\ issued[x] \in Nat
    BY DEF TypeOK, Coded
  <2>1. CASE CustomerCancel(q, x)
    <3>1. [row EXCEPT !.status = "CANCELLED", !.cancelledBy = "CUSTOMER"].status # "READY"
      BY <2>0 DEF Row
    <3> QED BY <1>1, <2>1, <3>1 DEF CustomerCancel
  <2>2. CASE AcceptOrder(q, x)
    <3>1. [row EXCEPT !.status = "PREPARING", !.autoDecline = FALSE].status # "READY"
      BY <2>0 DEF Row
    <3> QED BY <1>1, <2>2, <3>1 DEF AcceptOrder
  <2>3. \A a : Cancelled(row, a).status # "READY"
    BY <2>0, DeclinedRow DEF Became
  <2>4. CASE RejectOrder(q, x)
    BY <1>1, <2>3, <2>4 DEF RejectOrder
  <2>5. CASE MarkReady(q, x)
    <3> DEFINE new == [row EXCEPT !.status = "READY", !.pin = issued[x] + 1, !.attempts = 0]
               event == IF row.status = "READY" THEN None ELSE Moved(row, "READY", "VENDOR")
    <3>1. new.pin # 0
      BY <2>0 DEF Row
    <3>2. Read(q, x, "ready", new, event)
      BY <2>5 DEF MarkReady
    <3> HIDE DEF new, event
    <3> QED BY <1>1, <3>1, <3>2
  <2>6. CASE HandoffOrder(q, x)
    <3>1. [row EXCEPT !.status = "PICKED_UP", !.pin = 0].status # "READY"
      BY <2>0 DEF Row
    <3> QED BY <1>1, <2>6, <3>1 DEF HandoffOrder
  <2>7. CASE HandoffMiss(q, x)
    <3> DEFINE new == [row EXCEPT !.attempts = @ + 1]
    <3>1. new.pin = row.pin /\ new.status = row.status
      BY <2>0 DEF Row
    <3> HIDE DEF new
    <3> QED BY <1>1, <2>0, <2>7, <3>1 DEF HandoffMiss, new
  <2>8. CASE Deliver(q, x) \/ DeliverAsAdmin(q, x)
    BY <1>2, <2>8 DEF Deliver, DeliverAsAdmin
  <2>9. CASE AdminCancel(q, x)
    BY <1>1, <2>3, <2>9 DEF AdminCancel
  <2>10. CASE AdminRefund(q, x)
    <3>1. Refunded(row).pin = row.pin /\ Refunded(row).status = row.status
      BY <2>0, <2>10 DEF AdminRefund, Refunded, Row
    <3> QED BY <1>1, <2>0, <2>10, <3>1 DEF AdminRefund
  <2> QED BY <1>3, <2>1, <2>2, <2>4, <2>5, <2>6, <2>7, <2>8, <2>9, <2>10
<1>4. ASSUME NEW q \in Sessions, NEW x \in Orders, NEW r \in Riders,
             AssignRider(q, x, r) \/ DispatchRider(q, x, r)
      PROVE  txn'[s].new.pin # 0
  <2> DEFINE new == [order[x] EXCEPT !.rider = r]
  <2>1. new.status = order[x].status /\ new.pin = order[x].pin
    BY DEF TypeOK, Row
  <2>2. PICK op \in {"assign", "dispatch"} : Read(q, x, op, new, None)
    BY <1>4 DEF AssignRider, DispatchRider, Assign
  <2> HIDE DEF new
  <2> QED BY <1>1, <2>1, <2>2 DEF Coded
<1>5. ASSUME NEW q \in Sessions, Commit(q) \/ Abort(q) PROVE FALSE
  BY <1>5 DEF Commit, Abort, TypeOK
<1>6. ASSUME \/ \E q \in Sessions : ClaimOffer(q)
             \/ \E q \in Sessions, x \in Orders, r \in Riders : AcceptOffer(q, x, r)
             \/ \E r \in Riders : SetShift(r)
             \/ \E x \in Orders : TimeoutPasses(x)
             \/ AutoDecline
             \/ UNCHANGED vars
      PROVE  FALSE
  BY <1>6 DEF ClaimOffer, AcceptOffer, SetShift, TimeoutPasses, AutoDecline, vars
<1> QED BY <1>3, <1>4, <1>5, <1>6 DEF Next

\* Served one at a time, food that waits always has its code.
LEMMA CodedStep ==
    ASSUME SInv, Coded, LifecycleAssumption, [Next]_vars
    PROVE  Coded'
<1>0. TypeOK /\ IInv
  BY DEF SInv, IInv
<1>1. ASSUME NEW s \in Sessions, txn'[s] # None, txn'[s].new.status = "READY"
      PROVE  txn'[s].new.pin # 0
  BY <1>0, <1>1, CodeSteps DEF Coded
<1>2. ASSUME NEW o \in Orders, order'[o].status = "READY" PROVE order'[o].pin # 0
  <2>0. order[o] \in Row
    BY <1>0 DEF TypeOK
  <2>1. ASSUME NEW s \in Sessions, FlushedBy(o, s) PROVE order'[o].pin # 0
    <3>1. txn[s] \in Txn /\ order'[o] = Flushed(txn[s].snap, txn[s])
      BY <1>0, <2>1 DEF SInv, Fresh, FlushedBy, TypeOK
    <3>2. order'[o] = txn[s].new
      BY <3>1, FlushedFresh
    <3> QED BY <1>2, <2>1, <3>2 DEF FlushedBy, Coded
  <2>2. ASSUME NEW r \in Riders, ClaimedBy(o, r) PROVE order'[o].pin # 0
    BY <1>2, <2>0, <2>2 DEF ClaimedBy, Row, Coded
  <2>3. CASE Declined(o)
    BY <1>2, <2>0, <2>3, DeclinedRow DEF Declined, Became
  <2> QED BY <1>0, <1>2, <2>1, <2>2, <2>3, RowSteps DEF Untouched, Coded
<1> QED BY <1>1, <1>2 DEF Coded

\* Every status but CANCELLED is under one chip of the kitchen's screen.
LEMMA OneChip ==
    ASSUME NEW o \in Orders, order[o].status \in Statuses
    PROVE  Cardinality({t \in ChipTabs : o \in Filtered({t})}) =
               IF order[o].status = "CANCELLED" THEN 0 ELSE 1
<1> DEFINE st == order[o].status
           chips == {t \in ChipTabs : o \in Filtered({t})}
<1>1. \A t : o \in Filtered({t}) <=> st \in parse_status_filter({t})
  BY DEF Filtered
<1>2. /\ parse_status_filter({"NEW"}) = {"PENDING"}
      /\ parse_status_filter({"PREPARING"}) = {"PREPARING", "READY"}
      /\ parse_status_filter({"COMPLETE"}) = {"PICKED_UP", "DELIVERED"}
  BY DEF parse_status_filter, QueueTabs
<1>3. \/ st = "CANCELLED" /\ chips = {}
      \/ st = "PENDING" /\ chips = {"NEW"}
      \/ st \in {"PREPARING", "READY"} /\ chips = {"PREPARING"}
      \/ st \in {"PICKED_UP", "DELIVERED"} /\ chips = {"COMPLETE"}
  BY <1>1, <1>2 DEF ChipTabs, Statuses
<1> HIDE DEF chips
<1> QED BY <1>3, FS_EmptySet, FS_Singleton DEF chips

\* Served one at a time, between requests the screens of the kitchen, the customer,
\* the riders and the console say the same of an order.
THEOREM ScreensTrue == ASSUME ~Overlapping PROVE Spec => []ScreensMatch
<1> DEFINE Life == \A o \in Orders : LifeTold(o)
<1>1. Init => Told /\ Life /\ Coded
  BY DEF Init, Told, LifeTold, Chained, Standing, RowsIn, FreshRow, Coded
<1>2. SInv /\ Told /\ Life /\ Coded /\ [Next]_vars => (Told /\ Life /\ Coded)'
  BY ToldStep, LifeStep, CodedStep, EventAssumption, LifecycleAssumption DEF SInv, IInv
<1>3. SInv /\ Life /\ Coded => ScreensMatch
  <2> SUFFICES ASSUME SInv, Life, Coded, NEW o \in Orders, Quiet(o)
               PROVE  /\ Cardinality({t \in ChipTabs : o \in Filtered({t})}) =
                             IF _to_row(o).cancelled THEN 0 ELSE 1
                      /\ \A r \in Riders : _load_job(r, o) =>
                            /\ (o \in list_jobs(r, "ACTIVE")) = (o \in list_orders("ACTIVE"))
                            /\ (o \in list_jobs(r, "COMPLETE")) = (o \in list_orders("DELIVERED"))
                            /\ o \in list_jobs(r, "ACTIVE") =>
                                  job_detail(o).collect = (o \in CashOrders)
                      /\ (o \in AwaitingRider) = (order[o].rider = None /\ order[o].status \in Offerable)
                      /\ order[o].status = "READY" =>
                            get_order_detail(o).code # 0 /\ get_order_detail(o).issued
                      /\ get_order_detail(o).code = job_detail(o).code
                      /\ LET dots == order_detail(o).timeline
                         IN  dots # <<>> => dots[Len(dots)] = get_order_detail(o).summary.status
                      /\ (get_order_detail(o).summary.countdown = 0) <=> o \in Due
    BY DEF ScreensMatch
  <2>0. /\ order[o] \in Row /\ order[o].status \in Statuses /\ Checks(order[o])
        /\ order[o].status # "DELIVERED" => order[o].payment = "PENDING"
    BY DEF SInv, IInv, TypeOK, Row, RowsPassChecks, PaidLate
  <2>1. Cardinality({t \in ChipTabs : o \in Filtered({t})}) = IF _to_row(o).cancelled THEN 0 ELSE 1
    BY <2>0, OneChip DEF _to_row, Checks
  <2>2. ASSUME NEW r \in Riders, _load_job(r, o)
        PROVE  /\ (o \in list_jobs(r, "ACTIVE")) = (o \in list_orders("ACTIVE"))
               /\ (o \in list_jobs(r, "COMPLETE")) = (o \in list_orders("DELIVERED"))
               /\ o \in list_jobs(r, "ACTIVE") => job_detail(o).collect = (o \in CashOrders)
    <3>1. JobTabs["ACTIVE"] = {"PENDING", "PREPARING", "READY", "PICKED_UP"}
          /\ JobTabs["COMPLETE"] = {"DELIVERED"}
      BY DEF JobTabs
    <3>2. (o \in list_jobs(r, "ACTIVE")) = (o \in list_orders("ACTIVE"))
      BY <2>2, <3>1 DEF list_jobs, list_orders
    <3>3. (o \in list_jobs(r, "COMPLETE")) = (o \in list_orders("DELIVERED"))
      BY <2>2, <3>1 DEF list_jobs, list_orders
    <3>4. o \in list_jobs(r, "ACTIVE") => order[o].payment # "PAID"
      BY <2>0, <3>1 DEF list_jobs
    <3> QED BY <3>2, <3>3, <3>4 DEF job_detail, _collect_on_delivery
  <2>3. (o \in AwaitingRider) = (order[o].rider = None /\ order[o].status \in Offerable)
    BY DEF AwaitingRider, Offerable
  <2>4. order[o].status = "READY" => get_order_detail(o).code # 0 /\ get_order_detail(o).issued
    BY DEF Coded, get_order_detail, to_detail, ShownCode
  <2>5. get_order_detail(o).code = job_detail(o).code
    BY DEF get_order_detail, to_detail, job_detail
  <2>6. LET dots == order_detail(o).timeline
        IN  dots # <<>> => dots[Len(dots)] = get_order_detail(o).summary.status
    <3> DEFINE h == history[o]
               dots == _timeline(o)
    <3>1. h \in Seq(Event) /\ order[o].status = Standing(h)
      BY DEF SInv, IInv, TypeOK, LifeTold
    <3>2. /\ Len(h) \in Nat /\ DOMAIN h = 1..Len(h) /\ (Len(h) = 0 <=> h = <<>>)
      BY <3>1
    <3>3. dots = [i \in 1..Len(h) |-> h[i].to] /\ Len(dots) = Len(h)
      BY <3>2 DEF _timeline
    <3>4. dots # <<>> => dots[Len(dots)] = order[o].status
      <4> HIDE DEF h, dots
      <4>1. CASE Len(h) = 0
        BY <3>3, <4>1
      <4>2. CASE Len(h) # 0
        BY <3>1, <3>2, <3>3, <4>2 DEF Standing
      <4> QED BY <4>1, <4>2
    <3>5. order_detail(o).timeline = dots /\ get_order_detail(o).summary.status = order[o].status
      BY DEF order_detail, get_order_detail, to_detail, to_summary
    <3> QED BY <3>4, <3>5
  <2>7. (get_order_detail(o).summary.countdown = 0) <=> o \in Due
    <3>1. get_order_detail(o).summary.countdown = _seconds_to_auto_decline(o)
      BY DEF get_order_detail, to_detail, to_summary
    <3>2. (_seconds_to_auto_decline(o) = 0) <=>
              order[o].status = "PENDING" /\ order[o].autoDecline /\ o \in late
      BY LifecycleAssumption DEF _seconds_to_auto_decline
    <3> QED BY <3>1, <3>2 DEF Due, Quiet, SInv, IInv, TypeOK
  <2> QED BY <2>1, <2>2, <2>3, <2>4, <2>5, <2>6, <2>7
<1> QED BY <1>1, <1>2, <1>3, SerialInvariant, PTL DEF Spec
=============================================================================
