------------------------------ MODULE Placement ------------------------------
(***************************************************************************)
(* POST /orders: a customer's cart becomes an order, at most once for each *)
(* Idempotency-Key (endpoints/orders.create_order, services/idempotency,   *)
(* customer/orders.place_order, customer/promos.validate, cart.clear).     *)
(*                                                                         *)
(* A request is one transaction at READ COMMITTED.  It claims its key with *)
(* INSERT ... ON CONFLICT DO NOTHING, which waits while another open       *)
(* transaction holds a row with that key; it reads the cart and the promo  *)
(* without locks; everything it writes appears at its commit.              *)
(***************************************************************************)
EXTENDS Integers, FiniteSets, Sequences

CONSTANTS
    Users,
    Keys, Owner,     \* the keys clients make up, and the customer who made each
    Lines, Eater,    \* bound: the cart lines ever added, and who adds each
    Fickle,          \* bound: the lines whose dish may sell out
    Sessions,        \* database sessions that may be open at the same time
    Keyless,         \* do some clients leave the optional header out?
    UsageLimit, PerUserLimit, BudgetCap,  \* the promo's; each use costs 1
    MaxExpiries,     \* bound: 24-hour expiries of one key
    None

\* A row of idempotency_keys: what request_hash tells apart (with or without
\* the promo code), and the order in the stored response.
KeyRow == [promo : BOOLEAN, order : Nat, expired : BOOLEAN]

ASSUME PlacementAssumption ==
    /\ Owner \in [Keys -> Users]
    /\ Eater \in [Lines -> Users]
    /\ Fickle \subseteq Lines
    /\ Keyless \in BOOLEAN
    /\ {UsageLimit, PerUserLimit, BudgetCap, MaxExpiries} \subseteq Nat
    /\ None \notin Keys /\ None \notin KeyRow

Order == [user : Users, key : Keys \cup {None}, lines : SUBSET Lines, promo : BOOLEAN]

Stages == {"begin", "conflict", "expired", "claimed", "priced"}

\* holds: the request has inserted or updated its key's row.  sawExpired: the
\* row it conflicts with had run out when the request came.  seen: the hash it
\* read there.  rival: the same request was already being processed.
Submission == [user : Users, key : Keys \cup {None}, promo : BOOLEAN, stage : Stages,
               holds : BOOLEAN, sawExpired : BOOLEAN, seen : BOOLEAN, rival : BOOLEAN,
               lines : SUBSET Lines, used : Nat]

VARIABLES
    rows,       \* idempotency_keys, as committed
    cart,       \* each customer's cart lines
    added,      \* the lines added so far
    soldOut,    \* the lines whose dish or option the vendor has turned off
    orders,     \* the orders placed, oldest first
    timesUsed,  \* promo_codes.times_used
    expiries,
    sub,        \* the open request of each session
    answers     \* <<key, order>>: the 201s that reached a client

vars == <<rows, cart, added, soldOut, orders, timesUsed, expiries, sub, answers>>

Init ==
    /\ rows = [k \in Keys |-> None]
    /\ cart = [u \in Users |-> {}]
    /\ added = {} /\ soldOut = {}
    /\ orders = <<>>
    /\ timesUsed = 0
    /\ expiries = [k \in Keys |-> 0]
    /\ sub = [s \in Sessions |-> None]
    /\ answers = {}

At(s, stage) == sub[s] # None /\ sub[s].stage = stage

\* An open transaction other than s has written the row of k.
Held(k, s) == \E x \in Sessions \ {s} : sub[x] # None /\ sub[x].key = k /\ sub[x].holds

Step(s, t) ==
    /\ sub' = [sub EXCEPT ![s] = t]
    /\ UNCHANGED <<rows, cart, added, soldOut, orders, timesUsed, expiries, answers>>

\* The request ends and get_db rolls back whatever it had written.
End(s) == Step(s, None)

(***************************************************************************)
(* idempotency.begin                                                       *)
(***************************************************************************)
Submit(s, u, k, promo) ==
    /\ sub[s] = None
    /\ IF k = None THEN Keyless ELSE Owner[k] = u
    /\ Step(s, [user |-> u, key |-> k, promo |-> promo,
                stage |-> IF k = None THEN "claimed" ELSE "begin",
                holds |-> FALSE,
                sawExpired |-> k # None /\ rows[k] # None /\ rows[k].expired,
                seen |-> FALSE,
                rival |-> k # None /\ Held(k, s) /\
                          \E x \in Sessions : sub[x] # None /\ sub[x].key = k
                                                /\ sub[x].promo = promo,
                lines |-> {}, used |-> 0])

\* Mutant of Claim: the key is looked up first and written with the response.
ClaimLater(s) ==
    /\ At(s, "begin")
    /\ rows[sub[s].key] = None
    /\ Step(s, [sub[s] EXCEPT !.stage = "claimed"])

\* The INSERT goes in: this is the first attempt.
Claim(s) ==
    /\ At(s, "begin")
    /\ rows[sub[s].key] = None /\ ~Held(sub[s].key, s)
    /\ Step(s, [sub[s] EXCEPT !.stage = "claimed", !.holds = TRUE])

\* The INSERT finds a committed row and does nothing.
Conflict(s) ==
    /\ At(s, "begin")
    /\ rows[sub[s].key] # None /\ ~Held(sub[s].key, s)
    /\ Step(s, [sub[s] EXCEPT !.stage = "conflict"])

\* The row went away before the SELECT (the daily clean-up): no protection.
LookMissing(s) ==
    /\ At(s, "conflict")
    /\ rows[sub[s].key] = None
    /\ Step(s, [sub[s] EXCEPT !.stage = "claimed"])

Stale(s) == sub[s].sawExpired /\ rows[sub[s].key].expired

LookExpired(s) ==
    /\ At(s, "conflict")
    /\ rows[sub[s].key] # None
    /\ Stale(s)
    /\ Step(s, [sub[s] EXCEPT !.stage = "expired", !.seen = rows[sub[s].key].promo])

\* Mutant of SameRequest: the hash is not compared.
AnyRequest(row, t) == TRUE

SameRequest(row, t) == row.promo = t.promo

\* 409: another body under this key, or a row that has no response yet.
Refuse(s) ==
    /\ At(s, "conflict")
    /\ rows[sub[s].key] # None
    /\ ~Stale(s)
    /\ \/ ~SameRequest(rows[sub[s].key], sub[s])
       \/ rows[sub[s].key].order = 0
    /\ End(s)

Replay(s) ==
    LET row == rows[sub[s].key] IN
    /\ At(s, "conflict")
    /\ row # None
    /\ ~Stale(s)
    /\ SameRequest(row, sub[s])
    /\ row.order # 0
    /\ sub' = [sub EXCEPT ![s] = None]
    /\ answers' = answers \cup {<<sub[s].key, row.order>>}
    /\ UNCHANGED <<rows, cart, added, soldOut, orders, timesUsed, expiries>>

\* The expired row is taken over.  The UPDATE waits for whoever else is taking
\* it over, and fails when the clean-up has deleted the row.
Reclaim(s) ==
    /\ At(s, "expired")
    /\ ~Held(sub[s].key, s)
    /\ IF rows[sub[s].key] = None THEN End(s)
       ELSE Step(s, [sub[s] EXCEPT !.stage = "claimed", !.holds = TRUE])

(***************************************************************************)
(* place_order and idempotency.complete                                    *)
(***************************************************************************)
Redeemed == {i \in DOMAIN orders : orders[i].promo}

\* promos.validate: the counter, this customer's redemptions, the spend.
Redeemable(u) ==
    /\ timesUsed < UsageLimit
    /\ Cardinality({i \in Redeemed : orders[i].user = u}) < PerUserLimit
    /\ Cardinality(Redeemed) + 1 <= BudgetCap

\* The cart and the promo are read, without locks; no order can follow from an
\* empty cart or a code that is refused.
Price(s) ==
    LET t == sub[s] IN
    /\ At(s, "claimed")
    /\ IF cart[t.user] = {} \/ (t.promo /\ ~Redeemable(t.user)) THEN End(s)
       ELSE Step(s, [t EXCEPT !.stage = "priced", !.lines = cart[t.user],
                              !.used = timesUsed])

\* The row complete() leaves for key k: the request's own claim with its
\* response, or, for a request that went on without a claim, its response in
\* whatever row the key has by now.
Answered(s, n) ==
    LET t == sub[s]
        row == rows[t.key]
    IN  CASE ~t.holds -> [row EXCEPT !.order = n]
          [] t.holds /\ row # None /\ t.promo = t.seen ->
                [row EXCEPT !.order = n, !.expired = FALSE]
          [] OTHER -> [promo |-> t.promo, order |-> n, expired |-> FALSE]

\* Mutant of CartAfter: the cart is left for the app to empty.
CartKept(u) == cart

\* cart.clear: whatever the cart holds by now.
CartAfter(u) == [cart EXCEPT ![u] = {}]

\* The counter becomes the value read, plus one.
Counted(t) == IF t.promo THEN t.used + 1 ELSE timesUsed

\* Mutant of MayAnswer: complete() has a session of its own, which waits for the
\* claim of its request as for any other.
MayAnswerApart(s) == sub[s].key # None =>
    \A x \in Sessions : sub[x] # None /\ sub[x].key = sub[s].key => ~sub[x].holds

\* complete() writes the response into the key's row.
MayAnswer(s) == sub[s].key # None => ~Held(sub[s].key, s)

\* Order, redemption, counter, cart and key are committed together; the response
\* may be lost on the way.
Place(s, delivered) ==
    LET t == sub[s]
        n == Len(orders) + 1
    IN  /\ At(s, "priced")
        /\ MayAnswer(s)
        /\ orders' = Append(orders, [user |-> t.user, key |-> t.key,
                                     lines |-> t.lines, promo |-> t.promo])
        /\ timesUsed' = Counted(t)
        /\ cart' = CartAfter(t.user)
        /\ rows' = IF t.key # None /\ (t.holds \/ rows[t.key] # None)
                   THEN [rows EXCEPT ![t.key] = Answered(s, n)] ELSE rows
        /\ answers' = IF delivered THEN answers \cup {<<t.key, n>>} ELSE answers
        /\ sub' = [sub EXCEPT ![s] = None]
        /\ UNCHANGED <<added, soldOut, expiries>>

\* Mutant of Abort: the claim was committed on its own before the work began.
AbortKeepsClaim(s) ==
    /\ sub[s] # None
    /\ sub' = [sub EXCEPT ![s] = None]
    /\ rows' = IF sub[s].holds
               THEN [rows EXCEPT ![sub[s].key] =
                        [promo |-> sub[s].promo, order |-> 0, expired |-> FALSE]]
               ELSE rows
    /\ UNCHANGED <<cart, added, soldOut, orders, timesUsed, expiries, answers>>

Abort(s) == sub[s] # None /\ End(s)

(***************************************************************************)
(* Meanwhile                                                               *)
(***************************************************************************)
AddLine(l) ==
    /\ l \notin added
    /\ added' = added \cup {l}
    /\ cart' = [cart EXCEPT ![Eater[l]] = @ \cup {l}]
    /\ UNCHANGED <<rows, soldOut, orders, timesUsed, expiries, sub, answers>>

RemoveLine(l) ==
    /\ l \in cart[Eater[l]]
    /\ cart' = [cart EXCEPT ![Eater[l]] = @ \ {l}]
    /\ UNCHANGED <<rows, added, soldOut, orders, timesUsed, expiries, sub, answers>>

\* The vendor's sold-out toggle.
SetItemStatus(l) ==
    /\ l \in Fickle
    /\ soldOut' = IF l \in soldOut THEN soldOut \ {l} ELSE soldOut \cup {l}
    /\ UNCHANGED <<rows, cart, added, orders, timesUsed, expiries, sub, answers>>

\* A day passes since the key was claimed.
Expire(k) ==
    /\ rows[k] # None /\ ~rows[k].expired
    /\ expiries[k] < MaxExpiries
    /\ rows' = [rows EXCEPT ![k].expired = TRUE]
    /\ expiries' = [expiries EXCEPT ![k] = @ + 1]
    /\ UNCHANGED <<cart, added, soldOut, orders, timesUsed, sub, answers>>

Expired == {k \in Keys : rows[k] # None /\ rows[k].expired}

\* The worker's nightly DELETE; it waits for a row that is being taken over.
ExpireIdempotencyKeys ==
    /\ Expired # {}
    /\ \A k \in Expired, s \in Sessions :
           ~(sub[s] # None /\ sub[s].key = k /\ sub[s].holds)
    /\ rows' = [k \in Keys |-> IF k \in Expired THEN None ELSE rows[k]]
    /\ UNCHANGED <<cart, added, soldOut, orders, timesUsed, expiries, sub, answers>>

\* What moves a request on by itself.
Serve(s) ==
    \/ Claim(s) \/ Conflict(s)
    \/ LookMissing(s) \/ LookExpired(s) \/ Refuse(s) \/ Replay(s)
    \/ Reclaim(s)
    \/ Price(s)
    \/ \E delivered \in BOOLEAN : Place(s, delivered)

Next ==
    \/ \E s \in Sessions :
          \/ \E u \in Users, k \in Keys \cup {None}, promo \in BOOLEAN :
                Submit(s, u, k, promo)
          \/ Serve(s)
          \/ Abort(s)
    \/ \E l \in Lines : AddLine(l) \/ RemoveLine(l) \/ SetItemStatus(l)
    \/ \E k \in Keys : Expire(k)
    \/ ExpireIdempotencyKeys

Spec == Init /\ [][Next]_vars

\* The server works on every request it has accepted until it is answered, and
\* PostgreSQL queues those that wait for a row: none is passed over for ever.
FairSpec == Spec /\ \A s \in Sessions : SF_vars(Serve(s))

(***************************************************************************)
(* Properties                                                              *)
(***************************************************************************)
\* Every variable holds a value of its kind.
TypeOK ==
    /\ rows \in [Keys -> KeyRow \cup {None}]
    /\ cart \in [Users -> SUBSET Lines]
    /\ added \subseteq Lines /\ soldOut \subseteq Lines
    /\ orders \in Seq(Order)
    /\ timesUsed \in Nat
    /\ expiries \in [Keys -> Nat]
    /\ sub \in [Sessions -> Submission \cup {None}]
    /\ answers \subseteq (Keys \cup {None}) \X Nat

\* However often a request is sent again within the day, before, during or
\* after the first, whichever of them crash and whichever responses are lost,
\* its key places one order (the guarantee of services/idempotency.py); and no crash
\* leaves a key claimed without a response, which would lock the retries out for a day.
OneOrderPerKey ==
    /\ \A i, j \in DOMAIN orders :
          LET k == orders[i].key IN
          k # None /\ k = orders[j].key /\ expiries[k] = 0 => i = j
    /\ \A k \in Keys : rows[k] # None => rows[k].order # 0

\* Within the day, a 201 names an order that was placed under that key by that
\* customer with that very body, never another request's.
AnswersAreTrue == [][\A s \in Sessions : \A a \in answers' \ answers :
    sub[s] # None /\ sub'[s] = None /\ (a[1] # None => expiries[a[1]] = 0) =>
        /\ a[2] \in DOMAIN orders'
        /\ orders'[a[2]].key = sub[s].key
        /\ orders'[a[2]].user = sub[s].user
        /\ orders'[a[2]].promo = sub[s].promo]_vars

\* What was ordered is gone from the cart the moment the order exists, so no
\* later request can order it again (endpoints/orders.create_order).
OrderedLeavesTheCart == \A i \in DOMAIN orders :
    cart[orders[i].user] \cap orders[i].lines = {}

\* Requests that wait for each other's key all get their answer.
RequestsEnd == \A s \in Sessions : (sub[s] # None) ~> (sub[s] = None)

(***************************************************************************)
(* What the comments and docs say, and overlapping requests break          *)
(***************************************************************************)
\* endpoints/orders.py: the cart goes with the order, or "the customer [could]
\* place it twice".
CartOrderedOnce == \A i, j \in DOMAIN orders :
    i # j => orders[i].lines \cap orders[j].lines = {}

\* models/promo.py: a promo is refused once its budget is spent.
PromoWithinBudget == Cardinality(Redeemed) <= BudgetCap

\* models/promo.py: the redemption rows make per_user_limit truthful.
PromoWithinUserLimit == \A u \in Users :
    Cardinality({i \in Redeemed : orders[i].user = u}) <= PerUserLimit

\* services/idempotency.py: a double-submit while the first is still in flight
\* is answered with 409, not with the first one's order.
DoubleSubmitRefused == [][\A s \in Sessions : sub[s] # None /\ sub[s].rival => ~Replay(s)]_vars

\* docs/VENDOR-API.md: an option that is turned off "stops being orderable".
SoldOutNotOrdered == [][\A s \in Sessions :
    At(s, "claimed") /\ sub'[s] # None /\ sub'[s].stage = "priced" =>
        sub'[s].lines \cap soldOut = {}]_vars
=============================================================================
