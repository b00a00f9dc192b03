--------------------------- MODULE PlacementProofs ---------------------------
(***************************************************************************)
(* What holds of placing orders for every number of customers, keys, lines *)
(* and sessions: one order for a key while it is protected, no key left    *)
(* claimed, true answers, and ordered lines that leave the cart.           *)
(***************************************************************************)
EXTENDS Placement, TLAPS

(***************************************************************************)
(* The inductive invariant                                                 *)
(***************************************************************************)
\* An open request by itself: begin works on a key, which is its customer's own.
Sound(t) ==
    /\ t.stage \in {"begin", "conflict", "expired"} \/ t.holds => t.key # None
    /\ t.key # None => Owner[t.key] = t.user

\* An open request under key k, while k is protected: it has not seen the key run
\* out, found its row or wrote it, and whoever wrote it finds no other.
Protects(t, k) ==
    /\ ~t.sawExpired
    /\ t.stage # "expired"
    /\ t.stage = "conflict" => rows[k] # None
    /\ t.stage \in {"claimed", "priced"} => t.holds
    /\ t.holds => rows[k] = None

\* Two open requests never hold the row of one key.
OneHolder == \A s, x \in Sessions :
    s # x /\ sub[s] # None /\ sub[x] # None /\ sub[s].holds /\ sub[x].holds =>
        sub[s].key # sub[x].key

Requests == \A s \in Sessions : sub[s] # None =>
    /\ Sound(sub[s])
    /\ \A k \in Keys : sub[s].key = k /\ expiries[k] = 0 => Protects(sub[s], k)

\* The order the row of a protected key names, and no other, is under that key.
Truthful(k) ==
    /\ rows[k] # None =>
          /\ ~rows[k].expired
          /\ rows[k].order \in DOMAIN orders
          /\ orders[rows[k].order].key = k
          /\ orders[rows[k].order].user = Owner[k]
          /\ orders[rows[k].order].promo = rows[k].promo
    /\ rows[k] = None => \A i \in DOMAIN orders : orders[i].key # k
    /\ \A i, j \in DOMAIN orders : orders[i].key = k /\ orders[j].key = k => i = j

Rows ==
    /\ \A k \in Keys : rows[k] # None => rows[k].order # 0
    /\ \A k \in Keys : expiries[k] = 0 => Truthful(k)

IInv == TypeOK /\ OneHolder /\ Requests /\ Rows

\* A key's row and the response in it.
LEMMA AnsweredType ==
    ASSUME TypeOK, NEW s \in Sessions, sub[s] # None, sub[s].key # None,
           sub[s].holds \/ rows[sub[s].key] # None, NEW n \in Nat \ {0}
    PROVE  /\ Answered(s, n) \in KeyRow
           /\ Answered(s, n).order = n
           /\ sub[s].holds /\ rows[sub[s].key] = None =>
                 Answered(s, n) = [promo |-> sub[s].promo, order |-> n, expired |-> FALSE]
           /\ ~sub[s].holds => Answered(s, n) = [rows[sub[s].key] EXCEPT !.order = n]
<1> DEFINE t == sub[s]
           row == rows[t.key]
<1>0. t \in Submission /\ t.key \in Keys /\ row \in KeyRow \cup {None}
  BY DEF TypeOK, Submission
<1>1. CASE ~t.holds
  BY <1>0, <1>1 DEF Answered, KeyRow
<1>2. CASE t.holds /\ row # None /\ t.promo = t.seen
  BY <1>0, <1>2 DEF Answered, KeyRow
<1>3. CASE t.holds /\ ~(row # None /\ t.promo = t.seen)
  BY <1>0, <1>3 DEF Answered, KeyRow, Submission
<1> QED BY <1>1, <1>2, <1>3

(***************************************************************************)
(* Steps that only move a request on                                       *)
(***************************************************************************)
Fit(s, t) ==
    /\ t \in Submission
    /\ Sound(t)
    /\ \A k \in Keys : t.key = k /\ expiries[k] = 0 => Protects(t, k)
    /\ t.holds => sub[s] # None /\ sub[s].key = t.key /\ (sub[s].holds \/ ~Held(t.key, s))

\* A move of one request within its transaction keeps the invariant, when the
\* request it leaves is sound, protects its key and shares no claim.
LEMMA StepKeeps ==
    ASSUME IInv, NEW s \in Sessions, NEW t, Step(s, t), t = None \/ Fit(s, t)
    PROVE  IInv'
<1>1. TypeOK'
  BY DEF IInv, TypeOK, Step, Fit
<1>2. OneHolder'
  <2> SUFFICES ASSUME NEW x \in Sessions, NEW y \in Sessions, x # y, sub'[x] # None,
                      sub'[y] # None, sub'[x].holds, sub'[y].holds
               PROVE  sub'[x].key # sub'[y].key
    BY DEF OneHolder
  <2>1. ASSUME NEW z \in Sessions, z # s, sub[z] # None, sub[z].holds, t # None, t.holds
        PROVE  sub[z].key # t.key
    BY <2>1 DEF Fit, Held, IInv, OneHolder
  <2>2. CASE x = s
    BY <2>1, <2>2 DEF Step, IInv, TypeOK
  <2>3. CASE y = s
    BY <2>1, <2>3 DEF Step, IInv, TypeOK
  <2>4. CASE x # s /\ y # s
    BY <2>4 DEF Step, IInv, TypeOK, OneHolder
  <2> QED BY <2>2, <2>3, <2>4
<1>3. Requests'
  <2> SUFFICES ASSUME NEW x \in Sessions, sub'[x] # None
               PROVE  /\ Sound(sub'[x])
                      /\ \A k \in Keys : sub'[x].key = k /\ expiries[k] = 0 => Protects(sub'[x], k)
    BY DEF Requests, Step, Protects
  <2>1. CASE x = s
    BY <2>1 DEF Step, IInv, TypeOK, Fit
  <2>2. CASE x # s
    BY <2>2 DEF Step, IInv, TypeOK, Requests
  <2> QED BY <2>1, <2>2
<1>4. Rows'
  BY DEF IInv, Rows, Truthful, Step
<1> QED BY <1>1, <1>2, <1>3, <1>4 DEF IInv

\* A new request holds nothing, so it disturbs nobody's claim.
LEMMA SubmitStep ==
    ASSUME IInv, PlacementAssumption, NEW s \in Sessions, NEW u \in Users,
           NEW k \in Keys \cup {None}, NEW promo \in BOOLEAN, Submit(s, u, k, promo)
    PROVE  IInv'
<1> DEFINE saw == k # None /\ rows[k] # None /\ rows[k].expired
           rival == k # None /\ Held(k, s) /\
                          \E x \in Sessions : sub[x] # None /\ sub[x].key = k
                                                /\ sub[x].promo = promo
           t == [user |-> u, key |-> k, promo |-> promo,
                 stage |-> IF k = None THEN "claimed" ELSE "begin",
                 holds |-> FALSE, sawExpired |-> saw, seen |-> FALSE, rival |-> rival,
                 lines |-> {}, used |-> 0]
<1>1. Step(s, t)
  BY DEF Submit
<1>2. t \in Submission
  <2>1. saw \in BOOLEAN /\ rival \in BOOLEAN
    BY DEF IInv, TypeOK, KeyRow
  <2> HIDE DEF saw, rival
  <2> QED BY <2>1 DEF Submission, Stages
<1>3. Sound(t)
  BY DEF Submit, Sound
<1>4. ASSUME NEW q \in Keys, t.key = q, expiries[q] = 0 PROVE Protects(t, q)
  BY <1>4 DEF IInv, Rows, Truthful, Protects, PlacementAssumption
<1> QED BY <1>1, <1>2, <1>3, <1>4, StepKeeps DEF Fit

\* idempotency.begin and the reads of place_order, branch by branch.
LEMMA BeginStep ==
    ASSUME IInv, NEW s \in Sessions,
           \/ Claim(s) \/ Conflict(s) \/ LookMissing(s) \/ LookExpired(s)
           \/ Refuse(s) \/ Reclaim(s) \/ Price(s) \/ Abort(s)
    PROVE  IInv'
<1>1. sub[s] \in Submission /\ sub[s] # None /\ Sound(sub[s])
      /\ \A k \in Keys : sub[s].key = k /\ expiries[k] = 0 => Protects(sub[s], k)
  <2>1. sub[s] # None
    BY DEF Claim, Conflict, LookMissing, LookExpired, Refuse, Reclaim, Price, Abort, At
  <2> QED BY <2>1 DEF IInv, TypeOK, Requests
<1> DEFINE t == sub[s]
<1>2. CASE Claim(s)
  <2>1. Fit(s, [t EXCEPT !.stage = "claimed", !.holds = TRUE])
    BY <1>1, <1>2 DEF Claim, At, Fit, Submission, Stages, Sound, Protects
  <2> QED BY <1>2, <2>1, StepKeeps DEF Claim
<1>3. CASE Conflict(s)
  <2>1. Fit(s, [t EXCEPT !.stage = "conflict"])
    BY <1>1, <1>3 DEF Conflict, At, Fit, Submission, Stages, Sound, Protects
  <2> QED BY <1>3, <2>1, StepKeeps DEF Conflict
<1>4. CASE LookMissing(s)
  <2>1. Fit(s, [t EXCEPT !.stage = "claimed"])
    BY <1>1, <1>4 DEF LookMissing, At, Fit, Submission, Stages, Sound, Protects
  <2> QED BY <1>4, <2>1, StepKeeps DEF LookMissing
<1>5. CASE LookExpired(s)
  <2>1. t.key \in Keys /\ rows[t.key] \in KeyRow
    BY <1>1, <1>5 DEF LookExpired, At, Sound, Submission, IInv, TypeOK
  <2>2. Fit(s, [t EXCEPT !.stage = "expired", !.seen = rows[t.key].promo])
    BY <1>1, <1>5, <2>1 DEF LookExpired, At, Fit, Stale, Submission, Stages, Sound, Protects, KeyRow
  <2> QED BY <1>5, <2>2, StepKeeps DEF LookExpired
<1>6. CASE Refuse(s)
  BY <1>6, StepKeeps DEF Refuse, End
<1>7. CASE Reclaim(s)
  <2>1. Fit(s, [t EXCEPT !.stage = "claimed", !.holds = TRUE])
    BY <1>1, <1>7 DEF Reclaim, At, Fit, Submission, Stages, Sound, Protects
  <2> QED BY <1>7, <2>1, StepKeeps DEF Reclaim, End
<1>8. CASE Price(s)
  <2>1. cart[t.user] \in SUBSET Lines /\ timesUsed \in Nat
    BY <1>1 DEF IInv, TypeOK, Submission
  <2>2. Fit(s, [t EXCEPT !.stage = "priced", !.lines = cart[t.user], !.used = timesUsed])
    BY <1>1, <1>8, <2>1 DEF Price, At, Fit, Submission, Stages, Sound, Protects
  <2> QED BY <1>8, <2>2, StepKeeps DEF Price, End
<1>9. CASE Abort(s)
  BY <1>9, StepKeeps DEF Abort, End
<1> QED BY <1>2, <1>3, <1>4, <1>5, <1>6, <1>7, <1>8, <1>9

(***************************************************************************)
(* Steps that answer, place and expire                                     *)
(***************************************************************************)
\* The commit of an order: the row of its key gets this order's number, and no
\* other order has that key while the key is protected.
LEMMA PlaceStep ==
    ASSUME IInv, PlacementAssumption, NEW s \in Sessions, NEW delivered \in BOOLEAN,
           Place(s, delivered)
    PROVE  IInv'
<1> DEFINE t == sub[s]
           n == Len(orders) + 1
           made == [user |-> t.user, key |-> t.key, lines |-> t.lines, promo |-> t.promo]
<1>1. /\ t \in Submission /\ t # None /\ Sound(t) /\ t.stage = "priced"
      /\ \A k \in Keys : t.key = k /\ expiries[k] = 0 => Protects(t, k)
      /\ t.key # None => t.key \in Keys
  BY DEF Place, At, IInv, TypeOK, Requests, Submission
<1>2. /\ orders \in Seq(Order) /\ made \in Order /\ n \in Nat \ {0}
      /\ orders' = Append(orders, made)
      /\ DOMAIN orders = 1..(n - 1) /\ DOMAIN orders' = 1..n
      /\ orders'[n] = made
      /\ \A i \in DOMAIN orders : orders'[i] = orders[i]
      /\ orders' \in Seq(Order)
  <2>1. orders \in Seq(Order) /\ made \in Order
    BY <1>1 DEF IInv, TypeOK, Submission, Order
  <2>2. orders' = Append(orders, made)
    BY DEF Place
  <2> HIDE DEF made
  <2> QED BY <2>1, <2>2
<1> HIDE DEF made
<1>3. /\ sub' = [sub EXCEPT ![s] = None] /\ UNCHANGED <<added, soldOut, expiries>>
      /\ cart' \in [Users -> SUBSET Lines] /\ timesUsed' \in Nat
      /\ answers' \subseteq (Keys \cup {None}) \X Nat
  BY <1>1, <1>2 DEF Place, IInv, TypeOK, CartAfter, Counted, Submission
<1>4. CASE t.key # None /\ (t.holds \/ rows[t.key] # None)
  <2>1. rows' = [rows EXCEPT ![t.key] = Answered(s, n)]
    BY <1>4 DEF Place
  <2>2. Answered(s, n) \in KeyRow /\ Answered(s, n).order = n
    BY <1>1, <1>2, <1>4, AnsweredType DEF IInv
  <2>7. rows'[t.key] # None
    BY <1>1, <1>4, <2>1, <2>2, PlacementAssumption DEF IInv, TypeOK, PlacementAssumption
  <2>3. TypeOK'
    BY <1>1, <1>2, <1>3, <2>1, <2>2 DEF IInv, TypeOK
  <2>4. OneHolder'
    BY <1>3 DEF IInv, TypeOK, OneHolder
  <2>5. Requests'
    <3> SUFFICES ASSUME NEW x \in Sessions, sub'[x] # None
                 PROVE  /\ Sound(sub'[x])
                        /\ \A k \in Keys : sub'[x].key = k /\ expiries[k] = 0 =>
                              Protects(sub[x], k)'
      BY <1>3 DEF Requests, Sound
    <3>1. x # s /\ sub'[x] = sub[x] /\ Sound(sub[x])
      BY <1>3 DEF IInv, TypeOK, Requests
    <3>2. ASSUME NEW k \in Keys, sub[x].key = k, expiries[k] = 0
          PROVE  Protects(sub[x], k)'
      <4>1. Protects(sub[x], k)
        BY <3>1, <3>2, <1>3 DEF IInv, Requests
      <4>2. CASE k # t.key
        BY <4>1, <4>2, <3>1, <2>1 DEF Protects, IInv, TypeOK
      <4>3. CASE k = t.key
        <5>1. t.holds
          BY <1>1, <3>2, <4>3 DEF Protects
        <5>2. ~sub[x].holds
          BY <1>1, <1>3, <3>1, <3>2, <4>3, <5>1 DEF IInv, OneHolder
        <5>3. rows'[k] # None
          BY <2>7, <4>3
        <5> QED BY <3>1, <4>1, <5>2, <5>3 DEF Protects
      <4> QED BY <4>2, <4>3
    <3> QED BY <3>1, <3>2
  <2>6. Rows'
    <3>1. ASSUME NEW k \in Keys, rows'[k] # None PROVE rows'[k].order # 0
      BY <1>2, <2>1, <2>2, <3>1 DEF IInv, Rows, TypeOK
    <3>2. ASSUME NEW k \in Keys, expiries[k] = 0 PROVE Truthful(k)'
      <4>1. Truthful(k)
        BY <3>2 DEF IInv, Rows
      <4>2. CASE k # t.key
        <5>1. rows'[k] = rows[k] /\ made.key # k
          BY <2>1, <4>2 DEF IInv, TypeOK, made
        <5> QED BY <1>2, <4>1, <5>1 DEF Truthful
      <4>3. CASE k = t.key
        <5>1. rows[k] = None /\ t.holds
          BY <1>1, <3>2, <4>3 DEF Protects
        <5>2. rows'[k] = [promo |-> t.promo, order |-> n, expired |-> FALSE]
          BY <1>1, <1>2, <1>4, <2>1, <4>3, <5>1, AnsweredType DEF IInv, TypeOK
        <5>3. made.key = k /\ made.user = Owner[k] /\ made.promo = t.promo
          BY <1>1, <1>4, <4>3 DEF Sound, made
        <5>4. \A i \in DOMAIN orders : orders[i].key # k
          BY <4>1, <5>1 DEF Truthful
        <5> QED BY <1>2, <2>7, <4>3, <5>2, <5>3, <5>4 DEF Truthful
      <4> QED BY <4>2, <4>3
    <3> QED BY <1>3, <3>1, <3>2 DEF Rows
  <2> QED BY <2>3, <2>4, <2>5, <2>6 DEF IInv
<1>5. CASE ~(t.key # None /\ (t.holds \/ rows[t.key] # None))
  <2>1. rows' = rows
    BY <1>5 DEF Place
  <2>2. \A k \in Keys : expiries[k] = 0 => made.key # k
    BY <1>1, <1>5 DEF Protects, made, Sound
  <2>3. TypeOK'
    BY <1>2, <1>3, <2>1 DEF IInv, TypeOK
  <2>4. OneHolder'
    BY <1>3 DEF IInv, TypeOK, OneHolder
  <2>5. Requests'
    BY <1>3, <2>1 DEF IInv, TypeOK, Requests, Sound, Protects
  <2>6. Rows'
    <3>1. ASSUME NEW k \in Keys, expiries[k] = 0 PROVE Truthful(k)'
      <4>1. Truthful(k) /\ made.key # k
        BY <2>2, <3>1 DEF IInv, Rows
      <4> QED BY <1>2, <2>1, <4>1 DEF Truthful
    <3> QED BY <1>3, <2>1, <3>1 DEF IInv, Rows
  <2> QED BY <2>3, <2>4, <2>5, <2>6 DEF IInv
<1> QED BY <1>4, <1>5

\* A replay ends a request and repeats a stored answer.
LEMMA ReplayStep ==
    ASSUME IInv, NEW s \in Sessions, Replay(s)
    PROVE  IInv'
<1> DEFINE row == rows[sub[s].key]
<1>1. /\ sub[s].key \in Keys /\ row \in KeyRow
      /\ sub' = [sub EXCEPT ![s] = None]
      /\ answers' = answers \cup {<<sub[s].key, row.order>>}
      /\ UNCHANGED <<rows, cart, added, soldOut, orders, timesUsed, expiries>>
  BY DEF Replay, At, IInv, Requests, Sound, TypeOK, Submission
<1>2. TypeOK'
  BY <1>1 DEF IInv, TypeOK, KeyRow
<1> QED BY <1>1, <1>2 DEF IInv, TypeOK, OneHolder, Requests, Sound, Protects, Rows, Truthful

\* A row that runs out, or is deleted, has lost its protection already.
LEMMA ExpiryStep ==
    ASSUME IInv, PlacementAssumption,
           (\E k \in Keys : Expire(k)) \/ ExpireIdempotencyKeys
    PROVE  IInv'
<1>1. ASSUME NEW k \in Keys, Expire(k) PROVE IInv'
  <2>1. /\ rows' = [rows EXCEPT ![k] = [rows[k] EXCEPT !.expired = TRUE]]
        /\ rows[k] \in KeyRow /\ rows'[k] \in KeyRow /\ rows'[k].order = rows[k].order
        /\ expiries' = [expiries EXCEPT ![k] = expiries[k] + 1]
        /\ expiries[k] \in Nat
        /\ UNCHANGED <<cart, added, soldOut, orders, timesUsed, sub, answers>>
    BY <1>1 DEF Expire, IInv, TypeOK, KeyRow
  <2>2. expiries'[k] # 0 /\ expiries' \in [Keys -> Nat]
    BY <2>1 DEF IInv, TypeOK
  <2>3. TypeOK'
    BY <2>1, <2>2 DEF IInv, TypeOK
  <2>4. \A q \in Keys \ {k} : rows'[q] = rows[q] /\ expiries'[q] = expiries[q]
    BY <2>1 DEF IInv, TypeOK
  <2>5. Requests'
    BY <2>1, <2>2, <2>4 DEF IInv, Requests, Sound, Protects
  <2>6. Rows'
    BY <2>1, <2>2, <2>4 DEF IInv, Rows, Truthful
  <2> QED BY <2>1, <2>3, <2>5, <2>6 DEF IInv, OneHolder
<1>2. CASE ExpireIdempotencyKeys
  <2>1. /\ rows' = [k \in Keys |-> IF k \in Expired THEN None ELSE rows[k]]
        /\ UNCHANGED <<cart, added, soldOut, orders, timesUsed, expiries, sub, answers>>
    BY <1>2 DEF ExpireIdempotencyKeys
  <2>2. \A k \in Keys : expiries[k] = 0 => rows'[k] = rows[k]
    BY <2>1 DEF IInv, Rows, Truthful, Expired
  <2>3. TypeOK'
    BY <2>1 DEF IInv, TypeOK
  <2>4. Requests'
    BY <2>1, <2>2 DEF IInv, Requests, Sound, Protects
  <2>5. Rows'
    BY <2>1, <2>2 DEF IInv, Rows, Truthful
  <2> QED BY <2>1, <2>3, <2>4, <2>5 DEF IInv, OneHolder
<1> QED BY <1>1, <1>2

\* The cart and the menu are no part of the key's protection.
LEMMA CartStep ==
    ASSUME IInv, PlacementAssumption,
           (\E l \in Lines : AddLine(l) \/ RemoveLine(l) \/ SetItemStatus(l)) \/ UNCHANGED vars
    PROVE  IInv'
<1>1. UNCHANGED <<rows, orders, timesUsed, expiries, sub, answers>>
  BY DEF AddLine, RemoveLine, SetItemStatus, vars
<1>2. TypeOK'
  BY DEF IInv, TypeOK, AddLine, RemoveLine, SetItemStatus, vars, PlacementAssumption
<1> QED BY <1>1, <1>2 DEF IInv, OneHolder, Requests, Sound, Protects, Rows, Truthful

\* Every step keeps the invariant.
LEMMA Inductive == ASSUME IInv, PlacementAssumption, [Next]_vars PROVE IInv'
BY SubmitStep, BeginStep, PlaceStep, ReplayStep, ExpiryStep, CartStep DEF Next, Serve

\* No order, no row and no request satisfies the invariant.
LEMMA Initially == ASSUME PlacementAssumption, Init PROVE IInv
BY DEF Init, IInv, TypeOK, OneHolder, Requests, Rows, Truthful

(***************************************************************************)
(* What follows                                                            *)
(***************************************************************************)
\* The tables and the open requests hold values of their kinds.
THEOREM TypeCorrect == Spec => []TypeOK
<1>1. Init => IInv
  BY Initially, PlacementAssumption
<1>2. IInv /\ [Next]_vars => IInv'
  BY Inductive, PlacementAssumption
<1>3. IInv => TypeOK
  BY DEF IInv
<1> QED BY <1>1, <1>2, <1>3, PTL DEF Spec

\* However many sessions send one key again, it places one order while it is
\* protected, and no row is left without its response.
THEOREM OnePerKey == Spec => []OneOrderPerKey
<1>1. Init => IInv
  BY Initially, PlacementAssumption
<1>2. IInv /\ [Next]_vars => IInv'
  BY Inductive, PlacementAssumption
<1>3. IInv => OneOrderPerKey
  <2> SUFFICES ASSUME IInv PROVE OneOrderPerKey
    OBVIOUS
  <2>1. ASSUME NEW i \in DOMAIN orders, NEW j \in DOMAIN orders, orders[i].key # None,
               orders[i].key = orders[j].key, expiries[orders[i].key] = 0
        PROVE  i = j
    <3>1. orders[i] \in Order
      <4>1. orders \in Seq(Order)
        BY DEF IInv, TypeOK
      <4> QED BY <4>1, <2>1
    <3>2. orders[i].key \in Keys
      BY <2>1, <3>1 DEF Order
    <3> QED BY <2>1, <3>2 DEF IInv, Rows, Truthful
  <2> QED BY <2>1 DEF OneOrderPerKey, IInv, Rows
<1> QED BY <1>1, <1>2, <1>3, PTL DEF Spec

\* Within the day a 201 names an order placed under that key, by that customer,
\* with that body.
THEOREM TrueAnswers == Spec => AnswersAreTrue
<1> DEFINE Answers ==
        \A s \in Sessions : \A a \in answers' \ answers :
            sub[s] # None /\ sub'[s] = None /\ (a[1] # None => expiries[a[1]] = 0) =>
                /\ a[2] \in DOMAIN orders'
                /\ orders'[a[2]].key = sub[s].key
                /\ orders'[a[2]].user = sub[s].user
                /\ orders'[a[2]].promo = sub[s].promo
<1>1. Init => IInv
  BY Initially, PlacementAssumption
<1>2. IInv /\ [Next]_vars => IInv'
  BY Inductive, PlacementAssumption
<1>3. IInv /\ [Next]_vars => [Answers]_vars
  <2> SUFFICES ASSUME IInv, [Next]_vars, NEW s \in Sessions, NEW a \in answers' \ answers,
                      sub[s] # None, sub'[s] = None, a[1] # None => expiries[a[1]] = 0
               PROVE  /\ a[2] \in DOMAIN orders'
                      /\ orders'[a[2]].key = sub[s].key
                      /\ orders'[a[2]].user = sub[s].user
                      /\ orders'[a[2]].promo = sub[s].promo
    OBVIOUS
  <2>1. ASSUME NEW q \in Sessions, Replay(q)
        PROVE  /\ a[2] \in DOMAIN orders'
               /\ orders'[a[2]].key = sub[s].key
               /\ orders'[a[2]].user = sub[s].user
               /\ orders'[a[2]].promo = sub[s].promo
    <3>1. q = s /\ a = <<sub[s].key, rows[sub[s].key].order>>
      BY <2>1 DEF Replay, IInv, TypeOK
    <3>2. sub[s].key \in Keys /\ Owner[sub[s].key] = sub[s].user
      BY <2>1, <3>1 DEF Replay, At, IInv, TypeOK, Requests, Sound, Submission
    <3>3. Truthful(sub[s].key) /\ rows[sub[s].key] # None
          /\ rows[sub[s].key].promo = sub[s].promo
      BY <2>1, <3>1, <3>2, PlacementAssumption
         DEF Replay, SameRequest, IInv, Rows, PlacementAssumption
    <3> QED BY <2>1, <3>1, <3>2, <3>3 DEF Truthful, Replay
  <2>2. ASSUME NEW q \in Sessions, NEW delivered \in BOOLEAN, Place(q, delivered)
        PROVE  /\ a[2] \in DOMAIN orders'
               /\ orders'[a[2]].key = sub[s].key
               /\ orders'[a[2]].user = sub[s].user
               /\ orders'[a[2]].promo = sub[s].promo
    <3> DEFINE made == [user |-> sub[s].user, key |-> sub[s].key,
                        lines |-> sub[s].lines, promo |-> sub[s].promo]
    <3>1. q = s /\ a = <<sub[s].key, Len(orders) + 1>> /\ orders' = Append(orders, made)
      BY <2>2 DEF Place, IInv, TypeOK
    <3>2. orders \in Seq(Order)
      BY DEF IInv, TypeOK
    <3>3. Len(orders) + 1 \in DOMAIN orders' /\ orders'[Len(orders) + 1] = made
      <4> HIDE DEF made
      <4> QED BY <3>1, <3>2
    <3> QED BY <3>1, <3>3
  <2>3. (\E q \in Sessions : Replay(q) \/ \E delivered \in BOOLEAN : Place(q, delivered))
        \/ UNCHANGED answers
    BY DEF Next, Serve, Submit, Claim, Conflict, LookMissing, LookExpired, Refuse, Reclaim,
           Price, Abort, End, Step, AddLine, RemoveLine, SetItemStatus, Expire,
           ExpireIdempotencyKeys, vars
  <2> QED BY <2>1, <2>2, <2>3
<1> QED BY <1>1, <1>2, <1>3, PTL DEF Spec, AnswersAreTrue

(***************************************************************************)
(* The cart                                                                *)
(***************************************************************************)
\* Whatever a cart, an open request or an order holds was added once.
AllAdded ==
    /\ \A u \in Users : cart[u] \subseteq added
    /\ \A s \in Sessions : sub[s] # None => sub[s].lines \subseteq added
    /\ \A i \in DOMAIN orders : orders[i].lines \subseteq added

CartInv == IInv /\ AllAdded /\ OrderedLeavesTheCart

\* Orders leave the cart, and only lines that were added are ever ordered.
LEMMA CartInductive ==
    ASSUME CartInv, PlacementAssumption, [Next]_vars
    PROVE  AllAdded' /\ OrderedLeavesTheCart'
<1>0. /\ sub \in [Sessions -> Submission \cup {None}] /\ cart \in [Users -> SUBSET Lines]
      /\ orders \in Seq(Order)
  BY DEF CartInv, IInv, TypeOK
<1>9. \A i \in DOMAIN orders : orders[i] \in Order
  BY <1>0
<1>10. \A i \in DOMAIN orders : orders[i].user \in Users
  BY <1>9 DEF Order
<1>1. ASSUME NEW s \in Sessions, NEW t, Step(s, t),
             t = None \/ t.lines \subseteq added
      PROVE  AllAdded' /\ OrderedLeavesTheCart'
  BY <1>0, <1>1 DEF Step, CartInv, AllAdded, OrderedLeavesTheCart
<1>2. ASSUME NEW s \in Sessions, NEW delivered \in BOOLEAN, Place(s, delivered)
      PROVE  AllAdded' /\ OrderedLeavesTheCart'
  <2> DEFINE t == sub[s]
             made == [user |-> t.user, key |-> t.key, lines |-> t.lines, promo |-> t.promo]
  <2>1. /\ t \in Submission /\ t # None /\ made \in Order
        /\ orders' = Append(orders, made)
        /\ cart' = [cart EXCEPT ![t.user] = {}] /\ t.user \in Users
        /\ sub' = [sub EXCEPT ![s] = None] /\ added' = added
    BY <1>0, <1>2 DEF Place, At, CartAfter, Submission, Order
  <2>2. made.user = t.user /\ made.lines = t.lines /\ made.lines \subseteq added
    BY <2>1 DEF CartInv, AllAdded
  <2> HIDE DEF made
  <2>3. ASSUME NEW i \in DOMAIN orders'
        PROVE  (i \in DOMAIN orders /\ orders'[i] = orders[i]) \/ orders'[i] = made
    BY <1>0, <2>1, <2>3
  <2>4. \A u \in Users : cart'[u] = cart[u] \/ cart'[u] = {}
    BY <1>0, <2>1
  <2>5. AllAdded'
    BY <1>0, <2>1, <2>2, <2>3, <2>4 DEF CartInv, AllAdded
  <2>6. OrderedLeavesTheCart'
    <3> SUFFICES ASSUME NEW i \in DOMAIN orders'
                 PROVE  cart'[orders'[i].user] \cap orders'[i].lines = {}
      BY DEF OrderedLeavesTheCart
    <3>1. CASE orders'[i] = made
      BY <1>0, <2>1, <2>2, <3>1
    <3>2. CASE i \in DOMAIN orders /\ orders'[i] = orders[i]
      <4>1. orders[i].user \in Users
        BY <1>10, <3>2
      <4> QED BY <2>4, <3>2, <4>1 DEF CartInv, OrderedLeavesTheCart
    <3> QED BY <2>3, <3>1, <3>2
  <2> QED BY <2>5, <2>6
<1>3. ASSUME NEW l \in Lines, AddLine(l) PROVE AllAdded' /\ OrderedLeavesTheCart'
  <2>1. /\ l \notin added /\ added' = added \cup {l} /\ UNCHANGED <<orders, sub>>
        /\ cart' = [cart EXCEPT ![Eater[l]] = cart[Eater[l]] \cup {l}]
    BY <1>3 DEF AddLine
  <2>2. \A u \in Users : cart'[u] \subseteq cart[u] \cup {l}
    BY <1>0, <2>1
  <2>3. AllAdded'
    BY <2>1, <2>2 DEF CartInv, AllAdded
  <2>4. ASSUME NEW i \in DOMAIN orders
        PROVE  cart'[orders[i].user] \cap orders[i].lines = {}
    <3>1. orders[i].user \in Users /\ orders[i].lines \subseteq added
      BY <1>10, <2>4 DEF CartInv, AllAdded
    <3>2. cart[orders[i].user] \cap orders[i].lines = {}
      BY <2>4 DEF CartInv, OrderedLeavesTheCart
    <3> QED BY <2>1, <2>2, <3>1, <3>2
  <2> QED BY <2>1, <2>3, <2>4 DEF OrderedLeavesTheCart
<1>4. ASSUME NEW l \in Lines, RemoveLine(l) PROVE AllAdded' /\ OrderedLeavesTheCart'
  <2>1. \A u \in Users : cart'[u] \subseteq cart[u]
    BY <1>0, <1>4 DEF RemoveLine
  <2>2. UNCHANGED <<added, orders, sub>>
    BY <1>4 DEF RemoveLine
  <2>3. \A i \in DOMAIN orders : orders[i].user \in Users
    BY <1>10
  <2> QED BY <2>1, <2>2, <2>3 DEF CartInv, AllAdded, OrderedLeavesTheCart
<1>5. ASSUME UNCHANGED <<cart, added, orders>>, \A s \in Sessions : sub'[s] = None \/ sub'[s] = sub[s]
      PROVE  AllAdded' /\ OrderedLeavesTheCart'
  BY <1>5 DEF CartInv, AllAdded, OrderedLeavesTheCart
<1>6. ASSUME NEW s \in Sessions, NEW u \in Users, NEW k \in Keys \cup {None},
             NEW promo \in BOOLEAN, Submit(s, u, k, promo)
      PROVE  AllAdded' /\ OrderedLeavesTheCart'
  <2>1. PICK t : Step(s, t) /\ t.lines = {}
    BY <1>6 DEF Submit
  <2> QED BY <1>1, <2>1
<1>7. ASSUME NEW s \in Sessions,
             \/ Claim(s) \/ Conflict(s) \/ LookMissing(s) \/ LookExpired(s)
             \/ Refuse(s) \/ Reclaim(s) \/ Price(s) \/ Abort(s)
      PROVE  AllAdded' /\ OrderedLeavesTheCart'
  <2>1. sub[s] # None /\ sub[s] \in Submission /\ sub[s].lines \subseteq added
        /\ cart[sub[s].user] \subseteq added
    BY <1>0, <1>7 DEF Claim, Conflict, LookMissing, LookExpired, Refuse, Reclaim, Price, Abort, At,
       CartInv, AllAdded, Submission
  <2>2. PICK t : Step(s, t) /\ (t = None \/ t.lines \in {sub[s].lines, cart[sub[s].user]})
    <3>1. \A stage, holds, seen :
             /\ [sub[s] EXCEPT !.stage = stage].lines = sub[s].lines
             /\ [sub[s] EXCEPT !.stage = stage, !.holds = holds].lines = sub[s].lines
             /\ [sub[s] EXCEPT !.stage = stage, !.seen = seen].lines = sub[s].lines
      BY <2>1 DEF Submission
    <3>2. \A lines, used : [sub[s] EXCEPT !.stage = "priced", !.lines = lines,
                                          !.used = used].lines = lines
      BY <2>1 DEF Submission
    <3>3. CASE Claim(s)
      <4> DEFINE r == [sub[s] EXCEPT !.stage = "claimed", !.holds = TRUE]
      <4>1. Step(s, r)
        BY <3>3 DEF Claim
      <4>2. r.lines = sub[s].lines
        BY <3>1
      <4> HIDE DEF r
      <4> QED BY <4>1, <4>2
    <3>4. CASE Conflict(s)
      BY <3>1, <3>4 DEF Conflict
    <3>5. CASE LookMissing(s)
      BY <3>1, <3>5 DEF LookMissing
    <3>6. CASE LookExpired(s)
      <4> DEFINE r == [sub[s] EXCEPT !.stage = "expired", !.seen = rows[sub[s].key].promo]
      <4>1. Step(s, r)
        BY <3>6 DEF LookExpired
      <4>2. r.lines = sub[s].lines
        BY <3>1
      <4> QED BY <4>1, <4>2
    <3>7. CASE Refuse(s)
      BY <3>7 DEF Refuse, End
    <3>8. CASE Reclaim(s)
      <4> DEFINE r == [sub[s] EXCEPT !.stage = "claimed", !.holds = TRUE]
      <4>1. Step(s, None) \/ Step(s, r)
        BY <3>8 DEF Reclaim, End
      <4>2. r.lines = sub[s].lines
        BY <3>1
      <4> HIDE DEF r
      <4> QED BY <4>1, <4>2
    <3>9. CASE Price(s)
      <4> DEFINE r == [sub[s] EXCEPT !.stage = "priced", !.lines = cart[sub[s].user],
                                     !.used = timesUsed]
      <4>1. Step(s, None) \/ Step(s, r)
        BY <3>9 DEF Price, End
      <4>2. r.lines = cart[sub[s].user]
        BY <3>2
      <4> QED BY <4>1, <4>2
    <3>10. CASE Abort(s)
      BY <3>10 DEF Abort, End
    <3> QED BY <1>7, <3>3, <3>4, <3>5, <3>6, <3>7, <3>8, <3>9, <3>10
  <2> QED BY <1>1, <2>1, <2>2
<1>8. ASSUME \/ \E s \in Sessions : Replay(s)
             \/ \E l \in Lines : SetItemStatus(l)
             \/ \E k \in Keys : Expire(k)
             \/ ExpireIdempotencyKeys
             \/ UNCHANGED vars
      PROVE  AllAdded' /\ OrderedLeavesTheCart'
  BY <1>0, <1>5, <1>8 DEF Replay, SetItemStatus, Expire, ExpireIdempotencyKeys, vars
<1> QED BY <1>2, <1>3, <1>4, <1>6, <1>7, <1>8 DEF Next, Serve

\* What was ordered is gone from the cart the moment the order exists.
THEOREM OrderedLeaves == Spec => []OrderedLeavesTheCart
<1>1. Init => CartInv
  BY Initially, PlacementAssumption DEF Init, CartInv, AllAdded, OrderedLeavesTheCart
<1>2. CartInv /\ [Next]_vars => CartInv'
  BY Inductive, CartInductive, PlacementAssumption DEF CartInv
<1>3. CartInv => OrderedLeavesTheCart
  BY DEF CartInv
<1> QED BY <1>1, <1>2, <1>3, PTL DEF Spec
=============================================================================
