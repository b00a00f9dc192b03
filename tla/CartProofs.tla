----------------------------- MODULE CartProofs -----------------------------
(***************************************************************************)
(* A cart is whole whatever overlaps, and taken one at a time its requests *)
(* are the moves of Basket.                                                *)
(***************************************************************************)
EXTENDS Cart, FiniteSetTheorems, TLAPS

(***************************************************************************)
(* What an open request has in hand                                        *)
(***************************************************************************)
\* A configuration and how many of it, on the way into a cart.
Choosing(t) ==
    /\ t.choice \in Choice /\ t.quantity \in 1..MaxQuantity
    /\ ~t.dropped /\ t.swept = {} /\ t.priced = {}

\* A line it has found, with its cart.
Holding(t) ==
    /\ t.choice \in Choice /\ t.line \in LineIds /\ t.cart \in CartIds
    /\ ~t.made /\ t.priced = {}

Untouching(t) == t.wrote = "nothing" /\ t.line = 0

\* A request at each of its statements.
Stage(t) ==
    \/ t.step = "cart" /\ Choosing(t) /\ Untouching(t) /\ t.cart = 0 /\ ~t.made
    \/ t.step = "insert" /\ Choosing(t) /\ Untouching(t) /\ t.cart \in CartIds
    \/ /\ t.step = "update" /\ Holding(t) /\ t.quantity \in 1..MaxQuantity
       /\ t.wrote = "nothing" /\ ~t.dropped /\ t.swept = {}
    \/ t.step = "delete" /\ Holding(t) /\ t.wrote = "nothing" /\ ~t.dropped /\ t.swept = {}
    \/ t.step = "count" /\ Holding(t) /\ t.wrote = "delete" /\ ~t.dropped /\ t.swept = {}
    \/ /\ t.step = "clear" /\ Untouching(t) /\ t.cart = 0 /\ t.priced # {}
       /\ ~t.made /\ ~t.dropped /\ t.swept = {}
    \/ /\ t.step \in {"drop", "cascade"} /\ t.cart \in CartIds /\ ~t.made /\ t.swept = {}
       /\ t.dropped = (t.step = "cascade")
       /\ (Holding(t) /\ t.wrote = "delete") \/ (Untouching(t) /\ t.priced # {})
    \/ /\ t.step = "commit" /\ t.wrote = "insert" /\ Choosing(t)
       /\ t.cart \in CartIds /\ t.line \in LineIds
    \/ /\ t.step = "commit" /\ t.wrote = "update" /\ Holding(t)
       /\ t.quantity \in 1..MaxQuantity /\ ~t.dropped /\ t.swept = {}
    \/ /\ t.step = "commit" /\ ~t.made /\ (t.dropped => t.cart \in CartIds)
       /\ ~t.dropped => t.swept = {}
       /\ (Holding(t) /\ t.wrote = "delete") \/ (Untouching(t) /\ t.priced # {})

\* What it has in hand against what the tables say.
Found(t) ==
    /\ t.cart <= cartsMade /\ t.line <= linesMade
    /\ \A l \in t.swept \cup t.priced : l <= linesMade
    /\ t.made => \A c \in CartIds : carts[c] = None
    /\ t.step = "insert" /\ ~t.made => carts[t.cart] \in {None, Seller[DishOf(t.choice)]}
    /\ t.wrote = "insert" /\ ~t.made => carts[t.cart] = Seller[DishOf(t.choice)]
    /\ t.wrote = "insert" =>
          ~Live(t.line) /\ \A l \in LinesOf(t.cart) : lines[l].choice # t.choice
    /\ t.wrote = "update" => Live(t.line)
    /\ t.step \in {"update", "delete"} \/ t.wrote \in {"update", "delete"} =>
          (Live(t.line) => lines[t.line].cart = t.cart /\ lines[t.line].choice = t.choice)
    /\ t.dropped => carts[t.cart] # None
    /\ t.dropped /\ t.step = "commit" => LinesOf(t.cart) \subseteq t.swept
    /\ \A l \in t.swept : Live(l) => lines[l].cart = t.cart
    /\ t.step \in {"drop", "cascade"} =>
          \A l \in t.priced : Live(l) => lines[l].cart = t.cart
    /\ t.step = "commit" => \A l \in t.priced : Live(l) => l \in t.swept

\* The lines a request has locked.
Locked(t) == t.swept \cup (IF t.wrote \in {"update", "delete"} THEN {t.line} ELSE {})

\* What the locks keep apart in two open requests.
Apart(t, u) ==
    /\ t.made => ~u.made /\ u.cart # t.cart
    /\ t.dropped => (u.wrote = "insert" \/ u.dropped => u.cart # t.cart)
    /\ Locked(t) \cap Locked(u) = {}
    /\ t.wrote = "insert" =>
          /\ u.line # t.line /\ t.line \notin u.swept \cup u.priced
          /\ u.wrote = "insert" /\ u.cart = t.cart => u.choice # t.choice

\* The committed tables.
TablesWhole ==
    /\ \A l \in LineIds : Live(l) => /\ carts[lines[l].cart] = Seller[DishOf(lines[l].choice)]
                                     /\ l <= linesMade
    /\ \A c \in CartIds : carts[c] # None => c <= cartsMade
    /\ \A c, d \in CartIds : carts[c] # None /\ carts[d] # None => c = d
    /\ \A k, l \in LineIds : Live(k) /\ Live(l) /\ k # l => lines[k].choice # lines[l].choice

RequestsSound ==
    /\ \A s \in Sessions : ~Idle(s) => Stage(txn[s]) /\ Found(txn[s])
    /\ \A s, u \in Sessions : ~Idle(s) /\ ~Idle(u) /\ s # u => Apart(txn[s], txn[u])

CInv == TypeOK /\ TablesWhole /\ RequestsSound

(***************************************************************************)
(* One request at a time                                                   *)
(***************************************************************************)
NoneWithdrawn == \A v \in Sizes : size[v] # "deleted"

\* The only open request against the tables.
Alone(t) ==
    /\ t.step \in {"update", "delete", "count", "drop", "cascade"} => carts[t.cart] # None
    /\ t.wrote = "delete" /\ t.step \in {"drop", "cascade"} => LinesOf(t.cart) \subseteq {t.line}
    /\ t.wrote = "delete" /\ t.dropped => t.swept \subseteq {t.line}
    /\ t.wrote = "delete" /\ t.step = "commit" /\ ~t.dropped /\ NoneWithdrawn =>
          LinesOf(t.cart) \ {t.line} # {}
    /\ t.priced # {} /\ t.step \in {"drop", "cascade"} =>
          \A l \in LineIds : Live(l) => lines[l].cart = t.cart
    /\ t.priced # {} /\ t.step = "commit" => \A l \in LineIds : Live(l) => l \in t.swept

\* Of requests taken one at a time.
SAlone ==
    /\ \A s, u \in Sessions : Idle(s) \/ Idle(u) \/ s = u
    /\ \A s \in Sessions : ~Idle(s) => Alone(txn[s])
    /\ NoneWithdrawn => \A c \in CartIds : carts[c] # None => LinesOf(c) # {}

SInv == ~overlap => SAlone

(***************************************************************************)
(* Statements that write no table                                          *)
(***************************************************************************)
\* CHOOSE finds the cart, and the line that holds a choice.
LEMMA CurrentIs ==
    \/ CurrentCart = 0 /\ \A c \in CartIds : carts[c] = None
    \/ CurrentCart \in CartIds /\ carts[CurrentCart] # None
BY DEF CurrentCart

LEMMA LineIs ==
    ASSUME CartAssumption, NEW c, NEW choice
    PROVE  \/ LineWith(c, choice) = 0 /\ \A l \in LinesOf(c) : lines[l].choice # choice
           \/ LineWith(c, choice) \in LinesOf(c) /\ lines[LineWith(c, choice)].choice = choice
BY DEF LineWith

\* Ids start at 1.
LEMMA IdsArePositive ==
    ASSUME CartAssumption
    PROVE  /\ CartIds \subseteq Nat /\ 0 \notin CartIds /\ CartIds \subseteq 0..MaxCarts
           /\ LineIds \subseteq Nat /\ 0 \notin LineIds /\ LineIds \subseteq 0..MaxLines
BY DEF CartAssumption, CartIds, LineIds

\* What a request found stays found while the tables stay and ids are handed out.
LEMMA FoundStays ==
    ASSUME CartAssumption, TypeOK, TypeOK', UNCHANGED tables,
           cartsMade <= cartsMade', linesMade <= linesMade',
           NEW t \in Request, Found(t)
    PROVE  Found(t)'
<1>1. /\ t.cart \in Nat /\ t.line \in Nat /\ cartsMade \in Nat /\ linesMade \in Nat
      /\ cartsMade' \in Nat /\ linesMade' \in Nat
      /\ t.swept \subseteq LineIds /\ t.priced \subseteq LineIds /\ LineIds \subseteq Nat
  BY IdsArePositive DEF Request, TypeOK, CartAssumption
<1>2. /\ t.cart <= cartsMade' /\ t.line <= linesMade'
      /\ \A l \in t.swept \cup t.priced : l <= linesMade'
  <2>1. t.cart <= cartsMade /\ t.line <= linesMade /\ \A l \in t.swept \cup t.priced : l <= linesMade
    BY DEF Found
  <2>2. \A l \in t.swept \cup t.priced : l \in Nat
    BY <1>1
  <2> QED BY <1>1, <2>1, <2>2
<1>3. carts' = carts /\ lines' = lines
  BY DEF tables
<1>4. \A l : Live(l)' = Live(l)
  BY <1>3 DEF Live
<1>5. \A c : LinesOf(c)' = LinesOf(c)
  BY <1>3, <1>4 DEF LinesOf
<1> QED BY <1>2, <1>3, <1>4, <1>5 DEF Found

\* A request that goes on, or ends, without writing a table keeps the invariant if
\* what it now has in hand is sound and the locks keep it apart from the others.
LEMMA Advance ==
    ASSUME CartAssumption, NoneAssumption, CInv, UNCHANGED <<tables, overlap>>,
           size' \in [Sizes -> {"planned", "live", "deleted"}], hidden' \subseteq Dishes,
           cartsMade' \in 0..MaxCarts, linesMade' \in 0..MaxLines,
           cartsMade <= cartsMade', linesMade <= linesMade',
           NEW s \in Sessions, NEW r \in Request \cup {None}, txn' = [txn EXCEPT ![s] = r],
           r # None => /\ Stage(r) /\ Found(r)'
                       /\ \A u \in Sessions : ~Idle(u) /\ u # s =>
                             Apart(r, txn[u]) /\ Apart(txn[u], r)
    PROVE  CInv'
<1>1. TypeOK /\ TypeOK'
  BY DEF CInv, TypeOK, tables
<1>2. carts' = carts /\ lines' = lines
  BY DEF tables
<1>3. \A u \in Sessions : txn'[u] = IF u = s THEN r ELSE txn[u]
  BY <1>1 DEF TypeOK
<1>4. TablesWhole'
  <2>1. \A l : Live(l)' = Live(l)
    BY <1>2 DEF Live
  <2>2. \A c \in CartIds : carts[c] # None => c <= cartsMade'
    <3>1. cartsMade \in Nat /\ cartsMade' \in Nat /\ CartIds \subseteq Nat
      BY <1>1, IdsArePositive DEF TypeOK
    <3> QED BY <3>1 DEF CInv, TablesWhole
  <2>3. \A l \in LineIds : Live(l) => l <= linesMade'
    <3> SUFFICES ASSUME NEW l \in LineIds, Live(l) PROVE l <= linesMade'
      OBVIOUS
    <3>1. linesMade \in Nat /\ linesMade' \in Nat /\ l \in Nat
      BY <1>1, IdsArePositive DEF TypeOK
    <3>2. l <= linesMade
      BY DEF CInv, TablesWhole
    <3> QED BY <3>1, <3>2
  <2> QED BY <1>2, <2>1, <2>2, <2>3 DEF CInv, TablesWhole
<1>5. ASSUME NEW u \in Sessions, txn'[u] # None PROVE Stage(txn'[u]) /\ Found(txn[u])'
  <2>1. CASE u = s
    BY <1>3, <1>5, <2>1
  <2>2. CASE u # s
    <3>1. PICK t \in Request : t = txn[u]
      BY <1>1, <1>3, <1>5, <2>2 DEF TypeOK
    <3>2. Stage(t) /\ Found(t)
      BY <1>3, <1>5, <2>2, <3>1 DEF CInv, RequestsSound, Idle
    <3>3. Found(t)'
      BY <1>1, <3>2, FoundStays
    <3> QED BY <1>3, <2>2, <3>1, <3>2, <3>3
  <2> QED BY <2>1, <2>2
<1>6. ASSUME NEW u \in Sessions, NEW w \in Sessions, txn'[u] # None, txn'[w] # None, u # w
      PROVE  Apart(txn'[u], txn'[w])
  BY <1>3, <1>6 DEF CInv, RequestsSound, Idle
<1>7. RequestsSound'
  BY <1>5, <1>6 DEF RequestsSound, Idle
<1> QED BY <1>1, <1>4, <1>7 DEF CInv

\* The same for a statement that changes nothing but the request.
LEMMA GoesOnSoundly ==
    ASSUME CartAssumption, NoneAssumption, CInv, UNCHANGED <<tables, ids, menu, overlap>>,
           NEW s \in Sessions, NEW r \in Request \cup {None}, txn' = [txn EXCEPT ![s] = r],
           r # None => /\ Stage(r) /\ Found(r)
                       /\ \A u \in Sessions : ~Idle(u) /\ u # s =>
                             Apart(r, txn[u]) /\ Apart(txn[u], r)
    PROVE  CInv'
<1>1. /\ cartsMade' = cartsMade /\ linesMade' = linesMade /\ size' = size /\ hidden' = hidden
      /\ UNCHANGED <<tables, overlap>>
  BY DEF ids, menu
<1>2. /\ cartsMade' \in 0..MaxCarts /\ linesMade' \in 0..MaxLines
      /\ cartsMade <= cartsMade' /\ linesMade <= linesMade'
      /\ size' \in [Sizes -> {"planned", "live", "deleted"}] /\ hidden' \subseteq Dishes
  BY <1>1 DEF CInv, TypeOK, CartAssumption
<1>3. TypeOK /\ TypeOK'
  BY <1>1 DEF CInv, TypeOK, tables
<1>4. r # None => Found(r)'
  BY <1>1, <1>2, <1>3, FoundStays
<1> QED BY <1>1, <1>2, <1>4, Advance

(***************************************************************************)
(* Requests that open                                                      *)
(***************************************************************************)
\* What the stages of a request have in common.
LEMMA StageFacts ==
    ASSUME NEW t, Stage(t)
    PROVE  /\ t.made => t.cart \in CartIds /\ t.step \in {"insert", "commit"}
           /\ t.made /\ t.step = "commit" => t.wrote = "insert"
           /\ t.wrote = "insert" => /\ t.step = "commit" /\ Choosing(t)
                                    /\ t.cart \in CartIds /\ t.line \in LineIds
           /\ t.wrote = "update" => /\ t.step = "commit" /\ Holding(t) /\ ~t.dropped /\ t.swept = {}
                                    /\ t.quantity \in 1..MaxQuantity
           /\ t.wrote = "delete" => /\ t.step \in {"count", "drop", "cascade", "commit"}
                                    /\ Holding(t)
           /\ t.wrote \in {"nothing", "insert", "update", "delete"}
           /\ t.dropped => /\ t.cart \in CartIds /\ ~t.made /\ t.step \in {"cascade", "commit"}
                           /\ t.wrote \in {"nothing", "delete"}
           /\ t.swept # {} => t.dropped /\ t.step = "commit"
           /\ t.priced # {} => /\ t.step \in {"clear", "drop", "cascade", "commit"}
                               /\ t.wrote = "nothing" /\ t.line = 0 /\ ~t.made
           /\ t.step = "commit" /\ t.wrote = "nothing" => t.priced # {}
BY DEF Stage, Choosing, Holding, Untouching

\* A request that has written nothing yet is apart from every other.
LEMMA NewcomerApart ==
    ASSUME CartAssumption, CInv, NEW s \in Sessions, NEW u \in Sessions, ~Idle(u), u # s,
           NEW r, r.wrote = "nothing", r.made = FALSE, r.dropped = FALSE, r.swept = {},
           r.cart = 0 \/ (r.cart \in CartIds /\ carts[r.cart] # None),
           r.line = 0 \/ (r.line \in LineIds /\ Live(r.line)),
           \A l \in r.priced : Live(l)
    PROVE  Apart(r, txn[u]) /\ Apart(txn[u], r)
<1>1. PICK t : t = txn[u] /\ Stage(t) /\ Found(t)
  BY DEF CInv, RequestsSound
<1>2. t.made => t.cart # r.cart
  BY <1>1, StageFacts, IdsArePositive DEF Found
<1>3. t.wrote = "insert" => t.line # r.line /\ t.line \notin r.priced
  BY <1>1, StageFacts, IdsArePositive DEF Found
<1>4. Locked(r) = {}
  BY DEF Locked
<1> QED BY <1>1, <1>2, <1>3, <1>4 DEF Apart

\* A committed line, as the tables' invariant describes it.
LEMMA LineFacts ==
    ASSUME CartAssumption, CInv, NEW l \in LineIds, Live(l)
    PROVE  /\ lines[l] \in Line /\ lines[l].cart \in CartIds /\ lines[l].choice \in Choice
           /\ lines[l].quantity \in 1..MaxQuantity
           /\ carts[lines[l].cart] = Seller[DishOf(lines[l].choice)]
           /\ carts[lines[l].cart] # None
           /\ lines[l].cart <= cartsMade /\ l <= linesMade
           /\ lines[l].cart = CurrentCart
<1>1. lines[l] \in Line
  BY DEF CInv, TypeOK, Live
<1>2. /\ lines[l].cart \in CartIds /\ lines[l].choice \in Choice
      /\ lines[l].quantity \in 1..MaxQuantity
  BY <1>1 DEF Line
<1>3. carts[lines[l].cart] = Seller[DishOf(lines[l].choice)] /\ l <= linesMade
  BY DEF CInv, TablesWhole
<1>4. Seller[DishOf(lines[l].choice)] \in Restaurants
  BY <1>2 DEF Choice, DishOf, CartAssumption
<1>5. carts[lines[l].cart] # None
  BY <1>3, <1>4 DEF CartAssumption
<1>6. lines[l].cart <= cartsMade
  BY <1>2, <1>5 DEF CInv, TablesWhole
<1>7. lines[l].cart = CurrentCart
  BY <1>2, <1>5, CurrentIs DEF CInv, TablesWhole
<1> QED BY <1>1, <1>2, <1>3, <1>5, <1>6, <1>7

\* Changing or removing a line of the cart.
LEMMA ChangeLineStep ==
    ASSUME CartAssumption, NoneAssumption, CInv, NEW s \in Sessions, NEW l \in LineIds,
           Live(l), NEW q, ChangeLine(s, l, lines[l].choice, q),
           UNCHANGED <<tables, ids, menu, overlap>>
    PROVE  CInv'
<1> DEFINE c == lines[l].choice
           d == [NewRequest EXCEPT !.step = "delete", !.cart = lines[l].cart,
                                   !.line = l, !.choice = c]
           m == [NewRequest EXCEPT !.step = "update", !.cart = lines[l].cart,
                                   !.line = l, !.choice = c, !.quantity = q]
<1>0. TypeOK /\ l \in 0..MaxLines /\ lines[l].cart \in 0..MaxCarts
  BY LineFacts, IdsArePositive DEF CInv
<1>1. PICK r : /\ txn' = [txn EXCEPT ![s] = r]
               /\ \/ r = d
                  \/ r = m /\ q \in 1..MaxQuantity
  BY DEF ChangeLine, GoesOn
<1>2. /\ r.cart = lines[l].cart /\ r.line = l /\ r.choice = c /\ r.wrote = "nothing"
      /\ r.made = FALSE /\ r.dropped = FALSE /\ r.swept = {} /\ r.priced = {}
      /\ r.step = "delete" \/ (r.step = "update" /\ r.quantity = q /\ q \in 1..MaxQuantity)
  BY <1>1 DEF NewRequest
<1>3. r \in Request
  <2>1. c \in Choice /\ 0 \in 0..MaxQuantity /\ 1..MaxQuantity \subseteq 0..MaxQuantity
    BY LineFacts DEF CartAssumption
  <2>2. PICK k : k = lines[l].cart /\ k \in 0..MaxCarts
    BY <1>0
  <2> HIDE DEF c
  <2>3. d \in Request
    BY <1>0, <2>1, <2>2 DEF NewRequest, Request
  <2>4. q \in 1..MaxQuantity => m \in Request
    BY <1>0, <2>1, <2>2 DEF NewRequest, Request
  <2> QED BY <1>1, <2>3, <2>4
<1> HIDE DEF c, d, m
<1>4. Stage(r)
  BY <1>2, LineFacts DEF Stage, Holding, c
<1>5. Found(r)
  BY <1>2, LineFacts DEF Found, c
<1>6. \A u \in Sessions : ~Idle(u) /\ u # s => Apart(r, txn[u]) /\ Apart(txn[u], r)
  BY <1>2, LineFacts, NewcomerApart
<1> QED BY <1>1, <1>3, <1>4, <1>5, <1>6, GoesOnSoundly

\* POST /cart/items.
LEMMA ModifyItemStep ==
    ASSUME CartAssumption, NoneAssumption, CInv, NEW s \in Sessions, NEW c \in Choice,
           NEW q \in 0..MaxQuantity, NEW add \in BOOLEAN, ModifyItem(s, c, q, add)
    PROVE  CInv'
<1> DEFINE cart == CurrentCart
           line == LineWith(cart, c)
           n == [NewRequest EXCEPT !.step = "cart", !.choice = c, !.quantity = q]
           m == [NewRequest EXCEPT !.step = "insert", !.cart = cart, !.choice = c, !.quantity = q]
<1>0. UNCHANGED <<tables, ids, menu, overlap>>
  BY DEF ModifyItem
<1>1. CASE cart = 0 /\ q > 0 /\ GoesOn(s, n)
  <2>1. PICK r : r = n
    OBVIOUS
  <2>2. /\ r.step = "cart" /\ r.cart = 0 /\ r.line = 0 /\ r.choice = c /\ r.quantity = q
        /\ r.wrote = "nothing" /\ r.made = FALSE /\ r.dropped = FALSE
        /\ r.swept = {} /\ r.priced = {}
    BY <2>1 DEF NewRequest
  <2>3. r \in Request
    <3>1. 0 \in 0..MaxCarts /\ 0 \in 0..MaxLines
      BY DEF CartAssumption
    <3> QED BY <2>1, <3>1 DEF NewRequest, Request
  <2>4. txn' = [txn EXCEPT ![s] = r]
    BY <1>1, <2>1 DEF GoesOn
  <2>5. Stage(r) /\ Found(r)
    <3>1. 0 <= cartsMade /\ 0 <= linesMade
      BY DEF CInv, TypeOK, CartAssumption
    <3>2. q \in 1..MaxQuantity
      BY <1>1 DEF CartAssumption
    <3> QED BY <2>2, <3>1, <3>2 DEF Stage, Found, Choosing, Untouching
  <2>6. \A u \in Sessions : ~Idle(u) /\ u # s => Apart(r, txn[u]) /\ Apart(txn[u], r)
    BY <2>2, NewcomerApart
  <2> QED BY <1>0, <2>3, <2>4, <2>5, <2>6, GoesOnSoundly
<1>2. CASE cart # 0 /\ carts[cart] = Seller[DishOf(c)] /\ q > 0 /\ GoesOn(s, m)
  <2>1. PICK r : r = m
    OBVIOUS
  <2>2. /\ r.step = "insert" /\ r.cart = cart /\ r.line = 0 /\ r.choice = c /\ r.quantity = q
        /\ r.wrote = "nothing" /\ r.made = FALSE /\ r.dropped = FALSE
        /\ r.swept = {} /\ r.priced = {}
    BY <2>1 DEF NewRequest
  <2>3. cart \in CartIds /\ carts[cart] # None
    BY <1>2, CurrentIs
  <2>4. r \in Request
    <3>1. cart \in 0..MaxCarts /\ 0 \in 0..MaxLines
      BY <2>3, IdsArePositive DEF CartAssumption
    <3> HIDE DEF cart
    <3> QED BY <2>1, <3>1 DEF NewRequest, Request
  <2>5. txn' = [txn EXCEPT ![s] = r]
    BY <1>2, <2>1 DEF GoesOn
  <2>6. Stage(r) /\ Found(r)
    <3>1. cart <= cartsMade /\ 0 <= linesMade
      BY <2>3 DEF CInv, TablesWhole, TypeOK, CartAssumption
    <3>2. q \in 1..MaxQuantity
      BY <1>2 DEF CartAssumption
    <3>3. carts[r.cart] = Seller[DishOf(r.choice)]
      BY <1>2, <2>2
    <3> HIDE DEF cart
    <3> QED BY <2>2, <2>3, <3>1, <3>2, <3>3 DEF Stage, Found, Choosing, Untouching
  <2>7. \A u \in Sessions : ~Idle(u) /\ u # s => Apart(r, txn[u]) /\ Apart(txn[u], r)
    BY <2>2, <2>3, NewcomerApart
  <2> QED BY <1>0, <2>4, <2>5, <2>6, <2>7, GoesOnSoundly
<1>3. CASE /\ line # 0
           /\ ChangeLine(s, line, c, IF add THEN lines[line].quantity + q ELSE q)
  <2>1. line \in LineIds /\ Live(line) /\ lines[line].choice = c
    BY <1>3, LineIs DEF LinesOf
  <2> HIDE DEF line
  <2> QED BY <1>0, <1>3, <2>1, ChangeLineStep
<1> QED BY <1>1, <1>2, <1>3 DEF ModifyItem

\* PATCH and DELETE /cart/items/{line_id}, and the lines an order has read.
LEMMA UpdateLineStep ==
    ASSUME CartAssumption, NoneAssumption, CInv, NEW s \in Sessions, NEW l \in LineIds,
           NEW q \in 0..MaxQuantity, UpdateLine(s, l, q)
    PROVE  CInv'
BY ChangeLineStep DEF UpdateLine

LEMMA PriceCartStep ==
    ASSUME CartAssumption, NoneAssumption, CInv, NEW s \in Sessions, PriceCart(s)
    PROVE  CInv'
<1> DEFINE m == [NewRequest EXCEPT !.step = "clear", !.priced = Priced]
<1>1. PICK r : r = m
  OBVIOUS
<1>2. /\ r.step = "clear" /\ r.cart = 0 /\ r.line = 0 /\ r.wrote = "nothing" /\ r.made = FALSE
      /\ r.dropped = FALSE /\ r.swept = {} /\ r.priced = Priced
  BY <1>1 DEF NewRequest
<1>3. Priced \subseteq LineIds /\ \A l \in Priced : Live(l)
  BY DEF Priced, LinesOf
<1>4. r \in Request
  <2> HIDE DEF m
  <2>1. 0 \in 0..MaxQuantity /\ 0 \in 0..MaxCarts /\ 0 \in 0..MaxLines
    BY DEF CartAssumption
  <2> QED BY <1>1, <1>3, <2>1 DEF NewRequest, Request, m
<1>5. Stage(r)
  BY <1>2 DEF PriceCart, Stage, Untouching
<1>6. Found(r)
  <2>1. 0 <= cartsMade /\ 0 <= linesMade
    BY DEF CInv, TypeOK, CartAssumption
  <2> QED BY <1>2, <1>3, <2>1, LineFacts DEF Found
<1>7. \A u \in Sessions : ~Idle(u) /\ u # s => Apart(r, txn[u]) /\ Apart(txn[u], r)
  BY <1>2, <1>3, NewcomerApart
<1>8. UNCHANGED <<tables, ids, menu, overlap>> /\ txn' = [txn EXCEPT ![s] = r]
  BY <1>1 DEF PriceCart, GoesOn
<1> QED BY <1>4, <1>5, <1>6, <1>7, <1>8, GoesOnSoundly

(***************************************************************************)
(* The statements of a request                                             *)
(***************************************************************************)
\* An open request.
LEMMA OpenFacts ==
    ASSUME CInv, NEW s \in Sessions, ~Idle(s)
    PROVE  txn[s] \in Request /\ Stage(txn[s]) /\ Found(txn[s])
BY DEF CInv, TypeOK, RequestsSound, Idle

LEMMA OpenApart ==
    ASSUME CInv, NEW s \in Sessions, NEW u \in Sessions, ~Idle(s), ~Idle(u), s # u
    PROVE  Apart(txn[s], txn[u])
BY DEF CInv, RequestsSound

LEMMA EndStep ==
    ASSUME CartAssumption, NoneAssumption, CInv, NEW s \in Sessions, Dies(s),
           UNCHANGED <<tables, ids, menu, overlap>>
    PROVE  CInv'
BY GoesOnSoundly DEF Dies

\* INSERT INTO carts waits for another uncommitted cart, and for one being deleted.
LEMMA MakeCartStep ==
    ASSUME CartAssumption, NoneAssumption, CInv, NEW s \in Sessions, MakeCart(s)
    PROVE  CInv'
<1>1. CASE Dies(s) /\ UNCHANGED cartsMade
  BY <1>1, EndStep DEF MakeCart, ids
<1>2. CASE /\ CurrentCart = 0 /\ cartsMade < MaxCarts /\ cartsMade' = cartsMade + 1
           /\ GoesOn(s, [txn[s] EXCEPT !.step = "insert", !.cart = cartsMade + 1, !.made = TRUE])
  <2>1. PICK t \in Request : t = txn[s] /\ ~Idle(s) /\ t.step = "cart" /\ Stage(t) /\ Found(t)
    BY OpenFacts DEF MakeCart, Turn, At
  <2>2. PICK r : r = [t EXCEPT !.step = "insert", !.cart = cartsMade + 1, !.made = TRUE]
    OBVIOUS
  <2>3. cartsMade \in Nat /\ MaxCarts \in Nat /\ cartsMade + 1 \in CartIds
        /\ cartsMade + 1 \in 0..MaxCarts /\ cartsMade <= cartsMade + 1
    BY <1>2 DEF CInv, TypeOK, CartAssumption, CartIds
  <2>4. r \in Request
    BY <2>1, <2>2, <2>3 DEF Request
  <2>5. /\ r.step = "insert" /\ r.cart = cartsMade + 1 /\ r.made = TRUE /\ r.choice = t.choice
        /\ r.quantity = t.quantity /\ r.line = t.line /\ r.wrote = t.wrote
        /\ r.dropped = t.dropped /\ r.swept = t.swept /\ r.priced = t.priced
    BY <2>1, <2>2 DEF Request
  <2>6. /\ t.wrote = "nothing" /\ t.line = 0 /\ ~t.dropped /\ t.swept = {} /\ t.priced = {}
        /\ Choosing(t)
    BY <2>1 DEF Stage, Choosing, Untouching
  <2>7. Stage(r)
    BY <2>3, <2>5, <2>6 DEF Stage, Choosing, Untouching
  <2>8. \A c \in CartIds : carts[c] = None
    BY <1>2, CurrentIs, IdsArePositive
  <2>9. /\ UNCHANGED <<tables, overlap>> /\ cartsMade' = cartsMade + 1 /\ linesMade' = linesMade
        /\ size' = size /\ hidden' = hidden /\ 0 <= linesMade /\ linesMade \in 0..MaxLines
        /\ linesMade <= linesMade
    BY <1>2 DEF MakeCart, menu, CInv, TypeOK, CartAssumption
  <2>10. Found(r)'
    <3>1. carts' = carts /\ \A c \in CartIds : carts'[c] = None
      BY <2>8, <2>9 DEF tables
    <3>2. r.cart <= cartsMade' /\ r.line <= linesMade' /\ r.swept = {} /\ r.priced = {}
      BY <2>3, <2>5, <2>6, <2>9
    <3> QED BY <2>5, <2>6, <3>1, <3>2 DEF Found
  <2>11. ASSUME NEW u \in Sessions, ~Idle(u), u # s PROVE Apart(r, txn[u]) /\ Apart(txn[u], r)
    <3>1. PICK w \in Request : w = txn[u] /\ Stage(w) /\ Found(w)
      BY <2>11, OpenFacts
    <3>2. ~w.made /\ ~w.dropped
      <4>1. UserHolders(s) = {}
        BY DEF MakeCart, Turn, WaitsFor, At
      <4> QED BY <2>11, <3>1, <4>1 DEF UserHolders, Others
    <3>3. w.cart # r.cart
      <4>1. w.cart <= cartsMade /\ w.cart \in Nat
        BY <3>1 DEF Found, Request, CartAssumption
      <4> QED BY <2>3, <2>5, <4>1
    <3>4. Locked(r) = {} /\ w.line \notin r.swept \cup r.priced
      BY <2>5, <2>6 DEF Locked
    <3>5. w.wrote = "insert" => w.line # r.line
      BY <2>5, <2>6, <3>1, StageFacts, IdsArePositive
    <3> QED BY <2>5, <2>6, <3>1, <3>2, <3>3, <3>4, <3>5 DEF Apart
  <2>12. txn' = [txn EXCEPT ![s] = r]
    BY <1>2, <2>1, <2>2 DEF GoesOn
  <2>13. /\ size' \in [Sizes -> {"planned", "live", "deleted"}] /\ hidden' \subseteq Dishes
         /\ cartsMade' \in 0..MaxCarts /\ linesMade' \in 0..MaxLines
         /\ cartsMade <= cartsMade' /\ linesMade <= linesMade'
    BY <2>3, <2>9 DEF CInv, TypeOK
  <2> QED BY <2>4, <2>7, <2>9, <2>10, <2>11, <2>12, <2>13, Advance
<1> QED BY <1>1, <1>2 DEF MakeCart

\* INSERT INTO cart_items waits for the deletion of its cart and for the same choice.
LEMMA InsertLineStep ==
    ASSUME CartAssumption, NoneAssumption, CInv, NEW s \in Sessions, InsertLine(s)
    PROVE  CInv'
<1>1. CASE Dies(s) /\ UNCHANGED linesMade
  BY <1>1, EndStep DEF InsertLine, ids
<1>2. CASE /\ ~LineRefused(txn[s]) /\ linesMade < MaxLines /\ linesMade' = linesMade + 1
           /\ GoesOn(s, [txn[s] EXCEPT !.step = "commit", !.wrote = "insert",
                                       !.line = linesMade + 1])
  <2>1. PICK t \in Request : t = txn[s] /\ ~Idle(s) /\ t.step = "insert" /\ Stage(t) /\ Found(t)
    BY OpenFacts DEF InsertLine, Turn, At
  <2>2. PICK r : r = [t EXCEPT !.step = "commit", !.wrote = "insert", !.line = linesMade + 1]
    OBVIOUS
  <2>3. linesMade \in Nat /\ MaxLines \in Nat /\ linesMade + 1 \in LineIds
        /\ linesMade + 1 \in 0..MaxLines /\ linesMade <= linesMade + 1
    BY <1>2 DEF CInv, TypeOK, CartAssumption, LineIds
  <2>4. r \in Request
    BY <2>1, <2>2, <2>3 DEF Request
  <2>5. /\ r.step = "commit" /\ r.wrote = "insert" /\ r.line = linesMade + 1
        /\ r.cart = t.cart /\ r.made = t.made /\ r.choice = t.choice
        /\ r.quantity = t.quantity
        /\ r.dropped = t.dropped /\ r.swept = t.swept /\ r.priced = t.priced
    BY <2>1, <2>2 DEF Request
  <2>6. /\ t.wrote = "nothing" /\ t.line = 0 /\ ~t.dropped /\ t.swept = {} /\ t.priced = {}
        /\ Choosing(t) /\ t.cart \in CartIds
    BY <2>1 DEF Stage, Choosing, Untouching
  <2>7. Stage(r)
    BY <2>3, <2>5, <2>6 DEF Stage, Choosing, Untouching
  <2>8. /\ ~t.made => carts[t.cart] # None
        /\ \A l \in LinesOf(t.cart) : lines[l].choice # t.choice
    <3>1. (t.made \/ carts[t.cart] # None) /\ LineWith(t.cart, t.choice) = 0
      BY <1>2, <2>1 DEF LineRefused
    <3>2. 0 \notin LinesOf(t.cart)
      BY IdsArePositive DEF LinesOf
    <3> QED BY <3>1, <3>2, LineIs
  <2>9. /\ UNCHANGED <<tables, overlap>> /\ linesMade' = linesMade + 1 /\ cartsMade' = cartsMade
        /\ size' = size /\ hidden' = hidden /\ cartsMade \in 0..MaxCarts /\ cartsMade <= cartsMade
    BY <1>2 DEF InsertLine, menu, CInv, TypeOK, CartAssumption
  <2>10. ~Live(linesMade + 1)
    BY <2>3 DEF CInv, TablesWhole
  <2>11. Found(r)'
    <3>1. carts' = carts /\ lines' = lines
      BY <2>9 DEF tables
    <3>2. (\A l : Live(l)' = Live(l)) /\ (\A c : LinesOf(c)' = LinesOf(c))
      BY <3>1 DEF Live, LinesOf
    <3>3. r.cart <= cartsMade' /\ r.line <= linesMade' /\ r.swept = {} /\ r.priced = {}
      BY <2>1, <2>3, <2>5, <2>6, <2>9 DEF Found
    <3>4. r.made => \A c \in CartIds : carts'[c] = None
      BY <2>1, <2>5, <3>1 DEF Found
    <3>5. ~r.made => carts'[r.cart] = Seller[DishOf(r.choice)]
      BY <2>1, <2>5, <2>8, <3>1 DEF Found
    <3>6. ~Live(r.line)' /\ \A l \in LinesOf(r.cart)' : lines'[l].choice # r.choice
      BY <2>5, <2>8, <2>10, <3>1, <3>2
    <3>7. r.dropped = FALSE
      BY <2>4, <2>5, <2>6 DEF Request
    <3> QED BY <2>5, <3>3, <3>4, <3>5, <3>6, <3>7 DEF Found
  <2>12. ASSUME NEW u \in Sessions, ~Idle(u), u # s PROVE Apart(r, txn[u]) /\ Apart(txn[u], r)
    <3>1. PICK w \in Request : w = txn[u] /\ Stage(w) /\ Found(w) /\ Apart(t, w) /\ Apart(w, t)
      BY <2>1, <2>12, OpenFacts, OpenApart
    <3>2. /\ w.dropped => w.cart # t.cart
          /\ w.wrote = "insert" /\ w.cart = t.cart => w.choice # t.choice
      <4>1. CartDeleters(s, t.cart) = {} /\ ChoiceHolders(s) = {}
        BY <2>1 DEF InsertLine, Turn, WaitsFor, At
      <4> QED BY <2>1, <2>12, <3>1, <4>1 DEF CartDeleters, ChoiceHolders, Others
    <3>3. w.line # r.line /\ r.line \notin w.swept \cup w.priced
      <4>1. w.line <= linesMade /\ w.line \in Nat /\ \A l \in w.swept \cup w.priced : l <= linesMade
        BY <3>1 DEF Found, Request, CartAssumption
      <4> QED BY <2>3, <2>5, <4>1
    <3>4. Locked(r) = {} /\ r.swept = {} /\ r.priced = {}
      BY <2>5, <2>6 DEF Locked
    <3> QED BY <2>5, <2>6, <3>1, <3>2, <3>3, <3>4 DEF Apart
  <2>13. txn' = [txn EXCEPT ![s] = r]
    BY <1>2, <2>1, <2>2 DEF GoesOn
  <2>14. /\ size' \in [Sizes -> {"planned", "live", "deleted"}] /\ hidden' \subseteq Dishes
         /\ cartsMade' \in 0..MaxCarts /\ linesMade' \in 0..MaxLines
         /\ cartsMade <= cartsMade' /\ linesMade <= linesMade'
    BY <2>3, <2>9 DEF CInv, TypeOK
  <2> QED BY <2>4, <2>7, <2>9, <2>11, <2>12, <2>13, <2>14, Advance
<1> QED BY <1>1, <1>2 DEF InsertLine

\* UPDATE and DELETE lock the line.
LEMMA SetQuantityStep ==
    ASSUME CartAssumption, NoneAssumption, CInv, NEW s \in Sessions, SetQuantity(s)
    PROVE  CInv'
<1>1. CASE Dies(s)
  BY <1>1, EndStep DEF SetQuantity
<1>2. CASE /\ Live(txn[s].line)
           /\ GoesOn(s, [txn[s] EXCEPT !.step = "commit", !.wrote = "update"])
  <2>1. PICK t \in Request : t = txn[s] /\ ~Idle(s) /\ t.step = "update" /\ Stage(t) /\ Found(t)
    BY OpenFacts DEF SetQuantity, Turn, At
  <2>2. PICK r : r = [t EXCEPT !.step = "commit", !.wrote = "update"]
    OBVIOUS
  <2>3. r \in Request
    BY <2>1, <2>2 DEF Request
  <2>4. /\ r.step = "commit" /\ r.wrote = "update" /\ r.line = t.line
        /\ r.cart = t.cart /\ r.made = t.made /\ r.choice = t.choice
        /\ r.quantity = t.quantity
        /\ r.dropped = t.dropped /\ r.swept = t.swept /\ r.priced = t.priced
    BY <2>1, <2>2 DEF Request
  <2>5. /\ Holding(t) /\ t.quantity \in 1..MaxQuantity /\ t.wrote = "nothing" /\ ~t.dropped
        /\ t.swept = {} /\ t.priced = {} /\ ~t.made
    BY <2>1 DEF Stage, Holding
  <2>6. Stage(r)
    BY <2>4, <2>5 DEF Stage, Holding
  <2>7. Found(r)
    BY <1>2, <2>1, <2>4, <2>5 DEF Found
  <2>8. ASSUME NEW u \in Sessions, ~Idle(u), u # s PROVE Apart(r, txn[u]) /\ Apart(txn[u], r)
    <3>1. PICK w \in Request : w = txn[u] /\ Stage(w) /\ Found(w) /\ Apart(t, w) /\ Apart(w, t)
      BY <2>1, <2>8, OpenFacts, OpenApart
    <3>2. t.line \notin Locked(w)
      <4>1. LineHolders(s, {t.line}) = {}
        BY <2>1 DEF SetQuantity, Turn, WaitsFor, At
      <4> QED BY <2>1, <2>8, <3>1, <4>1 DEF LineHolders, LockedLines, Locked, Others
    <3>3. Locked(r) = {t.line}
      BY <2>4, <2>5 DEF Locked
    <3> QED BY <2>4, <2>5, <3>1, <3>2, <3>3 DEF Apart
  <2>9. txn' = [txn EXCEPT ![s] = r]
    BY <1>2, <2>1, <2>2 DEF GoesOn
  <2>10. UNCHANGED <<tables, ids, menu, overlap>>
    BY DEF SetQuantity
  <2> QED BY <2>3, <2>6, <2>7, <2>8, <2>9, <2>10, GoesOnSoundly
<1> QED BY <1>1, <1>2 DEF SetQuantity

LEMMA DeleteLineStep ==
    ASSUME CartAssumption, NoneAssumption, CInv, NEW s \in Sessions, DeleteLine(s)
    PROVE  CInv'
<1>1. PICK t \in Request : t = txn[s] /\ ~Idle(s) /\ t.step = "delete" /\ Stage(t) /\ Found(t)
  BY OpenFacts DEF DeleteLine, Turn, At
<1>2. PICK r : r = [t EXCEPT !.step = "count", !.wrote = "delete"]
  OBVIOUS
<1>3. r \in Request
  BY <1>1, <1>2 DEF Request
<1>4. /\ r.step = "count" /\ r.wrote = "delete" /\ r.line = t.line
      /\ r.cart = t.cart /\ r.made = t.made /\ r.choice = t.choice
      /\ r.quantity = t.quantity
      /\ r.dropped = t.dropped /\ r.swept = t.swept /\ r.priced = t.priced
  BY <1>1, <1>2 DEF Request
<1>5. /\ Holding(t) /\ t.wrote = "nothing" /\ ~t.dropped
      /\ t.swept = {} /\ t.priced = {} /\ ~t.made
  BY <1>1 DEF Stage, Holding
<1>6. Stage(r)
  BY <1>4, <1>5 DEF Stage, Holding
<1>7. Found(r)
  BY <1>1, <1>4, <1>5 DEF Found
<1>8. ASSUME NEW u \in Sessions, ~Idle(u), u # s PROVE Apart(r, txn[u]) /\ Apart(txn[u], r)
  <2>1. PICK w \in Request : w = txn[u] /\ Stage(w) /\ Found(w) /\ Apart(t, w) /\ Apart(w, t)
    BY <1>1, <1>8, OpenFacts, OpenApart
  <2>2. t.line \notin Locked(w)
    <3>1. LineHolders(s, {t.line}) = {}
      BY <1>1 DEF DeleteLine, Turn, WaitsFor, At
    <3> QED BY <1>1, <1>8, <2>1, <3>1 DEF LineHolders, LockedLines, Locked, Others
  <2>3. Locked(r) = {t.line}
    BY <1>4, <1>5 DEF Locked
  <2> QED BY <1>4, <1>5, <2>1, <2>2, <2>3 DEF Apart
<1>9. txn' = [txn EXCEPT ![s] = r] /\ UNCHANGED <<tables, ids, menu, overlap>>
  BY <1>1, <1>2 DEF DeleteLine, GoesOn
<1> QED BY <1>3, <1>6, <1>7, <1>8, <1>9, GoesOnSoundly

\* SELECT COUNT decides whether the cart goes too.
LEMMA CountRemainingStep ==
    ASSUME CartAssumption, NoneAssumption, CInv, NEW s \in Sessions, CountRemaining(s)
    PROVE  CInv'
<1>1. PICK t \in Request : t = txn[s] /\ ~Idle(s) /\ t.step = "count" /\ Stage(t) /\ Found(t)
  BY OpenFacts DEF CountRemaining, Turn, At
<1>2. PICK step \in {"drop", "commit"} :
         GoesOn(s, [txn[s] EXCEPT !.step = step])
  BY DEF CountRemaining
<1>3. PICK r : r = [t EXCEPT !.step = step]
  OBVIOUS
<1>4. r \in Request
  BY <1>1, <1>2, <1>3 DEF Request
<1>5. /\ r.step = step /\ r.wrote = t.wrote /\ r.line = t.line
      /\ r.cart = t.cart /\ r.made = t.made /\ r.choice = t.choice
      /\ r.quantity = t.quantity
      /\ r.dropped = t.dropped /\ r.swept = t.swept /\ r.priced = t.priced
  BY <1>1, <1>3 DEF Request
<1>6. /\ Holding(t) /\ t.wrote = "delete" /\ t.dropped = FALSE
      /\ t.swept = {} /\ t.priced = {} /\ ~t.made /\ t.cart \in CartIds
  BY <1>1 DEF Stage, Holding, Request
<1>7. Stage(r)
  <2>1. Holding(r)
    BY <1>5, <1>6 DEF Holding
  <2>2. CASE step = "drop"
    BY <1>5, <1>6, <2>1, <2>2 DEF Stage
  <2>3. CASE step = "commit"
    BY <1>5, <1>6, <2>1, <2>3 DEF Stage
  <2> QED BY <1>2, <2>2, <2>3
<1>8. Found(r)
  BY <1>1, <1>2, <1>5, <1>6 DEF Found
<1>9. ASSUME NEW u \in Sessions, ~Idle(u), u # s PROVE Apart(r, txn[u]) /\ Apart(txn[u], r)
  <2>1. PICK w \in Request : w = txn[u] /\ Apart(t, w) /\ Apart(w, t)
    BY <1>1, <1>9, OpenFacts, OpenApart
  <2>2. Locked(r) = Locked(t)
    BY <1>5 DEF Locked
  <2> QED BY <1>5, <2>1, <2>2 DEF Apart
<1>10. txn' = [txn EXCEPT ![s] = r] /\ UNCHANGED <<tables, ids, menu, overlap>>
  BY <1>1, <1>2, <1>3 DEF CountRemaining, GoesOn
<1> QED BY <1>4, <1>7, <1>8, <1>9, <1>10, GoesOnSoundly

\* The order goes for the cart there is now: the lines it priced are gone, or in it.
LEMMA ClearCartStep ==
    ASSUME CartAssumption, NoneAssumption, CInv, NEW s \in Sessions, ClearCart(s)
    PROVE  CInv'
<1>1. PICK t \in Request : t = txn[s] /\ ~Idle(s) /\ t.step = "clear" /\ Stage(t) /\ Found(t)
  BY OpenFacts DEF ClearCart, Turn, At
<1>2. PICK cart, step : /\ cart = CurrentCart
                        /\ step = IF cart = 0 THEN "commit" ELSE "drop"
                        /\ GoesOn(s, [txn[s] EXCEPT !.cart = cart, !.step = step])
  BY DEF ClearCart
<1>3. \/ cart = 0 /\ \A c \in CartIds : carts[c] = None
      \/ cart \in CartIds /\ carts[cart] # None
  BY <1>2, CurrentIs
<1>4. PICK r : r = [t EXCEPT !.cart = cart, !.step = step]
  OBVIOUS
<1>5. r \in Request
  <2>1. cart \in 0..MaxCarts /\ step \in {"commit", "drop"}
    BY <1>2, <1>3, IdsArePositive DEF CartAssumption
  <2> QED BY <1>1, <1>4, <2>1 DEF Request
<1>6. /\ r.step = step /\ r.wrote = t.wrote /\ r.line = t.line
      /\ r.cart = cart /\ r.made = t.made /\ r.choice = t.choice
      /\ r.quantity = t.quantity
      /\ r.dropped = t.dropped /\ r.swept = t.swept /\ r.priced = t.priced
  BY <1>1, <1>4 DEF Request
<1>7. /\ Untouching(t) /\ t.priced # {} /\ ~t.made /\ t.dropped = FALSE /\ t.swept = {}
      /\ t.wrote = "nothing" /\ t.line = 0
  BY <1>1 DEF Stage, Untouching, Request
<1>8. Stage(r)
  <2>1. Untouching(r)
    BY <1>6, <1>7 DEF Untouching
  <2>2. CASE step = "drop"
    BY <1>2, <1>3, <1>6, <1>7, <2>1, <2>2 DEF Stage
  <2>3. CASE step = "commit"
    BY <1>6, <1>7, <2>1, <2>3 DEF Stage
  <2> QED BY <1>2, <2>2, <2>3
<1>9. Found(r)
  <2>1. cart <= cartsMade
    BY <1>3 DEF CInv, TablesWhole, TypeOK, CartAssumption
  <2>2. \A l \in r.priced : Live(l) => lines[l].cart = cart
    BY <1>1, <1>2, <1>5, LineFacts DEF Request
  <2>3. step = "commit" => \A l \in r.priced : ~Live(l)
    BY <1>1, <1>2, <1>3, <1>5, LineFacts, IdsArePositive DEF Request
  <2> QED BY <1>1, <1>2, <1>6, <1>7, <2>1, <2>2, <2>3 DEF Found
<1>10. ASSUME NEW u \in Sessions, ~Idle(u), u # s PROVE Apart(r, txn[u]) /\ Apart(txn[u], r)
  <2>1. PICK w \in Request : w = txn[u] /\ Stage(w) /\ Found(w) /\ Apart(t, w) /\ Apart(w, t)
    BY <1>1, <1>10, OpenFacts, OpenApart
  <2>2. Locked(r) = Locked(t)
    BY <1>6 DEF Locked
  <2>3. w.made => w.cart # cart
    BY <1>3, <2>1, StageFacts, IdsArePositive DEF Found
  <2> QED BY <1>6, <1>7, <2>1, <2>2, <2>3 DEF Apart
<1>11. txn' = [txn EXCEPT ![s] = r] /\ UNCHANGED <<tables, ids, menu, overlap>>
  BY <1>1, <1>2, <1>4 DEF ClearCart, GoesOn
<1> QED BY <1>5, <1>8, <1>9, <1>10, <1>11, GoesOnSoundly

\* DELETE FROM carts waits for the new lines of the cart, and for another deletion.
LEMMA DropCartStep ==
    ASSUME CartAssumption, NoneAssumption, CInv, NEW s \in Sessions, DropCart(s)
    PROVE  CInv'
<1>1. PICK t \in Request : t = txn[s] /\ ~Idle(s) /\ t.step = "drop" /\ Stage(t) /\ Found(t)
  BY OpenFacts DEF DropCart, Turn, At
<1>2. PICK r : r = IF carts[t.cart] = None THEN [t EXCEPT !.step = "commit"]
                   ELSE [t EXCEPT !.step = "cascade", !.dropped = TRUE]
  OBVIOUS
<1>3. r \in Request
  BY <1>1, <1>2 DEF Request
<1>4. /\ r.wrote = t.wrote /\ r.line = t.line
      /\ r.cart = t.cart /\ r.made = t.made /\ r.choice = t.choice
      /\ r.quantity = t.quantity /\ r.swept = t.swept /\ r.priced = t.priced
  BY <1>1, <1>2 DEF Request
<1>5. /\ t.cart \in CartIds /\ t.made = FALSE /\ t.swept = {} /\ t.dropped = FALSE
      /\ (Holding(t) /\ t.wrote = "delete") \/ (Untouching(t) /\ t.priced # {})
  BY <1>1 DEF Stage, Request
<1>6. \/ carts[t.cart] = None /\ r.step = "commit" /\ r.dropped = FALSE
      \/ carts[t.cart] # None /\ r.step = "cascade" /\ r.dropped = TRUE
  BY <1>1, <1>2, <1>5 DEF Request
<1>7. Stage(r)
  <2>1. (Holding(r) /\ r.wrote = "delete") \/ (Untouching(r) /\ r.priced # {})
    BY <1>4, <1>5 DEF Holding, Untouching
  <2>2. r.made = FALSE /\ r.cart \in CartIds /\ r.swept = {}
    BY <1>4, <1>5
  <2> QED BY <1>6, <2>1, <2>2 DEF Stage
<1>8. Found(r)
  <2>1. r.step = "commit" => \A l \in r.priced : ~Live(l)
    BY <1>1, <1>3, <1>4, <1>6, LineFacts DEF Found, Request
  <2>2. r.wrote # "insert" /\ r.wrote # "update"
    BY <1>4, <1>5 DEF Untouching
  <2>3. /\ r.cart <= cartsMade /\ r.line <= linesMade
        /\ \A l \in r.swept \cup r.priced : l <= linesMade
    BY <1>1, <1>4 DEF Found
  <2>4. r.wrote = "delete" => (Live(r.line) => /\ lines[r.line].cart = r.cart
                                               /\ lines[r.line].choice = r.choice)
    BY <1>1, <1>4 DEF Found
  <2>5. \A l \in r.priced : Live(l) => lines[l].cart = r.cart
    BY <1>1, <1>4 DEF Found
  <2> QED BY <1>4, <1>5, <1>6, <2>1, <2>2, <2>3, <2>4, <2>5 DEF Found
<1>9. ASSUME NEW u \in Sessions, ~Idle(u), u # s PROVE Apart(r, txn[u]) /\ Apart(txn[u], r)
  <2>1. PICK w \in Request : w = txn[u] /\ Apart(t, w) /\ Apart(w, t)
    BY <1>1, <1>9, OpenFacts, OpenApart
  <2>2. Locked(r) = Locked(t)
    BY <1>4 DEF Locked
  <2>3. w.dropped \/ w.wrote = "insert" => w.cart # t.cart
    <3>1. CartHolders(s, t.cart) = {}
      BY <1>1 DEF DropCart, Turn, WaitsFor, At
    <3> QED BY <1>1, <1>9, <2>1, <3>1 DEF CartHolders, CartDeleters, Others
  <2>4. r.wrote # "insert"
    BY <1>4, <1>5 DEF Untouching
  <2> QED BY <1>4, <1>5, <2>1, <2>2, <2>3, <2>4 DEF Apart
<1>10. txn' = [txn EXCEPT ![s] = r] /\ UNCHANGED <<tables, ids, menu, overlap>>
  BY <1>1, <1>2 DEF DropCart, GoesOn
<1> QED BY <1>3, <1>7, <1>8, <1>9, <1>10, GoesOnSoundly

\* ON DELETE CASCADE waits for the lines others have locked.
LEMMA CascadeStep ==
    ASSUME CartAssumption, NoneAssumption, CInv, NEW s \in Sessions, Cascade(s)
    PROVE  CInv'
<1>1. PICK t \in Request : t = txn[s] /\ ~Idle(s) /\ t.step = "cascade" /\ Stage(t) /\ Found(t)
  BY OpenFacts DEF Cascade, Turn, At
<1>2. PICK swept : swept = LinesOf(t.cart)
  OBVIOUS
<1>3. PICK r : r = [t EXCEPT !.step = "commit", !.swept = swept]
  OBVIOUS
<1>4. r \in Request
  BY <1>1, <1>2, <1>3 DEF Request, LinesOf
<1>5. /\ r.step = "commit" /\ r.swept = swept /\ r.wrote = t.wrote /\ r.line = t.line
      /\ r.cart = t.cart /\ r.made = t.made /\ r.choice = t.choice
      /\ r.quantity = t.quantity /\ r.dropped = t.dropped /\ r.priced = t.priced
  BY <1>1, <1>3 DEF Request
<1>6. /\ t.cart \in CartIds /\ t.made = FALSE /\ t.swept = {} /\ t.dropped
      /\ (Holding(t) /\ t.wrote = "delete") \/ (Untouching(t) /\ t.priced # {})
      /\ t.wrote # "insert" /\ t.wrote # "update"
  BY <1>1 DEF Stage, Untouching, Request
<1>7. Stage(r)
  <2>1. (Holding(r) /\ r.wrote = "delete") \/ (Untouching(r) /\ r.priced # {})
    BY <1>5, <1>6 DEF Holding, Untouching
  <2> QED BY <1>5, <1>6, <2>1 DEF Stage
<1>8. Found(r)
  <2>1. \A l \in r.swept : l <= linesMade /\ Live(l) /\ lines[l].cart = r.cart
    BY <1>2, <1>5, LineFacts DEF LinesOf
  <2>2. \A l \in r.priced : Live(l) => l \in r.swept
    BY <1>1, <1>2, <1>4, <1>5 DEF Found, LinesOf, Request
  <2>3. r.wrote = "delete" => (Live(r.line) => /\ lines[r.line].cart = r.cart
                                               /\ lines[r.line].choice = r.choice)
    BY <1>1, <1>5 DEF Found
  <2>4. /\ r.cart <= cartsMade /\ r.line <= linesMade /\ \A l \in r.priced : l <= linesMade
        /\ carts[r.cart] # None
    BY <1>1, <1>5, <1>6 DEF Found
  <2>5. LinesOf(r.cart) \subseteq r.swept
    BY <1>2, <1>5
  <2> QED BY <1>5, <1>6, <2>1, <2>2, <2>3, <2>4, <2>5 DEF Found
<1>9. ASSUME NEW u \in Sessions, ~Idle(u), u # s PROVE Apart(r, txn[u]) /\ Apart(txn[u], r)
  <2>1. PICK w \in Request : w = txn[u] /\ Stage(w) /\ Found(w) /\ Apart(t, w) /\ Apart(w, t)
    BY <1>1, <1>9, OpenFacts, OpenApart
  <2>2. Locked(w) \cap swept = {}
    <3>1. LineHolders(s, swept) = {}
      BY <1>1, <1>2 DEF Cascade, Turn, WaitsFor, At
    <3> QED BY <1>1, <1>9, <2>1, <3>1 DEF LineHolders, LockedLines, Locked, Others
  <2>3. Locked(r) = swept \cup Locked(t)
    BY <1>5, <1>6 DEF Locked
  <2>4. w.wrote = "insert" => w.line \notin swept
    BY <1>2, <2>1 DEF Found, LinesOf
  <2> QED BY <1>5, <1>6, <2>1, <2>2, <2>3, <2>4 DEF Apart
<1>10. txn' = [txn EXCEPT ![s] = r] /\ UNCHANGED <<tables, ids, menu, overlap>>
  BY <1>1, <1>2, <1>3 DEF Cascade, GoesOn
<1> QED BY <1>4, <1>7, <1>8, <1>9, <1>10, GoesOnSoundly

LEMMA AbortStep ==
    ASSUME CartAssumption, NoneAssumption, CInv, NEW s \in Sessions, Abort(s)
    PROVE  CInv'
BY EndStep DEF Abort

(***************************************************************************)
(* Statements of others that a request sees when it commits                *)
(***************************************************************************)
\* Lines are gone, perhaps with their cart k, and no request that stays open has locked
\* them; others change at most their quantity.
Leave(gone, k) ==
    /\ \A l \in LineIds : /\ Live(l)' <=> Live(l) /\ l \notin gone
                          /\ Live(l)' => /\ lines'[l].cart = lines[l].cart
                                         /\ lines'[l].choice = lines[l].choice
    /\ \A c \in CartIds : carts'[c] = IF c = k THEN None ELSE carts[c]
    /\ k \in CartIds => LinesOf(k) \subseteq gone
    /\ \A u \in Sessions : txn'[u] # None =>
          /\ txn'[u] = txn[u] /\ gone \cap Locked(txn[u]) = {}
          /\ txn[u].dropped \/ txn[u].wrote = "insert" => txn[u].cart # k

\* Lines go, perhaps with their cart, or change their quantity: the requests that
\* stay open have locked none of them, nor the cart.
LEMMA LinesLeave ==
    ASSUME CartAssumption, NoneAssumption, CInv, TypeOK', UNCHANGED ids,
           NEW gone, NEW k, Leave(gone, k)
    PROVE  CInv'
<1> USE DEF Leave
<1>1. TablesWhole'
  <2>1. ASSUME NEW l \in LineIds, Live(l)'
        PROVE  carts'[lines'[l].cart] = Seller[DishOf(lines'[l].choice)] /\ l <= linesMade'
    <3>1. /\ Live(l) /\ l \notin gone /\ lines'[l].cart = lines[l].cart
          /\ lines'[l].choice = lines[l].choice
      BY <2>1
    <3>2. /\ carts[lines[l].cart] = Seller[DishOf(lines[l].choice)] /\ l <= linesMade
          /\ lines[l].cart \in CartIds
      BY <3>1, LineFacts
    <3>3. lines[l].cart # k
      BY <3>1, <3>2 DEF LinesOf
    <3> QED BY <3>1, <3>2, <3>3 DEF ids
  <2>2. \A c \in CartIds : carts'[c] # None => carts[c] # None
    OBVIOUS
  <2>3. \A c \in CartIds : carts'[c] # None => c <= cartsMade'
    BY <2>2 DEF CInv, TablesWhole, ids
  <2>4. \A c, d \in CartIds : carts'[c] # None /\ carts'[d] # None => c = d
    BY <2>2 DEF CInv, TablesWhole
  <2>5. \A m, l \in LineIds : Live(m)' /\ Live(l)' /\ m # l => lines'[m].choice # lines'[l].choice
    BY DEF CInv, TablesWhole
  <2> QED BY <2>1, <2>3, <2>4, <2>5 DEF TablesWhole
<1>2. ASSUME NEW u \in Sessions, txn'[u] # None PROVE Stage(txn'[u]) /\ Found(txn[u])'
  <2>1. PICK t : /\ t = txn[u] /\ txn'[u] = t /\ t \in Request /\ Stage(t) /\ Found(t)
                 /\ gone \cap Locked(t) = {}
                 /\ t.dropped \/ t.wrote = "insert" => t.cart # k
    BY <1>2, OpenFacts DEF Idle
  <2>2. /\ t.cart \in 0..MaxCarts /\ t.line \in 0..MaxLines /\ t.swept \subseteq LineIds
        /\ t.priced \subseteq LineIds
    BY <2>1 DEF Request
  <2>3. /\ t.cart <= cartsMade' /\ t.line <= linesMade'
        /\ \A l \in t.swept \cup t.priced : l <= linesMade'
    BY <2>1 DEF Found, ids
  <2>4. t.made => \A c \in CartIds : carts'[c] = None
    BY <2>1 DEF Found
  <2>5. t.step = "insert" /\ ~t.made => carts'[t.cart] \in {None, Seller[DishOf(t.choice)]}
    BY <2>1 DEF Found, Stage
  <2>6. t.wrote = "insert" /\ ~t.made => carts'[t.cart] = Seller[DishOf(t.choice)]
    BY <2>1, StageFacts DEF Found
  <2>7. t.wrote = "insert" =>
          ~Live(t.line)' /\ \A l \in LinesOf(t.cart)' : lines'[l].choice # t.choice
    <3> SUFFICES ASSUME t.wrote = "insert"
                 PROVE  ~Live(t.line)' /\ \A l \in LinesOf(t.cart)' : lines'[l].choice # t.choice
      OBVIOUS
    <3>1. t.line \in LineIds /\ ~Live(t.line) /\ \A l \in LinesOf(t.cart) : lines[l].choice # t.choice
      BY <2>1, StageFacts DEF Found
    <3>2. \A l \in LinesOf(t.cart)' : l \in LinesOf(t.cart) /\ lines'[l].choice = lines[l].choice
      BY DEF LinesOf
    <3> QED BY <3>1, <3>2
  <2>8. t.wrote = "update" => Live(t.line)'
    <3> SUFFICES ASSUME t.wrote = "update" PROVE Live(t.line)'
      OBVIOUS
    <3>1. t.line \in LineIds /\ Live(t.line) /\ t.line \in Locked(t)
      BY <2>1, StageFacts DEF Found, Locked, Holding
    <3> QED BY <2>1, <3>1
  <2>9. t.step \in {"update", "delete"} \/ t.wrote \in {"update", "delete"} =>
          (Live(t.line)' => lines'[t.line].cart = t.cart /\ lines'[t.line].choice = t.choice)
    <3> SUFFICES ASSUME t.step \in {"update", "delete"} \/ t.wrote \in {"update", "delete"},
                        Live(t.line)'
                 PROVE  lines'[t.line].cart = t.cart /\ lines'[t.line].choice = t.choice
      OBVIOUS
    <3>1. t.line \in LineIds
      BY <2>1 DEF Stage, Holding, Choosing, Untouching
    <3> QED BY <2>1, <3>1 DEF Found
  <2>10. t.dropped => carts'[t.cart] # None
    BY <2>1, StageFacts DEF Found
  <2>11. t.dropped /\ t.step = "commit" => LinesOf(t.cart)' \subseteq t.swept
    <3>1. LinesOf(t.cart)' \subseteq LinesOf(t.cart)
      BY DEF LinesOf
    <3> QED BY <2>1, <3>1 DEF Found
  <2>12. \A l \in t.swept : Live(l)' => lines'[l].cart = t.cart
    BY <2>1, <2>2 DEF Found
  <2>13. t.step \in {"drop", "cascade"} =>
          \A l \in t.priced : Live(l)' => lines'[l].cart = t.cart
    BY <2>1, <2>2 DEF Found
  <2>14. t.step = "commit" => \A l \in t.priced : Live(l)' => l \in t.swept
    BY <2>1, <2>2 DEF Found
  <2>15. Found(t)'
    BY <2>3, <2>4, <2>5, <2>6, <2>7, <2>8, <2>9, <2>10, <2>11, <2>12, <2>13, <2>14 DEF Found
  <2> QED BY <2>1, <2>15
<1>3. ASSUME NEW u \in Sessions, NEW w \in Sessions, txn'[u] # None, txn'[w] # None, u # w
      PROVE  Apart(txn'[u], txn'[w])
  BY <1>3, OpenApart DEF Idle
<1>4. RequestsSound'
  BY <1>2, <1>3 DEF RequestsSound, Idle
<1> QED BY <1>1, <1>4 DEF CInv

(***************************************************************************)
(* Commits                                                                 *)
(***************************************************************************)
\* The tables hold values of their kind after a commit.
LEMMA CommitTypes ==
    ASSUME CartAssumption, NoneAssumption, CInv, NEW s \in Sessions, Commit(s)
    PROVE  TypeOK'
<1>1. PICK t \in Request : t = txn[s] /\ ~Idle(s) /\ t.step = "commit" /\ Stage(t) /\ Found(t)
  BY OpenFacts DEF Commit, Turn, At
<1>2. carts' \in [CartIds -> Restaurants \cup {None}]
  <2>1. ASSUME NEW c \in CartIds PROVE CartAfter(c, t) \in Restaurants \cup {None}
    <3>1. t.made => Seller[DishOf(t.choice)] \in Restaurants
      BY <1>1, StageFacts DEF Choosing, Choice, DishOf, CartAssumption
    <3>2. carts[c] \in Restaurants \cup {None}
      BY DEF CInv, TypeOK
    <3> QED BY <3>1, <3>2 DEF CartAfter
  <2> QED BY <1>1, <2>1 DEF Commit
<1>3. lines' \in [LineIds -> Line \cup {None}]
  <2>1. ASSUME NEW l \in LineIds PROVE LineAfter(l, t) \in Line \cup {None}
    <3>1. lines[l] \in Line \cup {None}
      BY DEF CInv, TypeOK
    <3>2. t.wrote = "insert" =>
            [cart |-> t.cart, choice |-> t.choice, quantity |-> t.quantity] \in Line
      BY <1>1, StageFacts DEF Choosing, Line
    <3>3. t.wrote = "update" /\ l = t.line => [lines[l] EXCEPT !.quantity = t.quantity] \in Line
      <4>1. t.wrote = "update" => t.quantity \in 1..MaxQuantity /\ Live(t.line)
        BY <1>1, StageFacts DEF Found
      <4>2. t.wrote = "update" /\ l = t.line => lines[l] \in Line
        BY <3>1, <4>1 DEF Live
      <4> QED BY <4>1, <4>2 DEF Line
    <3> QED BY <3>1, <3>2, <3>3 DEF LineAfter
  <2> QED BY <1>1, <2>1 DEF Commit
<1>4. txn' \in [Sessions -> Request \cup {None}]
  BY DEF Commit, Dies, CInv, TypeOK
<1> QED BY <1>2, <1>3, <1>4 DEF Commit, CInv, TypeOK, ids, menu

\* A commit as the tables see it.
LEMMA CommitFacts ==
    ASSUME CartAssumption, NoneAssumption, CInv, NEW s \in Sessions, Commit(s)
    PROVE  \E t \in Request :
              /\ t = txn[s] /\ ~Idle(s) /\ t.step = "commit" /\ Stage(t) /\ Found(t)
              /\ \A l \in LineIds : lines'[l] = LineAfter(l, t)
              /\ \A c \in CartIds : carts'[c] = CartAfter(c, t)
              /\ \A u \in Sessions : txn'[u] # None =>
                    u # s /\ txn'[u] = txn[u] /\ Apart(t, txn[u]) /\ Apart(txn[u], t)
<1>1. PICK t \in Request : t = txn[s] /\ ~Idle(s) /\ t.step = "commit" /\ Stage(t) /\ Found(t)
  BY OpenFacts DEF Commit, Turn, At
<1>2. \A u \in Sessions : txn'[u] = IF u = s THEN None ELSE txn[u]
  BY DEF Commit, Dies, CInv, TypeOK
<1>3. \A u \in Sessions : txn'[u] # None =>
         u # s /\ txn'[u] = txn[u] /\ Apart(t, txn[u]) /\ Apart(txn[u], t)
  BY <1>1, <1>2, OpenApart DEF Idle
<1> QED BY <1>1, <1>3 DEF Commit

\* A new line, perhaps of a new cart.
LEMMA InsertCommits ==
    ASSUME CartAssumption, NoneAssumption, CInv, NEW s \in Sessions, Commit(s),
           txn[s].wrote = "insert"
    PROVE  CInv'
<1>1. PICK t \in Request :
         /\ t = txn[s] /\ ~Idle(s) /\ t.step = "commit" /\ Stage(t) /\ Found(t)
         /\ \A l \in LineIds : lines'[l] = LineAfter(l, t)
         /\ \A c \in CartIds : carts'[c] = CartAfter(c, t)
         /\ \A u \in Sessions : txn'[u] # None =>
               u # s /\ txn'[u] = txn[u] /\ Apart(t, txn[u]) /\ Apart(txn[u], t)
  BY CommitFacts
<1>2. /\ t.wrote = "insert" /\ Choosing(t) /\ t.cart \in CartIds /\ t.line \in LineIds
      /\ t.dropped = FALSE /\ t.swept = {} /\ t.choice \in Choice
  BY <1>1, StageFacts DEF Choosing, Request
<1>3. /\ \A l \in LineIds \ {t.line} : lines'[l] = lines[l]
      /\ lines'[t.line].cart = t.cart /\ lines'[t.line].choice = t.choice
      /\ lines'[t.line] # None
  <2>1. lines'[t.line] = [cart |-> t.cart, choice |-> t.choice, quantity |-> t.quantity]
    BY <1>1, <1>2 DEF LineAfter
  <2>2. [cart |-> t.cart, choice |-> t.choice, quantity |-> t.quantity] \in Line
    BY <1>2 DEF Choosing, Line
  <2>3. \A l \in LineIds \ {t.line} : lines'[l] = lines[l]
    BY <1>1, <1>2 DEF LineAfter
  <2>4. lines'[t.line] # None
    BY <2>1, <2>2 DEF NoneAssumption
  <2> QED BY <2>1, <2>3, <2>4
<1>4. /\ t.made => carts'[t.cart] = Seller[DishOf(t.choice)]
      /\ \A c \in CartIds : c # t.cart \/ ~t.made => carts'[c] = carts[c]
  BY <1>1, <1>2 DEF CartAfter
<1>5. Seller[DishOf(t.choice)] # None
  BY <1>2 DEF Choice, DishOf, CartAssumption
<1>6. /\ t.made => \A c \in CartIds : carts[c] = None
      /\ ~t.made => carts[t.cart] = Seller[DishOf(t.choice)]
      /\ ~Live(t.line) /\ \A l \in LinesOf(t.cart) : lines[l].choice # t.choice
      /\ t.cart <= cartsMade /\ t.line <= linesMade
  BY <1>1, <1>2 DEF Found
<1>7. \A l \in LineIds : /\ l # t.line => (Live(l)' <=> Live(l))
                         /\ Live(t.line)'
  BY <1>3 DEF Live
<1>8. \A l \in LineIds : Live(l) => l # t.line /\ ~t.made /\ lines[l].cart = t.cart
  <2> SUFFICES ASSUME NEW l \in LineIds, Live(l) PROVE ~t.made /\ lines[l].cart = t.cart
    BY <1>6
  <2>1. lines[l].cart \in CartIds /\ carts[lines[l].cart] # None
    BY LineFacts
  <2>2. ~t.made
    BY <1>6, <2>1
  <2>3. carts[t.cart] # None
    BY <1>5, <1>6, <2>2
  <2> QED BY <1>2, <2>1, <2>2, <2>3 DEF CInv, TablesWhole
<1>9. ids' = ids /\ cartsMade' = cartsMade /\ linesMade' = linesMade
  BY DEF Commit, ids
<1>10. TablesWhole'
  <2>1. ASSUME NEW l \in LineIds, Live(l)'
        PROVE  carts'[lines'[l].cart] = Seller[DishOf(lines'[l].choice)] /\ l <= linesMade'
    <3>1. CASE l = t.line
      BY <1>2, <1>3, <1>4, <1>6, <1>9, <3>1
    <3>2. CASE l # t.line
      <4>1. Live(l) /\ lines'[l] = lines[l]
        BY <1>3, <1>7, <2>1, <3>2
      <4>2. ~t.made
        BY <1>8, <4>1
      <4> QED BY <1>4, <1>9, <4>1, <4>2, LineFacts
    <3> QED BY <3>1, <3>2
  <2>2. \A c \in CartIds : carts'[c] # None => c <= cartsMade'
    BY <1>4, <1>6, <1>9 DEF CInv, TablesWhole
  <2>3. \A c, d \in CartIds : carts'[c] # None /\ carts'[d] # None => c = d
    BY <1>4, <1>6 DEF CInv, TablesWhole
  <2>4. ASSUME NEW k \in LineIds, NEW l \in LineIds, Live(k)', Live(l)', k # l
        PROVE  lines'[k].choice # lines'[l].choice
    <3>1. \A m \in LineIds : Live(m) => lines[m].choice # t.choice
      BY <1>6, <1>8 DEF LinesOf
    <3> QED BY <1>3, <1>7, <2>4, <3>1 DEF CInv, TablesWhole
  <2> QED BY <2>1, <2>2, <2>3, <2>4 DEF TablesWhole
<1>11. ASSUME NEW u \in Sessions, txn'[u] # None PROVE Stage(txn'[u]) /\ Found(txn[u])'
  <2>1. PICK w : /\ w = txn[u] /\ txn'[u] = w /\ w \in Request /\ Stage(w) /\ Found(w)
                 /\ Apart(t, w) /\ Apart(w, t)
    BY <1>1, <1>11, OpenFacts DEF Idle
  <2>2. /\ t.made => ~w.made /\ w.cart # t.cart
        /\ w.dropped => t.cart # w.cart
        /\ w.line # t.line /\ t.line \notin w.swept \cup w.priced
        /\ w.wrote = "insert" /\ w.cart = t.cart => w.choice # t.choice
        /\ w.made => t.cart # w.cart
    BY <1>2, <2>1 DEF Apart
  <2>3. /\ w.cart \in 0..MaxCarts /\ w.line \in 0..MaxLines /\ w.swept \subseteq LineIds
        /\ w.priced \subseteq LineIds
    BY <2>1 DEF Request
  <2>4. /\ w.cart <= cartsMade' /\ w.line <= linesMade'
        /\ \A l \in w.swept \cup w.priced : l <= linesMade'
    BY <1>9, <2>1 DEF Found
  <2>5. ~w.made
    <3> SUFFICES ASSUME w.made PROVE FALSE
      OBVIOUS
    <3>1. ~t.made /\ \A c \in CartIds : carts[c] = None
      BY <2>1, <2>2 DEF Found
    <3> QED BY <1>2, <1>5, <1>6, <3>1
  <2>6. w.cart \in CartIds => carts'[w.cart] = carts[w.cart]
    BY <1>4, <2>2
  <2>7. w.step = "insert" => carts'[w.cart] \in {None, Seller[DishOf(w.choice)]}
    BY <2>1, <2>5, <2>6 DEF Found, Stage
  <2>8. w.wrote = "insert" => carts'[w.cart] = Seller[DishOf(w.choice)]
    BY <2>1, <2>5, <2>6, StageFacts DEF Found
  <2>9. \A l \in LineIds : Live(l)' <=> Live(l) \/ l = t.line
    BY <1>7
  <2>10. w.wrote = "insert" =>
          ~Live(w.line)' /\ \A l \in LinesOf(w.cart)' : lines'[l].choice # w.choice
    <3> SUFFICES ASSUME w.wrote = "insert"
                 PROVE  ~Live(w.line)' /\ \A l \in LinesOf(w.cart)' : lines'[l].choice # w.choice
      OBVIOUS
    <3>1. w.line \in LineIds /\ ~Live(w.line) /\ \A l \in LinesOf(w.cart) : lines[l].choice # w.choice
      BY <2>1, StageFacts DEF Found
    <3>2. ASSUME NEW l \in LinesOf(w.cart)' PROVE lines'[l].choice # w.choice
      <4>1. l \in LineIds /\ Live(l)' /\ lines'[l].cart = w.cart
        BY <3>2 DEF LinesOf
      <4>2. CASE l = t.line
        BY <1>3, <2>2, <4>1, <4>2
      <4>3. CASE l # t.line
        BY <1>3, <1>7, <3>1, <4>1, <4>3 DEF LinesOf
      <4> QED BY <4>2, <4>3
    <3> QED BY <2>2, <2>9, <3>1, <3>2
  <2>11. w.wrote = "update" => Live(w.line)'
    <3> SUFFICES ASSUME w.wrote = "update" PROVE Live(w.line)'
      OBVIOUS
    <3>1. w.line \in LineIds /\ Live(w.line)
      BY <2>1, StageFacts DEF Found, Holding
    <3> QED BY <2>9, <3>1
  <2>12. w.step \in {"update", "delete"} \/ w.wrote \in {"update", "delete"} =>
          (Live(w.line)' => lines'[w.line].cart = w.cart /\ lines'[w.line].choice = w.choice)
    <3> SUFFICES ASSUME w.step \in {"update", "delete"} \/ w.wrote \in {"update", "delete"},
                        Live(w.line)'
                 PROVE  lines'[w.line].cart = w.cart /\ lines'[w.line].choice = w.choice
      OBVIOUS
    <3>1. w.line \in LineIds
      BY <2>1 DEF Stage, Holding, Choosing, Untouching
    <3> QED BY <1>3, <2>1, <2>2, <2>9, <3>1 DEF Found
  <2>13. w.dropped => carts'[w.cart] # None
    BY <2>1, <2>6, StageFacts DEF Found
  <2>14. w.dropped /\ w.step = "commit" => LinesOf(w.cart)' \subseteq w.swept
    <3> SUFFICES ASSUME w.dropped, w.step = "commit", NEW l \in LinesOf(w.cart)'
                 PROVE  l \in w.swept
      OBVIOUS
    <3>1. l \in LineIds /\ Live(l)' /\ lines'[l].cart = w.cart
      BY DEF LinesOf
    <3>2. l # t.line
      BY <1>3, <2>2, <3>1
    <3> QED BY <1>3, <2>1, <2>9, <3>1, <3>2 DEF Found, LinesOf
  <2>15. \A l \in w.swept : Live(l)' => lines'[l].cart = w.cart
    BY <1>3, <2>1, <2>2, <2>3, <2>9 DEF Found
  <2>16. w.step \in {"drop", "cascade"} =>
          \A l \in w.priced : Live(l)' => lines'[l].cart = w.cart
    BY <1>3, <2>1, <2>2, <2>3, <2>9 DEF Found
  <2>17. w.step = "commit" => \A l \in w.priced : Live(l)' => l \in w.swept
    BY <2>1, <2>2, <2>3, <2>9 DEF Found
  <2>18. Found(w)'
    BY <2>4, <2>5, <2>7, <2>8, <2>10, <2>11, <2>12, <2>13, <2>14, <2>15, <2>16, <2>17 DEF Found
  <2> QED BY <2>1, <2>18
<1>12. ASSUME NEW u \in Sessions, NEW w \in Sessions, txn'[u] # None, txn'[w] # None, u # w
      PROVE  Apart(txn'[u], txn'[w])
  BY <1>1, <1>12, OpenApart DEF Idle
<1>13. RequestsSound'
  BY <1>11, <1>12 DEF RequestsSound, Idle
<1> QED BY <1>10, <1>13, CommitTypes DEF CInv

\* The size of a line, its end, or the end of its cart.
LEMMA OtherCommits ==
    ASSUME CartAssumption, NoneAssumption, CInv, NEW s \in Sessions, Commit(s),
           txn[s].wrote # "insert"
    PROVE  CInv'
<1>1. PICK t \in Request :
         /\ t = txn[s] /\ ~Idle(s) /\ t.step = "commit" /\ Stage(t) /\ Found(t)
         /\ \A l \in LineIds : lines'[l] = LineAfter(l, t)
         /\ \A c \in CartIds : carts'[c] = CartAfter(c, t)
         /\ \A u \in Sessions : txn'[u] # None =>
               u # s /\ txn'[u] = txn[u] /\ Apart(t, txn[u]) /\ Apart(txn[u], t)
  BY CommitFacts
<1> DEFINE gone == t.swept \cup (IF t.wrote = "delete" THEN {t.line} ELSE {})
           k == IF t.dropped THEN t.cart ELSE 0
<1>2. t.wrote # "insert" /\ t.made = FALSE
  BY <1>1, StageFacts DEF Request
<1>3. t.wrote = "update" => t.swept = {} /\ t.line \in LineIds /\ Live(t.line)
  BY <1>1, StageFacts DEF Found, Holding
<1>4. ASSUME NEW l \in LineIds
      PROVE  /\ Live(l)' <=> Live(l) /\ l \notin gone
             /\ Live(l)' => lines'[l].cart = lines[l].cart /\ lines'[l].choice = lines[l].choice
  <2>1. CASE l \in gone
    <3>1. l \in t.swept \/ (l = t.line /\ t.wrote = "delete")
      BY <2>1
    <3>2. LineAfter(l, t) = None
      BY <1>2, <1>3, <3>1 DEF LineAfter
    <3>3. lines'[l] = None
      BY <1>1, <3>2
    <3> QED BY <2>1, <3>3 DEF Live
  <2>2. CASE l \notin gone /\ l = t.line /\ t.wrote = "update"
    <3>1. lines'[l] = [lines[l] EXCEPT !.quantity = t.quantity]
      BY <1>1, <1>2, <2>2 DEF LineAfter
    <3>2. lines[l] \in Line /\ Live(l) /\ t.quantity \in 1..MaxQuantity
      BY <1>1, <1>3, <2>2, LineFacts, StageFacts
    <3>3. lines'[l] \in Line /\ lines'[l].cart = lines[l].cart /\ lines'[l].choice = lines[l].choice
      BY <3>1, <3>2 DEF Line
    <3>4. Live(l)'
      BY <3>3 DEF Live, NoneAssumption
    <3> QED BY <2>2, <3>2, <3>3, <3>4
  <2>3. CASE l \notin gone /\ ~(l = t.line /\ t.wrote = "update")
    <3>1. lines'[l] = lines[l]
      BY <1>1, <1>2, <2>3 DEF LineAfter
    <3> QED BY <2>3, <3>1 DEF Live
  <2> QED BY <2>1, <2>2, <2>3
<1>5. ASSUME NEW c \in CartIds PROVE carts'[c] = IF c = k THEN None ELSE carts[c]
  BY <1>1, <1>2, IdsArePositive DEF CartAfter
<1>6. k \in CartIds => LinesOf(k) \subseteq gone
  BY <1>1, IdsArePositive DEF Found
<1>7. ASSUME NEW u \in Sessions, txn'[u] # None
      PROVE  /\ txn'[u] = txn[u] /\ gone \cap Locked(txn[u]) = {}
             /\ txn[u].dropped \/ txn[u].wrote = "insert" => txn[u].cart # k
  <2>1. PICK w : w = txn[u] /\ txn'[u] = w /\ Stage(w) /\ Apart(t, w)
    BY <1>1, <1>7, OpenFacts DEF Idle
  <2>2. gone \subseteq Locked(t)
    BY DEF Locked
  <2>3. w.dropped \/ w.wrote = "insert" => w.cart \in CartIds
    BY <2>1, StageFacts
  <2> QED BY <2>1, <2>2, <2>3, IdsArePositive DEF Apart
<1>8. UNCHANGED ids /\ TypeOK'
  BY CommitTypes DEF Commit
<1> HIDE DEF gone, k
<1>9. PICK g, c : g = gone /\ c = k
  OBVIOUS
<1>10. \A l \in LineIds : /\ Live(l)' <=> Live(l) /\ l \notin g
                          /\ Live(l)' => /\ lines'[l].cart = lines[l].cart
                                         /\ lines'[l].choice = lines[l].choice
  BY <1>4, <1>9 DEF Live
<1>11. /\ \A d \in CartIds : carts'[d] = IF d = c THEN None ELSE carts[d]
       /\ c \in CartIds => LinesOf(c) \subseteq g
  BY <1>5, <1>6, <1>9
<1>12. \A u \in Sessions : txn'[u] # None =>
         /\ txn'[u] = txn[u] /\ g \cap Locked(txn[u]) = {}
         /\ txn[u].dropped \/ txn[u].wrote = "insert" => txn[u].cart # c
  BY <1>7, <1>9
<1>13. Leave(g, c)
  BY <1>10, <1>11, <1>12 DEF Leave
<1> QED BY <1>8, <1>13, LinesLeave

LEMMA CommitStep ==
    ASSUME CartAssumption, NoneAssumption, CInv, NEW s \in Sessions, Commit(s)
    PROVE  CInv'
BY InsertCommits, OtherCommits

(***************************************************************************)
(* The vendor's menu                                                       *)
(***************************************************************************)
\* A size that is deleted takes its lines, none of which a request has locked.
LEMMA DeleteVariantStep ==
    ASSUME CartAssumption, NoneAssumption, CInv, NEW v \in Sizes, DeleteVariant(v)
    PROVE  CInv'
<1> DEFINE gone == {l \in LineIds : Live(l) /\ SizeOf(lines[l].choice) = v}
<1>1. /\ \A s \in Sessions : ~Idle(s) => LockedLines(s) \cap gone = {}
      /\ size' = [size EXCEPT ![v] = "deleted"]
      /\ lines' = [l \in LineIds |-> IF l \in gone THEN None ELSE lines[l]]
      /\ carts' = carts /\ hidden' = hidden /\ txn' = txn /\ overlap' = overlap /\ UNCHANGED ids
  BY DEF DeleteVariant
<1>2. \A l \in LineIds : lines'[l] = IF l \in gone THEN None ELSE lines[l]
  BY <1>1
<1> HIDE DEF gone
<1>3. TypeOK'
  <2>1. lines' \in [LineIds -> Line \cup {None}] /\ size' \in [Sizes -> {"planned", "live", "deleted"}]
    BY <1>1 DEF CInv, TypeOK
  <2> QED BY <1>1, <2>1 DEF CInv, TypeOK, ids
<1>4. ASSUME NEW l \in LineIds
      PROVE  /\ Live(l)' <=> Live(l) /\ l \notin gone
             /\ Live(l)' => lines'[l].cart = lines[l].cart /\ lines'[l].choice = lines[l].choice
  BY <1>2 DEF Live
<1>5. \A c \in CartIds : carts'[c] = IF c = 0 THEN None ELSE carts[c]
  BY <1>1, IdsArePositive
<1>6. 0 \in CartIds => LinesOf(0) \subseteq gone
  BY IdsArePositive
<1>7. ASSUME NEW u \in Sessions, txn'[u] # None
      PROVE  /\ txn'[u] = txn[u] /\ gone \cap Locked(txn[u]) = {}
             /\ txn[u].dropped \/ txn[u].wrote = "insert" => txn[u].cart # 0
  <2>1. ~Idle(u) /\ txn'[u] = txn[u]
    BY <1>1, <1>7 DEF Idle
  <2>2. txn[u].dropped \/ txn[u].wrote = "insert" => txn[u].cart \in CartIds
    BY <2>1, OpenFacts, StageFacts
  <2> QED BY <1>1, <2>1, <2>2, IdsArePositive DEF Locked, LockedLines
<1>8. PICK g : g = gone
  OBVIOUS
<1>9. \A l \in LineIds : /\ Live(l)' <=> Live(l) /\ l \notin g
                         /\ Live(l)' => /\ lines'[l].cart = lines[l].cart
                                        /\ lines'[l].choice = lines[l].choice
  BY <1>4, <1>8 DEF Live
<1>10. \A u \in Sessions : txn'[u] # None =>
         /\ txn'[u] = txn[u] /\ g \cap Locked(txn[u]) = {}
         /\ txn[u].dropped \/ txn[u].wrote = "insert" => txn[u].cart # 0
  BY <1>7, <1>8
<1>11. 0 \in CartIds => LinesOf(0) \subseteq g
  BY IdsArePositive
<1>12. UNCHANGED ids
  BY <1>1
<1>13. Leave(g, 0)
  BY <1>5, <1>9, <1>10, <1>11 DEF Leave
<1> QED BY <1>3, <1>12, <1>13, LinesLeave

\* A new size and a hidden dish touch no cart.
LEMMA MenuStep ==
    ASSUME CartAssumption, NoneAssumption, CInv, UNCHANGED <<tables, ids, txn, overlap>>,
           size' \in [Sizes -> {"planned", "live", "deleted"}], hidden' \subseteq Dishes
    PROVE  CInv'
<1>1. /\ carts' = carts /\ lines' = lines /\ cartsMade' = cartsMade /\ linesMade' = linesMade
      /\ txn' = txn /\ overlap' = overlap
  BY DEF tables, ids
<1>2. TypeOK'
  BY <1>1 DEF CInv, TypeOK
<1>3. (\A l : Live(l)' = Live(l)) /\ (\A c : LinesOf(c)' = LinesOf(c))
  BY <1>1 DEF Live, LinesOf
<1>4. TablesWhole'
  BY <1>1, <1>3 DEF CInv, TablesWhole
<1>5. \A t : Found(t)' = Found(t)
  BY <1>1, <1>3 DEF Found
<1>6. ASSUME NEW s \in Sessions, txn[s] # None PROVE Stage(txn[s]) /\ Found(txn[s])'
  <2>1. PICK t : t = txn[s] /\ Stage(t) /\ Found(t)
    BY <1>6, OpenFacts DEF Idle
  <2>2. Found(t)'
    BY <1>5, <2>1
  <2> QED BY <1>1, <2>1, <2>2
<1>7. RequestsSound'
  <2>1. \A s, u \in Sessions : txn'[s] # None /\ txn'[u] # None /\ s # u => Apart(txn'[s], txn'[u])
    BY <1>1, OpenApart DEF Idle
  <2> QED BY <1>1, <1>6, <2>1 DEF RequestsSound, Idle
<1> QED BY <1>2, <1>4, <1>7 DEF CInv

\* Every step.
LEMMA CInvStep ==
    ASSUME CartAssumption, NoneAssumption, CInv, [Next]_vars
    PROVE  CInv'
<1>1. CASE \E s \in Sessions, c \in Choice, q \in 0..MaxQuantity, add \in BOOLEAN :
              ModifyItem(s, c, q, add)
  BY <1>1, ModifyItemStep
<1>2. CASE \E s \in Sessions, l \in LineIds, q \in 0..MaxQuantity : UpdateLine(s, l, q)
  BY <1>2, UpdateLineStep
<1>3. CASE \E s \in Sessions : PriceCart(s) \/ Step(s) \/ Abort(s)
  <2>1. PICK s \in Sessions : PriceCart(s) \/ Step(s) \/ Abort(s)
    BY <1>3
  <2>2. CASE Step(s)
    BY <2>2, MakeCartStep, InsertLineStep, SetQuantityStep, DeleteLineStep, CountRemainingStep,
       ClearCartStep, DropCartStep, CascadeStep, CommitStep DEF Step
  <2> QED BY <2>1, <2>2, PriceCartStep, AbortStep
<1>4. CASE \E v \in Sizes : AddVariant(v) \/ DeleteVariant(v)
  <2>1. PICK v \in Sizes : AddVariant(v) \/ DeleteVariant(v)
    BY <1>4
  <2>2. CASE AddVariant(v)
    <3>1. size' \in [Sizes -> {"planned", "live", "deleted"}] /\ hidden' \subseteq Dishes
      BY <2>2 DEF AddVariant, CInv, TypeOK
    <3> QED BY <2>2, <3>1, MenuStep DEF AddVariant
  <2> QED BY <2>1, <2>2, DeleteVariantStep
<1>5. CASE \E d \in Dishes : HideItem(d)
  <2>1. PICK d \in Dishes : HideItem(d)
    BY <1>5
  <2>2. size' \in [Sizes -> {"planned", "live", "deleted"}] /\ hidden' \subseteq Dishes
    BY <2>1 DEF HideItem, CInv, TypeOK
  <2> QED BY <2>1, <2>2, MenuStep DEF HideItem
<1>6. CASE UNCHANGED vars
  <2>1. size' \in [Sizes -> {"planned", "live", "deleted"}] /\ hidden' \subseteq Dishes
    BY <1>6 DEF vars, menu, CInv, TypeOK
  <2> QED BY <1>6, <2>1, MenuStep DEF vars
<1> QED BY <1>1, <1>2, <1>3, <1>4, <1>5, <1>6 DEF Next

LEMMA CInvStarts ==
    ASSUME CartAssumption, NoneAssumption, Init
    PROVE  CInv
<1>1. TypeOK
  <2>1. 0 \in 0..MaxCarts /\ 0 \in 0..MaxLines
    BY DEF CartAssumption
  <2> QED BY <2>1 DEF Init, TypeOK
<1>2. TablesWhole
  BY DEF Init, TablesWhole, Live
<1>3. RequestsSound
  BY DEF Init, RequestsSound, Idle
<1> QED BY <1>1, <1>2, <1>3 DEF CInv

LEMMA CartInvariant == Spec => []CInv
<1>1. CartAssumption /\ NoneAssumption
  BY CartAssumption, NoneAssumption
<1>2. Init => CInv
  BY <1>1, CInvStarts
<1>3. CInv /\ [Next]_vars => CInv'
  BY <1>1, CInvStep
<1> QED BY <1>2, <1>3, PTL DEF Spec

\* Every variable of a cart holds a value of its kind.
THEOREM TypeCorrect == Spec => []TypeOK
<1>1. CInv => TypeOK
  BY DEF CInv
<1> QED BY <1>1, CartInvariant, PTL

\* The lines an order was priced from are gone when it commits, whatever overlaps;
\* nothing is said of lines that came between the pricing and the clearing.
THEOREM OrderedLeave == Spec => OrderedLinesLeave
<1>1. ASSUME CartAssumption, NoneAssumption, CInv, NEW s \in Sessions, Commit(s),
             NEW l \in txn[s].priced
      PROVE  lines'[l] = None
  <2>1. PICK t \in Request :
           /\ t = txn[s] /\ t.step = "commit" /\ Stage(t) /\ Found(t)
           /\ \A k \in LineIds : lines'[k] = LineAfter(k, t)
    BY <1>1, CommitFacts
  <2>2. l \in t.priced /\ l \in LineIds /\ t.wrote = "nothing"
    BY <1>1, <2>1, StageFacts DEF Request
  <2>3. Live(l) => l \in t.swept
    BY <2>1, <2>2 DEF Found
  <2> QED BY <2>1, <2>2, <2>3 DEF LineAfter, Live
<1>2. CInv /\ [Next]_vars =>
        [\A s \in Sessions : At(s, "commit") /\ Commit(s)
            => \A l \in txn[s].priced : lines'[l] = None]_vars
  BY <1>1, CartAssumption, NoneAssumption
<1> QED BY <1>2, CartInvariant, PTL DEF Spec, OrderedLinesLeave

(***************************************************************************)
(* One request at a time                                                   *)
(***************************************************************************)
LEMMA OthersIdle ==
    ASSUME SAlone, NEW s \in Sessions, ~Idle(s)
    PROVE  Alone(txn[s]) /\ \A u \in Sessions : u # s => Idle(u)
BY DEF SAlone

\* The only request goes on or ends, and has written no table.
LEMMA AloneGoesOn ==
    ASSUME CInv, SAlone, UNCHANGED <<tables, size>>, NEW s \in Sessions,
           \A u \in Sessions : u # s => Idle(u),
           NEW r, txn' = [txn EXCEPT ![s] = r], r # None => Alone(r)
    PROVE  SAlone'
<1>1. \A u \in Sessions : txn'[u] = IF u = s THEN r ELSE txn[u]
  BY DEF CInv, TypeOK
<1>2. carts' = carts /\ lines' = lines /\ size' = size
  BY DEF tables
<1>3. (\A l : Live(l)' = Live(l)) /\ (\A c : LinesOf(c)' = LinesOf(c))
      /\ NoneWithdrawn' = NoneWithdrawn
  BY <1>2 DEF Live, LinesOf, NoneWithdrawn
<1>4. r # None => Alone(r)'
  BY <1>2, <1>3 DEF Alone
<1>5. \A u \in Sessions : txn'[u] # None => u = s /\ Alone(txn[u])'
  <2> SUFFICES ASSUME NEW u \in Sessions, txn'[u] # None PROVE u = s /\ Alone(txn[u])'
    OBVIOUS
  <2>1. u = s /\ txn'[u] = r /\ r # None
    BY <1>1 DEF Idle
  <2> QED BY <1>4, <2>1
<1> QED BY <1>2, <1>3, <1>5 DEF SAlone, Idle

LEMMA ModifyAlone ==
    ASSUME CartAssumption, NoneAssumption, CInv, SAlone, ~overlap, NEW s \in Sessions,
           \/ \E c \in Choice, q \in 0..MaxQuantity, add \in BOOLEAN : ModifyItem(s, c, q, add)
           \/ \E l \in LineIds, q \in 0..MaxQuantity : UpdateLine(s, l, q)
           \/ PriceCart(s)
    PROVE  SAlone'
<1>1. /\ UNCHANGED <<tables, size>> /\ \A u \in Sessions : u # s => Idle(u)
  BY DEF ModifyItem, UpdateLine, PriceCart, MayStart, menu
<1>2. ASSUME NEW l \in LineIds, Live(l), NEW q, ChangeLine(s, l, lines[l].choice, q)
      PROVE  SAlone'
  <2>1. PICK r : /\ txn' = [txn EXCEPT ![s] = r]
                 /\ \/ r = [NewRequest EXCEPT !.step = "delete", !.cart = lines[l].cart,
                                              !.line = l, !.choice = lines[l].choice]
                    \/ r = [NewRequest EXCEPT !.step = "update", !.cart = lines[l].cart,
                                              !.line = l, !.choice = lines[l].choice,
                                              !.quantity = q]
    BY <1>2 DEF ChangeLine, GoesOn
  <2>2. r.cart = lines[l].cart /\ r.wrote = "nothing" /\ r.priced = {}
    BY <2>1 DEF NewRequest
  <2>3. Alone(r)
    BY <1>2, <2>2, LineFacts DEF Alone
  <2> QED BY <1>1, <2>1, <2>3, AloneGoesOn
<1>3. ASSUME NEW r, txn' = [txn EXCEPT ![s] = r], r.step \in {"cart", "insert", "clear"},
             r.wrote = "nothing"
      PROVE  SAlone'
  <2>1. Alone(r)
    BY <1>3 DEF Alone
  <2> QED BY <1>1, <1>3, <2>1, AloneGoesOn
<1>4. ASSUME NEW c \in Choice, NEW q \in 0..MaxQuantity, NEW add \in BOOLEAN,
             ModifyItem(s, c, q, add)
      PROVE  SAlone'
  <2> DEFINE line == LineWith(CurrentCart, c)
             new(r) == \/ r = [NewRequest EXCEPT !.step = "cart", !.choice = c, !.quantity = q]
                       \/ r = [NewRequest EXCEPT !.step = "insert", !.cart = CurrentCart,
                                                 !.choice = c, !.quantity = q]
  <2>1. CASE \E r : txn' = [txn EXCEPT ![s] = r] /\ new(r)
    <3>1. PICK r : txn' = [txn EXCEPT ![s] = r] /\ new(r)
      BY <2>1
    <3>2. r.step \in {"cart", "insert"} /\ r.wrote = "nothing"
      BY <3>1 DEF NewRequest
    <3> QED BY <1>3, <3>1, <3>2
  <2>2. CASE /\ line # 0
             /\ ChangeLine(s, line, c, IF add THEN lines[line].quantity + q ELSE q)
    <3>1. line \in LineIds /\ Live(line) /\ lines[line].choice = c
      BY <2>2, LineIs DEF LinesOf
    <3> HIDE DEF line
    <3>2. PICK l \in LineIds : l = line
      BY <3>1
    <3> QED BY <1>2, <2>2, <3>1, <3>2
  <2> QED BY <1>4, <2>1, <2>2 DEF ModifyItem, GoesOn
<1>5. ASSUME PriceCart(s) PROVE SAlone'
  <2>1. PICK r : r = [NewRequest EXCEPT !.step = "clear", !.priced = Priced]
    OBVIOUS
  <2>2. r.step = "clear" /\ r.wrote = "nothing" /\ txn' = [txn EXCEPT ![s] = r]
    BY <1>5, <2>1 DEF NewRequest, PriceCart, GoesOn
  <2> QED BY <1>3, <2>2
<1>6. ASSUME NEW l \in LineIds, NEW q \in 0..MaxQuantity, UpdateLine(s, l, q) PROVE SAlone'
  BY <1>2, <1>6 DEF UpdateLine
<1> QED BY <1>4, <1>5, <1>6

\* The statements that write no table yet.
LEMMA StatementAlone ==
    ASSUME CartAssumption, NoneAssumption, CInv, SAlone, NEW s \in Sessions,
           \/ MakeCart(s) \/ InsertLine(s) \/ SetQuantity(s) \/ DeleteLine(s)
           \/ CountRemaining(s) \/ ClearCart(s) \/ DropCart(s) \/ Cascade(s) \/ Abort(s)
    PROVE  SAlone'
<1>1. UNCHANGED <<tables, size>>
  BY DEF MakeCart, InsertLine, SetQuantity, DeleteLine, CountRemaining, ClearCart, DropCart,
         Cascade, Abort, menu
<1>2. PICK t \in Request : t = txn[s] /\ ~Idle(s) /\ Stage(t) /\ Found(t) /\ Alone(t)
  <2>1. ~Idle(s)
    BY DEF MakeCart, InsertLine, SetQuantity, DeleteLine, CountRemaining, ClearCart, DropCart,
           Cascade, Abort, Turn, At
  <2> QED BY <2>1, OpenFacts, OthersIdle
<1>3. \A u \in Sessions : u # s => Idle(u)
  BY <1>2, OthersIdle
<1>4. ASSUME NEW r, txn' = [txn EXCEPT ![s] = r], r # None => Alone(r) PROVE SAlone'
  BY <1>1, <1>3, <1>4, AloneGoesOn
<1>5. CASE Dies(s)
  BY <1>4, <1>5 DEF Dies
<1>6. CASE \E n : \/ /\ t.step = "cart"
                     /\ GoesOn(s, [txn[s] EXCEPT !.step = "insert", !.cart = n, !.made = TRUE])
                  \/ /\ t.step = "insert"
                     /\ GoesOn(s, [txn[s] EXCEPT !.step = "commit", !.wrote = "insert", !.line = n])
                  \/ /\ t.step = "update"
                     /\ GoesOn(s, [txn[s] EXCEPT !.step = "commit", !.wrote = "update"])
  <2>1. PICK n, r : /\ txn' = [txn EXCEPT ![s] = r]
                    /\ \/ /\ t.step = "cart"
                          /\ r = [t EXCEPT !.step = "insert", !.cart = n, !.made = TRUE]
                       \/ /\ t.step = "insert"
                          /\ r = [t EXCEPT !.step = "commit", !.wrote = "insert", !.line = n]
                       \/ /\ t.step = "update"
                          /\ r = [t EXCEPT !.step = "commit", !.wrote = "update"]
    BY <1>2, <1>6 DEF GoesOn
  <2>2. /\ r.step = "insert" \/ r.step = "commit"
        /\ r.wrote \in {"nothing", "insert", "update"} /\ r.priced = {}
    <3>1. t.step \in {"cart", "insert", "update"} => t.wrote = "nothing" /\ t.priced = {}
      BY <1>2 DEF Stage, Choosing, Holding, Untouching
    <3>2. r.priced = t.priced /\ r.wrote \in {t.wrote, "insert", "update"}
      <4>1. CASE r = [t EXCEPT !.step = "insert", !.cart = n, !.made = TRUE]
        BY <4>1 DEF Request
      <4>2. CASE r = [t EXCEPT !.step = "commit", !.wrote = "insert", !.line = n]
        BY <4>2 DEF Request
      <4>3. CASE r = [t EXCEPT !.step = "commit", !.wrote = "update"]
        BY <4>3 DEF Request
      <4> QED BY <2>1, <4>1, <4>2, <4>3
    <3>3. r.step = "insert" \/ r.step = "commit"
      BY <2>1 DEF Request
    <3> QED BY <2>1, <3>1, <3>2, <3>3
  <2>3. Alone(r)
    BY <2>2 DEF Alone
  <2> QED BY <1>4, <2>1, <2>3
<1>7. CASE DeleteLine(s)
  <2>1. PICK r : r = [t EXCEPT !.step = "count", !.wrote = "delete"]
    OBVIOUS
  <2>2. r.step = "count" /\ r.cart = t.cart /\ r.dropped = t.dropped /\ ~t.dropped
    BY <1>2, <1>7, <2>1 DEF Request, Stage, DeleteLine, Turn, At
  <2>3. carts[t.cart] # None
    BY <1>2, <1>7 DEF Alone, DeleteLine, Turn, At
  <2>4. Alone(r)
    BY <2>2, <2>3 DEF Alone
  <2> QED BY <1>2, <1>4, <1>7, <2>1, <2>4 DEF DeleteLine, GoesOn
<1>8. CASE CountRemaining(s)
  <2>1. PICK r : r = [t EXCEPT !.step = IF Remaining(t) = {} THEN "drop" ELSE "commit"]
    OBVIOUS
  <2>2. /\ r.step = IF Remaining(t) = {} THEN "drop" ELSE "commit"
        /\ r.cart = t.cart /\ r.line = t.line /\ r.dropped = t.dropped /\ r.priced = t.priced
    BY <1>2, <2>1 DEF Request
  <2>3. ~t.dropped /\ t.priced = {} /\ carts[t.cart] # None
    BY <1>2, <1>8 DEF Alone, Stage, Holding, CountRemaining, Turn, At
  <2>4. Alone(r)
    BY <2>2, <2>3 DEF Alone, Remaining
  <2> QED BY <1>2, <1>4, <1>8, <2>1, <2>4 DEF CountRemaining, GoesOn
<1>9. CASE ClearCart(s)
  <2>1. PICK r, c : /\ c = CurrentCart
                    /\ r = [t EXCEPT !.cart = c, !.step = IF c = 0 THEN "commit" ELSE "drop"]
    OBVIOUS
  <2>2. /\ r.step = IF c = 0 THEN "commit" ELSE "drop"
        /\ r.cart = c /\ r.wrote = t.wrote
    BY <1>2, <2>1 DEF Request
  <2>3. t.wrote = "nothing"
    BY <1>2, <1>9 DEF Stage, Untouching, ClearCart, Turn, At
  <2>4. \A l \in LineIds : Live(l) => lines[l].cart = c /\ c \in CartIds
    BY <2>1, LineFacts
  <2>5. c # 0 => carts[c] # None
    BY <2>1, CurrentIs
  <2>6. Alone(r)
    BY <2>2, <2>3, <2>4, <2>5, IdsArePositive DEF Alone
  <2> QED BY <1>2, <1>4, <1>9, <2>1, <2>6 DEF ClearCart, GoesOn
<1>10. CASE DropCart(s)
  <2>1. PICK r : r = [t EXCEPT !.step = "cascade", !.dropped = TRUE]
    OBVIOUS
  <2>2. /\ r.step = "cascade" /\ r.cart = t.cart /\ r.wrote = t.wrote /\ r.line = t.line
        /\ r.swept = t.swept /\ r.priced = t.priced
    BY <1>2, <2>1 DEF Request
  <2>3. t.step = "drop" /\ carts[t.cart] # None /\ t.swept = {}
    BY <1>2, <1>10 DEF Alone, Stage, DropCart, Turn, At
  <2>4. Alone(r)
    BY <1>2, <2>2, <2>3 DEF Alone
  <2> QED BY <1>2, <1>4, <1>10, <2>1, <2>3, <2>4 DEF DropCart, GoesOn
<1>11. CASE Cascade(s)
  <2>1. PICK r, L : L = LinesOf(t.cart) /\ r = [t EXCEPT !.step = "commit", !.swept = L]
    OBVIOUS
  <2>2. /\ r.step = "commit" /\ r.wrote = t.wrote /\ r.line = t.line /\ r.swept = L
        /\ r.priced = t.priced /\ r.dropped = t.dropped
    BY <1>2, <2>1 DEF Request
  <2>3. t.step = "cascade" /\ t.dropped
    BY <1>2, <1>11 DEF Stage, Cascade, Turn, At
  <2>4. Alone(r)
    BY <1>2, <2>1, <2>2, <2>3 DEF Alone, LinesOf
  <2> QED BY <1>2, <1>4, <1>11, <2>1, <2>4 DEF Cascade, GoesOn
<1>12. ASSUME MakeCart(s) \/ InsertLine(s) \/ SetQuantity(s) PROVE SAlone'
  BY <1>2, <1>5, <1>6, <1>12 DEF MakeCart, InsertLine, SetQuantity, Turn, At
<1> QED BY <1>5, <1>7, <1>8, <1>9, <1>10, <1>11, <1>12 DEF Abort

\* A commit leaves no cart empty, unless the vendor has taken a line from it.
LEMMA CommitAlone ==
    ASSUME CartAssumption, NoneAssumption, CInv, CInv', SAlone, NEW s \in Sessions, Commit(s)
    PROVE  SAlone'
<1>1. PICK t \in Request :
         /\ t = txn[s] /\ ~Idle(s) /\ t.step = "commit" /\ Stage(t) /\ Found(t) /\ Alone(t)
         /\ \A l \in LineIds : lines'[l] = LineAfter(l, t)
         /\ \A c \in CartIds : carts'[c] = CartAfter(c, t)
  BY CommitFacts, OthersIdle
<1>2. \A u \in Sessions : txn'[u] = None
  BY <1>1, OthersIdle DEF Commit, Dies, CInv, TypeOK, Idle
<1>3. ASSUME NoneWithdrawn', NEW c \in CartIds, carts'[c] # None, LinesOf(c)' = {} PROVE FALSE
  <2>1. NoneWithdrawn /\ (carts[c] # None => LinesOf(c) # {})
    BY <1>3 DEF NoneWithdrawn, Commit, menu, SAlone
  <2>2. \A l \in LineIds : lines'[l] = None \/ lines'[l].cart # c
    BY <1>3 DEF LinesOf, Live
  <2>3. t.dropped => t.cart \in CartIds /\ carts[t.cart] # None /\ ~t.made
    BY <1>1, StageFacts DEF Found
  <2>4. CASE t.made /\ c = t.cart
    <3>1. /\ t.wrote = "insert" /\ t.line \in LineIds /\ t.swept = {} /\ Choosing(t)
          /\ t.cart \in CartIds
      BY <1>1, <2>4, StageFacts DEF Choosing
    <3>2. lines'[t.line] = [cart |-> t.cart, choice |-> t.choice, quantity |-> t.quantity]
      BY <1>1, <3>1 DEF LineAfter
    <3>3. [cart |-> t.cart, choice |-> t.choice, quantity |-> t.quantity] \in Line
      BY <3>1 DEF Choosing, Line
    <3> QED BY <2>2, <2>4, <3>1, <3>2, <3>3 DEF NoneAssumption
  <2>5. CASE ~(t.made /\ c = t.cart) /\ t.dropped
    <3>1. c # t.cart /\ carts[c] # None
      BY <1>1, <1>3, <2>3, <2>5 DEF CartAfter
    <3> QED BY <2>3, <2>5, <3>1 DEF CInv, TablesWhole
  <2>6. CASE ~(t.made /\ c = t.cart) /\ ~t.dropped
    <3>1. carts[c] # None /\ t.swept = {}
      BY <1>1, <1>3, <2>6, StageFacts DEF CartAfter
    <3>2. ASSUME NEW l \in LineIds, Live(l), lines[l].cart = c, l # t.line \/ t.wrote # "delete"
          PROVE  FALSE
      <4>1. lines[l] \in Line
        BY <3>2, LineFacts
      <4>2. l = t.line => t.wrote # "insert"
        BY <1>1, <3>2 DEF Found
      <4>3. CASE l = t.line /\ t.wrote = "update"
        <5>1. lines'[l] = [lines[l] EXCEPT !.quantity = t.quantity]
          BY <1>1, <3>1, <4>3 DEF LineAfter
        <5>2. t.quantity \in 1..MaxQuantity
          BY <1>1, <4>3, StageFacts
        <5>3. lines'[l] \in Line /\ lines'[l].cart = c
          BY <3>2, <4>1, <5>1, <5>2 DEF Line
        <5> QED BY <2>2, <5>3 DEF NoneAssumption
      <4>4. CASE ~(l = t.line /\ t.wrote = "update")
        <5>1. lines'[l] = lines[l]
          BY <1>1, <3>1, <3>2, <4>2, <4>4 DEF LineAfter
        <5> QED BY <2>2, <3>2, <5>1 DEF Live
      <4> QED BY <4>3, <4>4
    <3>3. PICK l \in LineIds : Live(l) /\ lines[l].cart = c
      BY <2>1, <3>1 DEF LinesOf
    <3>4. l = t.line /\ t.wrote = "delete"
      BY <3>2, <3>3
    <3>5. lines[l].cart = t.cart /\ LinesOf(t.cart) \ {t.line} # {}
      BY <1>1, <2>1, <2>6, <3>3, <3>4 DEF Found, Alone
    <3> QED BY <3>2, <3>3, <3>5 DEF LinesOf
  <2> QED BY <2>4, <2>5, <2>6
<1> QED BY <1>2, <1>3 DEF SAlone, Idle

LEMMA MenuAlone ==
    ASSUME CartAssumption, NoneAssumption, CInv, SAlone,
           \/ \E v \in Sizes : AddVariant(v) \/ DeleteVariant(v)
           \/ \E d \in Dishes : HideItem(d)
           \/ UNCHANGED vars
    PROVE  SAlone'
<1>1. carts' = carts /\ txn' = txn
  BY DEF AddVariant, DeleteVariant, HideItem, vars, tables
<1>2. \A l \in LineIds : Live(l)' => Live(l) /\ lines'[l] = lines[l]
  BY DEF AddVariant, DeleteVariant, HideItem, vars, tables, Live
<1>3. NoneWithdrawn' => NoneWithdrawn /\ lines' = lines
  <2>1. ASSUME NEW v \in Sizes, DeleteVariant(v) PROVE ~NoneWithdrawn'
    <3>1. size' = [size EXCEPT ![v] = "deleted"] /\ size \in [Sizes -> {"planned", "live", "deleted"}]
      BY <2>1 DEF DeleteVariant, CInv, TypeOK
    <3>2. size'[v] = "deleted"
      BY <3>1
    <3> QED BY <3>2 DEF NoneWithdrawn
  <2>2. ASSUME NEW v \in Sizes, AddVariant(v) PROVE NoneWithdrawn' => NoneWithdrawn /\ lines' = lines
    BY <2>2 DEF AddVariant, NoneWithdrawn, CInv, TypeOK, tables
  <2> QED BY <2>1, <2>2 DEF HideItem, vars, menu, tables, NoneWithdrawn
<1>4. \A c : LinesOf(c)' \subseteq LinesOf(c)
  BY <1>2 DEF LinesOf
<1>5. NoneWithdrawn' => \A c \in CartIds : carts'[c] # None => LinesOf(c)' # {}
  BY <1>1, <1>3 DEF SAlone, LinesOf, Live
<1>6. ASSUME NEW s \in Sessions, txn[s] # None PROVE Alone(txn[s])'
  <2>1. PICK t \in Request : t = txn[s] /\ Alone(t)
    BY <1>6, OpenFacts, OthersIdle DEF Idle
  <2>2. NoneWithdrawn' => NoneWithdrawn /\ LinesOf(t.cart)' = LinesOf(t.cart)
    BY <1>3 DEF LinesOf, Live
  <2>3. Alone(t)'
    BY <1>1, <1>2, <1>4, <2>1, <2>2 DEF Alone
  <2> QED BY <1>1, <2>1, <2>3
<1>7. \A s, u \in Sessions : txn'[s] = None \/ txn'[u] = None \/ s = u
  BY <1>1 DEF SAlone, Idle
<1> QED BY <1>1, <1>5, <1>6, <1>7 DEF SAlone, Idle

LEMMA SerialStep ==
    ASSUME CartAssumption, NoneAssumption, CInv, CInv', SInv, [Next]_vars
    PROVE  SInv'
<1>1. overlap' = overlap
  BY DEF Next, Step, ModifyItem, UpdateLine, PriceCart, MakeCart, InsertLine, SetQuantity,
         DeleteLine, CountRemaining, ClearCart, DropCart, Cascade, Commit, Abort,
         AddVariant, DeleteVariant, HideItem, vars
<1>2. SUFFICES ASSUME ~overlap, SAlone PROVE SAlone'
  BY <1>1 DEF SInv
<1>3. CASE \E s \in Sessions : PriceCart(s) \/ Step(s) \/ Abort(s)
  BY <1>2, <1>3, ModifyAlone, StatementAlone, CommitAlone DEF Step
<1> QED BY <1>2, <1>3, ModifyAlone, MenuAlone DEF Next

LEMMA SerialInvariant == Spec => []SInv
<1>1. Init => SInv
  <2> SUFFICES ASSUME Init PROVE SAlone
    BY DEF SInv
  <2> QED BY DEF Init, SAlone, Idle
<1>2. CInv /\ CInv' /\ SInv /\ [Next]_vars => SInv'
  BY SerialStep, CartAssumption, NoneAssumption
<1> QED BY <1>1, <1>2, CartInvariant, PTL DEF Spec

\* A line belongs to a cart there is, of the restaurant that sells it; a customer has
\* one cart, with one line of a configuration, whatever overlaps; and requests taken one
\* at a time leave no cart without a line behind.
THEOREM CartWhole == Spec => []CartIsWhole
<1>1. ASSUME CInv, SInv PROVE CartIsWhole
  <2> DEFINE C == {c \in CartIds : carts[c] # None}
  <2>1. Cardinality(C) <= 1
    <3>1. CASE C = {}
      <4> HIDE DEF C
      <4>1. Cardinality(C) = 0
        BY <3>1, FS_EmptySet
      <4> QED BY <4>1
    <3>2. CASE \E c : c \in C
      <4>1. PICK c : c \in C
        BY <3>2
      <4>2. C = {c}
        BY <1>1, <4>1 DEF CInv, TablesWhole
      <4> HIDE DEF C
      <4>3. Cardinality(C) = 1
        BY <4>2, FS_Singleton
      <4> QED BY <4>3
    <3> QED BY <3>1, <3>2
  <2>2. ~overlap /\ (\A v \in Sizes : size[v] # "deleted") =>
            \A c \in CartIds : carts[c] # None => LinesOf(c) # {}
    BY <1>1 DEF SInv, SAlone, NoneWithdrawn
  <2>3. \A l \in LineIds : Live(l) => carts[lines[l].cart] = Seller[DishOf(lines[l].choice)]
    BY <1>1 DEF CInv, TablesWhole
  <2>4. \A k, l \in LineIds : Live(k) /\ Live(l) /\ k # l => lines[k].choice # lines[l].choice
    BY <1>1 DEF CInv, TablesWhole
  <2> QED BY <2>1, <2>2, <2>3, <2>4 DEF CartIsWhole
<1> QED BY <1>1, CartInvariant, SerialInvariant, PTL

(***************************************************************************)
(* The cart as its owner sees it                                           *)
(***************************************************************************)
\* How many of a choice a table of lines holds.
LinesWith(L, c) == {l \in LineIds : L[l] # None /\ L[l].choice = c}
Held(L, c) == MapThenSumSet(LAMBDA l : L[l].quantity, LinesWith(L, c))

\* The sum over no line, and over one.
LEMMA SumOfNone ==
    ASSUME NEW L, NEW c, LinesWith(L, c) = {}
    PROVE  Held(L, c) = 0
<1> DEFINE S == LinesWith(L, c)
           F(f) == f = [s \in SUBSET S |->
                IF s = {} THEN 0
                ELSE LET x == CHOOSE x \in s : TRUE IN L[x].quantity + f[s \ {x}]]
           it == CHOOSE f : F(f)
           g == [s \in SUBSET S |-> 0]
<1>1. F(g)
  BY DEF F, g
<1>2. F(it)
  <2> HIDE DEF F
  <2> QED BY <1>1
<1>3. it[S] = 0
  <2> HIDE DEF it
  <2>1. S \in SUBSET S /\ S = {}
    OBVIOUS
  <2> QED BY <1>2, <2>1
<1> QED BY <1>3 DEF Held, MapThenSumSet, MapThenFoldSet

LEMMA SumOfOne ==
    ASSUME NEW L, NEW c, NEW k, LinesWith(L, c) = {k}, L[k].quantity \in Nat
    PROVE  Held(L, c) = L[k].quantity
<1> DEFINE S == LinesWith(L, c)
           F(f) == f = [s \in SUBSET S |->
                IF s = {} THEN 0
                ELSE LET x == CHOOSE x \in s : TRUE IN L[x].quantity + f[s \ {x}]]
           it == CHOOSE f : F(f)
           g == [s \in SUBSET S |-> IF s = {} THEN 0 ELSE L[k].quantity]
           h == [s \in SUBSET S |->
                IF s = {} THEN 0
                ELSE LET x == CHOOSE x \in s : TRUE IN L[x].quantity + g[s \ {x}]]
<1>1. ASSUME NEW f, F(f) PROVE f[{}] = 0 /\ f[S] = L[k].quantity + f[{}]
  <2>1. {} \in SUBSET S /\ S \in SUBSET S /\ S # {}
    OBVIOUS
  <2>2. f[{}] = 0
    BY <1>1, <2>1
  <2>3. (CHOOSE x \in S : TRUE) = k /\ S \ {k} = {}
    OBVIOUS
  <2>4. f[S] = LET x == CHOOSE x \in S : TRUE IN L[x].quantity + f[S \ {x}]
    BY <1>1, <2>1
  <2> QED BY <2>2, <2>3, <2>4
<1>2. F(g)
  <2>1. \A s \in SUBSET S : s = {} \/ s = S
    OBVIOUS
  <2>2. (CHOOSE x \in S : TRUE) = k /\ S \ {k} = {} /\ {} \in SUBSET S
    OBVIOUS
  <2>3. g[{}] = 0
    BY <2>2
  <2>4. \A s \in SUBSET S : g[s] = h[s]
    BY <2>1, <2>2, <2>3
  <2>5. g = h
    BY <2>4
  <2> QED BY <2>5
<1>3. F(it)
  <2> HIDE DEF F
  <2> QED BY <1>2
<1>4. it[S] = L[k].quantity
  <2> HIDE DEF F, it
  <2>1. it[{}] = 0 /\ it[S] = L[k].quantity + it[{}]
    BY <1>1, <1>3
  <2> QED BY <2>1
<1> QED BY <1>4 DEF Held, MapThenSumSet, MapThenFoldSet

\* A table in which no two lines have the same choice.
Whole(L) ==
    /\ L \in [LineIds -> Line \cup {None}]
    /\ \A k, l \in LineIds : L[k] # None /\ L[l] # None /\ k # l => L[k].choice # L[l].choice

LEMMA HeldFacts ==
    ASSUME CartAssumption, NEW L, Whole(L), NEW c
    PROVE  /\ (\A l \in LineIds : L[l] # None => L[l].choice # c) => Held(L, c) = 0
           /\ \A k \in LineIds : L[k] # None /\ L[k].choice = c => Held(L, c) = L[k].quantity
<1>1. ASSUME \A l \in LineIds : L[l] # None => L[l].choice # c PROVE Held(L, c) = 0
  <2>1. LinesWith(L, c) = {}
    BY <1>1 DEF LinesWith
  <2> QED BY <2>1, SumOfNone
<1>2. ASSUME NEW k \in LineIds, L[k] # None, L[k].choice = c PROVE Held(L, c) = L[k].quantity
  <2>1. LinesWith(L, c) = {k}
    BY <1>2 DEF LinesWith, Whole
  <2>2. L[k].quantity \in Nat
    BY <1>2 DEF Whole, Line, CartAssumption
  <2> QED BY <2>1, <2>2, SumOfOne
<1> QED BY <1>1, <1>2

\* The lines of a choice decide how many of it there are.
LEMMA HeldSame ==
    ASSUME CartAssumption, NEW K, NEW L, Whole(K), Whole(L), NEW c,
           \A l \in LineIds : L[l] # None /\ L[l].choice = c <=> K[l] # None /\ K[l].choice = c,
           \A l \in LineIds : K[l] # None /\ K[l].choice = c => L[l].quantity = K[l].quantity
    PROVE  Held(L, c) = Held(K, c)
<1>1. CASE \A l \in LineIds : K[l] # None => K[l].choice # c
  <2>1. Held(K, c) = 0
    BY <1>1, HeldFacts
  <2>2. Held(L, c) = 0
    BY <1>1, HeldFacts
  <2> QED BY <2>1, <2>2
<1>2. CASE \E l \in LineIds : K[l] # None /\ K[l].choice = c
  <2>1. PICK l \in LineIds : K[l] # None /\ K[l].choice = c
    BY <1>2
  <2>2. Held(K, c) = K[l].quantity
    BY <2>1, HeldFacts
  <2>3. Held(L, c) = L[l].quantity
    BY <2>1, HeldFacts
  <2> QED BY <2>1, <2>2, <2>3
<1> QED BY <1>1, <1>2

\* The tables before and after a step.
LEMMA QuantitiesAre ==
    ASSUME CInv, CInv'
    PROVE  \E K, L : /\ K = lines /\ L = lines' /\ Whole(K) /\ Whole(L)
                     /\ Quantities = [c \in Choice |-> Held(K, c)]
                     /\ Quantities' = [c \in Choice |-> Held(L, c)]
<1>1. PICK K, L : K = lines /\ L = lines'
  OBVIOUS
<1>2. Whole(K)
  BY <1>1 DEF Whole, CInv, TypeOK, TablesWhole, Live
<1>3. Whole(L)
  BY <1>1 DEF Whole, CInv, TypeOK, TablesWhole, Live
<1>4. Quantities = [c \in Choice |-> Held(K, c)]
  BY <1>1 DEF Quantities, Held, LinesWith, Live, MapThenSumSet, MapThenFoldSet
<1>5. Quantities' = [c \in Choice |-> Held(L, c)]
  BY <1>1 DEF Quantities, Held, LinesWith, Live, MapThenSumSet, MapThenFoldSet
<1> QED BY <1>1, <1>2, <1>3, <1>4, <1>5

\* One line takes a number of its choice and the rest stays: a move of Basket.
LEMMA PutMoves ==
    ASSUME CartAssumption, CInv, CInv', NEW K, NEW L, K = lines, L = lines',
           Whole(K), Whole(L),
           Quantities = [c \in Choice |-> Held(K, c)],
           Quantities' = [c \in Choice |-> Held(L, c)],
           NEW n \in LineIds, \A l \in LineIds \ {n} : L[l] = K[l],
           NEW c \in Choice, NEW q \in 0..MaxQuantity,
           K[n] # None => K[n].choice = c,
           \A l \in LineIds \ {n} : K[l] # None => K[l].choice # c,
           \/ q = 0 /\ L[n] = None
           \/ L[n] # None /\ L[n].choice = c /\ L[n].quantity = q,
           q > 0 => \A l \in LineIds : K[l] # None =>
                       Seller[DishOf(K[l].choice)] = Seller[DishOf(c)]
    PROVE  B!Edit
<1>1. Held(L, c) = q
  <2>1. CASE q = 0 /\ L[n] = None
    <3>1. \A l \in LineIds : L[l] # None => L[l].choice # c
      BY <2>1
    <3> QED BY <2>1, <3>1, HeldFacts
  <2>2. CASE L[n] # None /\ L[n].choice = c /\ L[n].quantity = q
    BY <2>2, HeldFacts
  <2> QED BY <2>1, <2>2
<1>2. ASSUME NEW d \in Choice, d # c PROVE Held(L, d) = Held(K, d)
  <2>1. \A l \in LineIds : L[l] # None /\ L[l].choice = d <=> K[l] # None /\ K[l].choice = d
    BY <1>2
  <2>2. \A l \in LineIds : K[l] # None /\ K[l].choice = d => L[l].quantity = K[l].quantity
    BY <1>2
  <2> QED BY <2>1, <2>2, HeldSame
<1>3. Quantities' = [Quantities EXCEPT ![c] = q]
  BY <1>1, <1>2
<1>4. ASSUME q > 0, NEW d \in Choice, Quantities[d] > 0
      PROVE  Seller[DishOf(d)] = Seller[DishOf(c)]
  <2>1. Held(K, d) # 0
    BY <1>4
  <2>2. PICK l \in LineIds : K[l] # None /\ K[l].choice = d
    BY <2>1, HeldFacts
  <2> QED BY <1>4, <2>2
<1>5. B!Put(c, q)
  BY <1>3, <1>4 DEF B!Put
<1> QED BY <1>5 DEF B!Edit

LEMMA SellersAgree ==
    ASSUME CartAssumption, CInv, NEW k \in LineIds, NEW l \in LineIds, Live(k), Live(l)
    PROVE  Seller[DishOf(lines[k].choice)] = Seller[DishOf(lines[l].choice)]
BY LineFacts

\* The commit of a request that is alone.
LEMMA CommitMoves ==
    ASSUME CartAssumption, NoneAssumption, CInv, CInv', SAlone, NEW s \in Sessions, Commit(s),
           Quantities' # Quantities
    PROVE  (Orders(s) /\ B!Order) \/ (~Orders(s) /\ B!Edit)
<1>1. PICK t \in Request :
         /\ t = txn[s] /\ ~Idle(s) /\ t.step = "commit" /\ Stage(t) /\ Found(t) /\ Alone(t)
         /\ \A l \in LineIds : lines'[l] = LineAfter(l, t)
  BY CommitFacts, OthersIdle
<1>2. PICK K, L : /\ K = lines /\ L = lines' /\ Whole(K) /\ Whole(L)
                  /\ Quantities = [c \in Choice |-> Held(K, c)]
                  /\ Quantities' = [c \in Choice |-> Held(L, c)]
  BY QuantitiesAre
<1>3. \E l \in LineIds : L[l] # K[l]
  <2> SUFFICES ASSUME \A l \in LineIds : L[l] = K[l] PROVE FALSE
    OBVIOUS
  <2>1. L = K
    BY <1>2 DEF Whole
  <2> QED BY <1>2, <2>1
<1>4. Orders(s) <=> t.priced # {}
  BY <1>1 DEF Orders, At
<1>5. CASE t.wrote = "insert"
  <2>1. /\ t.line \in LineIds /\ Choosing(t) /\ t.cart \in CartIds /\ t.swept = {}
        /\ t.priced = {} /\ t.choice \in Choice /\ t.quantity \in 1..MaxQuantity
    BY <1>1, <1>5, StageFacts DEF Choosing
  <2>2. /\ L[t.line] = [cart |-> t.cart, choice |-> t.choice, quantity |-> t.quantity]
        /\ \A l \in LineIds \ {t.line} : L[l] = K[l]
    BY <1>1, <1>2, <1>5, <2>1 DEF LineAfter
  <2>3. L[t.line] \in Line
    BY <2>1, <2>2 DEF Line
  <2>4. L[t.line] # None /\ L[t.line].choice = t.choice /\ L[t.line].quantity = t.quantity
    BY <2>2, <2>3 DEF NoneAssumption
  <2>5. /\ K[t.line] = None
        /\ t.made => \A c \in CartIds : carts[c] = None
        /\ ~t.made => carts[t.cart] = Seller[DishOf(t.choice)]
        /\ \A l \in LinesOf(t.cart) : lines[l].choice # t.choice
    BY <1>1, <1>2, <1>5 DEF Found, Live
  <2>6. ASSUME NEW l \in LineIds, K[l] # None
        PROVE  Seller[DishOf(K[l].choice)] = Seller[DishOf(t.choice)] /\ K[l].choice # t.choice
    <3>1. /\ Live(l) /\ lines[l].cart \in CartIds /\ carts[lines[l].cart] # None
          /\ carts[lines[l].cart] = Seller[DishOf(lines[l].choice)]
      BY <1>2, <2>6, LineFacts DEF Live
    <3>2. ~t.made
      BY <2>5, <3>1
    <3>3. Seller[DishOf(t.choice)] # None
      BY <2>1 DEF Choice, DishOf, CartAssumption
    <3>4. lines[l].cart = t.cart
      BY <2>1, <2>5, <3>1, <3>2, <3>3 DEF CInv, TablesWhole
    <3> QED BY <1>2, <2>5, <3>1, <3>2, <3>4 DEF LinesOf
  <2>7. t.quantity \in 0..MaxQuantity
    BY <2>1
  <2>8. B!Edit
    BY <1>2, <2>1, <2>2, <2>4, <2>5, <2>6, <2>7, PutMoves
  <2> QED BY <1>4, <2>1, <2>8
<1>6. CASE t.wrote = "update"
  <2>1. /\ t.line \in LineIds /\ t.swept = {} /\ t.priced = {} /\ t.choice \in Choice
        /\ t.quantity \in 1..MaxQuantity
    BY <1>1, <1>6, StageFacts DEF Holding
  <2>2. Live(t.line) /\ lines[t.line].choice = t.choice /\ lines[t.line] \in Line
    BY <1>1, <1>6, <2>1, LineFacts DEF Found
  <2>3. /\ L[t.line] = [K[t.line] EXCEPT !.quantity = t.quantity]
        /\ \A l \in LineIds \ {t.line} : L[l] = K[l]
    BY <1>1, <1>2, <1>6, <2>1 DEF LineAfter
  <2>4. L[t.line] \in Line /\ L[t.line].choice = t.choice /\ L[t.line].quantity = t.quantity
    BY <1>2, <2>1, <2>2, <2>3 DEF Line
  <2>5. L[t.line] # None
    BY <2>4 DEF NoneAssumption
  <2>6. ASSUME NEW l \in LineIds, K[l] # None
        PROVE  /\ Seller[DishOf(K[l].choice)] = Seller[DishOf(t.choice)]
               /\ l # t.line => K[l].choice # t.choice
    <3>1. Live(l)
      BY <1>2, <2>6 DEF Live
    <3> QED BY <1>2, <2>1, <2>2, <3>1, SellersAgree DEF CInv, TablesWhole
  <2>7. t.quantity \in 0..MaxQuantity /\ K[t.line].choice = t.choice
    BY <1>2, <2>1, <2>2
  <2>8. B!Edit
    <3>1. /\ \A l \in LineIds \ {t.line} : L[l] = K[l]
          /\ \A l \in LineIds \ {t.line} : K[l] # None => K[l].choice # t.choice
          /\ \A l \in LineIds : K[l] # None =>
                Seller[DishOf(K[l].choice)] = Seller[DishOf(t.choice)]
      BY <2>3, <2>6
    <3> QED BY <1>2, <2>1, <2>4, <2>5, <2>7, <3>1, PutMoves
  <2> QED BY <1>4, <2>1, <2>8
<1>7. CASE t.wrote = "delete"
  <2>1. /\ t.line \in LineIds /\ t.priced = {} /\ t.choice \in Choice
        /\ t.swept \subseteq {t.line}
    BY <1>1, <1>7, StageFacts DEF Holding, Alone
  <2>2. L[t.line] = None /\ \A l \in LineIds \ {t.line} : L[l] = K[l]
    BY <1>1, <1>2, <1>7, <2>1 DEF LineAfter
  <2>3. Live(t.line)
    BY <1>2, <1>3, <2>2 DEF Live
  <2>4. lines[t.line].choice = t.choice
    BY <1>1, <1>7, <2>3 DEF Found
  <2>5. \A l \in LineIds \ {t.line} : K[l] # None => K[l].choice # t.choice
    BY <1>2, <2>1, <2>3, <2>4 DEF Live, CInv, TablesWhole
  <2>6. 0 \in 0..MaxQuantity /\ K[t.line].choice = t.choice
    BY <1>2, <2>4 DEF CartAssumption
  <2>7. B!Edit
    BY <1>2, <2>1, <2>2, <2>5, <2>6, PutMoves
  <2> QED BY <1>4, <2>1, <2>7
<1>8. CASE t.wrote = "nothing"
  <2>1. t.priced # {}
    BY <1>1, <1>8, StageFacts
  <2>2. \A l \in LineIds : Live(l) => l \in t.swept
    BY <1>1, <2>1 DEF Alone
  <2>3. \A l \in LineIds : L[l] = None
    BY <1>1, <1>2, <1>8, <2>2 DEF LineAfter, Live
  <2>4. \A c \in Choice : Held(L, c) = 0
    BY <1>2, <2>3, HeldFacts
  <2>5. Quantities' = B!Empty
    BY <1>2, <2>4 DEF B!Empty
  <2>6. B!Order
    BY <2>5 DEF B!Order
  <2> QED BY <1>4, <2>1, <2>6
<1> QED BY <1>1, <1>5, <1>6, <1>7, <1>8, StageFacts

LEMMA WithdrawMoves ==
    ASSUME CartAssumption, NoneAssumption, CInv, CInv', NEW v \in Sizes, DeleteVariant(v)
    PROVE  B!Withdraw(v)
<1>1. PICK K, L : /\ K = lines /\ L = lines' /\ Whole(K) /\ Whole(L)
                  /\ Quantities = [c \in Choice |-> Held(K, c)]
                  /\ Quantities' = [c \in Choice |-> Held(L, c)]
  BY QuantitiesAre
<1>2. \A l \in LineIds : L[l] = IF K[l] # None /\ SizeOf(K[l].choice) = v THEN None ELSE K[l]
  BY <1>1 DEF DeleteVariant, Live
<1>3. ASSUME NEW c \in Choice, SizeOf(c) = v PROVE Held(L, c) = 0
  <2>1. \A l \in LineIds : L[l] # None => L[l].choice # c
    BY <1>2, <1>3
  <2> QED BY <1>1, <2>1, HeldFacts
<1>4. ASSUME NEW c \in Choice, SizeOf(c) # v PROVE Held(L, c) = Held(K, c)
  <2>1. \A l \in LineIds : L[l] # None /\ L[l].choice = c <=> K[l] # None /\ K[l].choice = c
    BY <1>2, <1>4
  <2>2. \A l \in LineIds : K[l] # None /\ K[l].choice = c => L[l].quantity = K[l].quantity
    BY <1>2, <1>4
  <2> QED BY <1>1, <2>1, <2>2, HeldSame
<1> QED BY <1>1, <1>3, <1>4 DEF B!Withdraw

\* Taken one at a time, requests do to the cart what Basket promises: one choice is
\* changed, and only an order or the vendor takes more.
THEOREM BasketKept == Spec => KeepsBasket
<1> DEFINE Moves == \/ overlap
                    \/ \E s \in Sessions : Orders(s) /\ B!Order
                    \/ \E s \in Sessions : ~Orders(s) /\ Commit(s) /\ B!Edit
                    \/ \E v \in Sizes : DeleteVariant(v) /\ B!Withdraw(v)
<1>1. ASSUME CartAssumption, NoneAssumption, CInv, CInv', SInv, [Next]_vars
      PROVE  [Moves]_Quantities
  <2>1. SUFFICES ASSUME ~overlap, Quantities' # Quantities PROVE Moves
    OBVIOUS
  <2>2. SAlone
    BY <1>1, <2>1 DEF SInv
  <2>3. lines' # lines
    BY <1>1, <2>1, QuantitiesAre
  <2>4. (\E s \in Sessions : Commit(s)) \/ (\E v \in Sizes : DeleteVariant(v))
    BY <1>1, <2>3 DEF Next, Step, ModifyItem, UpdateLine, PriceCart, MakeCart, InsertLine,
       SetQuantity, DeleteLine, CountRemaining, ClearCart, DropCart, Cascade, Abort,
       AddVariant, HideItem, vars, tables
  <2>5. ASSUME NEW s \in Sessions, Commit(s) PROVE Moves
    BY <1>1, <2>1, <2>2, <2>5, CommitMoves
  <2>6. ASSUME NEW v \in Sizes, DeleteVariant(v) PROVE Moves
    BY <1>1, <2>6, WithdrawMoves
  <2> QED BY <2>4, <2>5, <2>6
<1>2. CartAssumption /\ NoneAssumption
  BY CartAssumption, NoneAssumption
<1>3. CInv /\ CInv' /\ SInv /\ [Next]_vars => [Moves]_Quantities
  BY <1>1, <1>2
<1>4. ASSUME Init PROVE B!Init
  <2>1. PICK K : K = lines
    OBVIOUS
  <2>2. Whole(K) /\ \A l \in LineIds : K[l] = None
    BY <1>4, <2>1 DEF Init, Whole
  <2>3. \A c \in Choice : Held(K, c) = 0
    BY <1>2, <2>2, HeldFacts
  <2>4. Quantities = [c \in Choice |-> Held(K, c)]
    BY <2>1 DEF Quantities, Held, LinesWith, Live, MapThenSumSet, MapThenFoldSet
  <2> QED BY <2>3, <2>4 DEF B!Init, B!Empty
<1> QED BY <1>3, <1>4, CartInvariant, SerialInvariant, PTL DEF Spec, KeepsBasket
=============================================================================
