-------------------------------- MODULE Cart --------------------------------
(***************************************************************************)
(* One customer's cart on several devices (services/customer/cart.py),     *)
(* while the vendor edits the menu under it.  A request is a transaction   *)
(* of several statements; what it has written and not yet committed is     *)
(* kept in its record, with the row locks that follow from it.             *)
(***************************************************************************)
EXTENDS Naturals, FiniteSetsExt

CONSTANTS
    Sessions, Dishes, Restaurants, Sizes,
    Seller,             \* the restaurant of each dish
    SizedDish,          \* the dish of each size
    Hideable,           \* dishes that are hidden or deleted while the model runs
    MaxQuantity,        \* MAX_LINE_QUANTITY
    MaxCarts, MaxLines, \* bounds: carts and lines ever made
    None

ASSUME CartAssumption ==
    /\ Seller \in [Dishes -> Restaurants] /\ SizedDish \in [Sizes -> Dishes]
    /\ Hideable \subseteq Dishes
    /\ MaxQuantity \in Nat \ {0} /\ MaxCarts \in Nat /\ MaxLines \in Nat
    /\ None \notin Restaurants \cup Sizes

Choice == Dishes \X (Sizes \cup {None})
DishOf(c) == c[1]
SizeOf(c) == c[2]

CartIds == 1..MaxCarts
LineIds == 1..MaxLines
Line == [cart : CartIds, choice : Choice, quantity : 1..MaxQuantity]

VARIABLES
    carts,              \* the restaurant of each committed cart
    lines,              \* the committed lines
    cartsMade, linesMade,   \* ids handed out
    size,               \* a size is "planned", "live" or "deleted"
    hidden,             \* dishes hidden or soft-deleted
    txn,                \* the open request of each session
    overlap             \* whether a customer's requests overlap

menu == <<size, hidden>>
tables == <<carts, lines>>
ids == <<cartsMade, linesMade>>
vars == <<tables, ids, menu, txn, overlap>>

(***************************************************************************)
(* Requests and their locks                                                *)
(***************************************************************************)
\* cart 0: none; line 0: none.  wrote: the uncommitted write to `line`; made: the
\* cart is uncommitted; dropped: the cart row is deleted; swept: the lines its
\* deletion cascades to; priced: the lines an order has read.
Request == [step : {"cart", "insert", "update", "delete", "count", "clear",
                    "drop", "cascade", "commit"},
            choice : Choice \cup {None}, quantity : 0..MaxQuantity,
            cart : 0..MaxCarts, line : 0..MaxLines,
            wrote : {"nothing", "insert", "update", "delete"},
            made : BOOLEAN, dropped : BOOLEAN,
            swept : SUBSET LineIds, priced : SUBSET LineIds]

\* Neither a line nor a request is the absence of one.
ASSUME NoneAssumption == None \notin Line /\ None \notin Request

NewRequest == [step |-> "commit", choice |-> None, quantity |-> 0, cart |-> 0, line |-> 0,
               wrote |-> "nothing", made |-> FALSE, dropped |-> FALSE,
               swept |-> {}, priced |-> {}]

Live(l) == lines[l] # None
LinesOf(c) == {l \in LineIds : Live(l) /\ lines[l].cart = c}
CurrentCart == IF \E c \in CartIds : carts[c] # None
               THEN CHOOSE c \in CartIds : carts[c] # None ELSE 0
LineWith(c, choice) ==
    IF \E l \in LinesOf(c) : lines[l].choice = choice
    THEN CHOOSE l \in LinesOf(c) : lines[l].choice = choice ELSE 0

Idle(s) == txn[s] = None
MayStart(s) == Idle(s) /\ (overlap \/ \A t \in Sessions : Idle(t))
At(s, step) == ~Idle(s) /\ txn[s].step = step

\* Sessions other than s with an open request.
Others(s) == {t \in Sessions \ {s} : ~Idle(t)}

LockedLines(t) == txn[t].swept \cup
    (IF txn[t].wrote \in {"update", "delete"} THEN {txn[t].line} ELSE {})

\* Whom a write to the lines L waits for.
LineHolders(s, L) == {t \in Others(s) : LockedLines(t) \cap L # {}}

\* Whom a new line of cart c waits for: the foreign key reads the cart's row.
CartDeleters(s, c) == {t \in Others(s) : txn[t].dropped /\ txn[t].cart = c}

\* Whom the deletion of cart c waits for: new lines hold its key.
CartHolders(s, c) ==
    CartDeleters(s, c) \cup {t \in Others(s) : txn[t].wrote = "insert" /\ txn[t].cart = c}

\* Whom a new cart waits for: UNIQUE(user_id).
UserHolders(s) == {t \in Others(s) : txn[t].made \/ txn[t].dropped}

\* Whom a new line waits for: the same configuration, inserted or deleted.
ChoiceHolders(s) == {t \in Others(s) :
    \/ txn[t].wrote = "insert" /\ txn[t].cart = txn[s].cart /\ txn[t].choice = txn[s].choice
    \/ \E l \in LockedLines(t) : /\ txn[t].wrote = "delete" \/ l \in txn[t].swept
                                 /\ Live(l) /\ lines[l].cart = txn[s].cart
                                 /\ lines[l].choice = txn[s].choice}

\* Whom the current statement of s waits for.
WaitsFor(s) ==
    CASE At(s, "cart") -> UserHolders(s)
      [] At(s, "insert") -> CartDeleters(s, txn[s].cart) \cup ChoiceHolders(s)
      [] At(s, "update") \/ At(s, "delete") -> LineHolders(s, {txn[s].line})
      [] At(s, "drop") -> CartHolders(s, txn[s].cart)
      [] At(s, "cascade") -> LineHolders(s, LinesOf(txn[s].cart))
      [] OTHER -> {}

Turn(s, step) == At(s, step) /\ WaitsFor(s) = {}

\* The request goes on with the fields `change` gives it.
GoesOn(s, r) == txn' = [txn EXCEPT ![s] = r]
Dies(s) == txn' = [txn EXCEPT ![s] = None]

\* Every variable holds a value of its kind.
TypeOK ==
    /\ carts \in [CartIds -> Restaurants \cup {None}]
    /\ lines \in [LineIds -> Line \cup {None}]
    /\ cartsMade \in 0..MaxCarts /\ linesMade \in 0..MaxLines
    /\ size \in [Sizes -> {"planned", "live", "deleted"}] /\ hidden \subseteq Dishes
    /\ txn \in [Sessions -> Request \cup {None}] /\ overlap \in BOOLEAN

Init ==
    /\ carts = [c \in CartIds |-> None] /\ lines = [l \in LineIds |-> None]
    /\ cartsMade = 0 /\ linesMade = 0
    /\ size = [v \in Sizes |-> "planned"] /\ hidden = {}
    /\ txn = [s \in Sessions |-> None] /\ overlap \in BOOLEAN

(***************************************************************************)
(* POST /cart/items                                                        *)
(***************************************************************************)
LiveSizes(d) == {v \in Sizes : SizedDish[v] = d /\ size[v] = "live"}

\* A dish that has sizes needs one; one that has none takes none.
Orderable(c) ==
    /\ DishOf(c) \notin hidden
    /\ IF LiveSizes(DishOf(c)) = {} THEN SizeOf(c) = None
                                    ELSE SizeOf(c) \in LiveSizes(DishOf(c))

\* The line that holds the choice is set, or removed when q is 0.
ChangeLine(s, l, c, q) ==
    \/ /\ q = 0
       /\ GoesOn(s, [NewRequest EXCEPT !.step = "delete", !.cart = lines[l].cart,
                                       !.line = l, !.choice = c])
    \/ /\ q \in 1..MaxQuantity /\ q # lines[l].quantity
       /\ GoesOn(s, [NewRequest EXCEPT !.step = "update", !.cart = lines[l].cart,
                                       !.line = l, !.choice = c, !.quantity = q])

\* A cart of another restaurant is a 409, which changes nothing.
ModifyItem(s, c, q, add) ==
    /\ MayStart(s) /\ Orderable(c)
    /\ LET cart == CurrentCart
           line == LineWith(cart, c)
       IN \/ /\ cart = 0 /\ q > 0
             /\ GoesOn(s, [NewRequest EXCEPT !.step = "cart", !.choice = c, !.quantity = q])
          \/ /\ cart # 0 /\ carts[cart] = Seller[DishOf(c)]
             /\ \/ /\ line = 0 /\ q > 0
                   /\ GoesOn(s, [NewRequest EXCEPT !.step = "insert", !.cart = cart,
                                                   !.choice = c, !.quantity = q])
                \/ /\ line # 0 /\ (add => q > 0)
                   /\ ChangeLine(s, line, c, IF add THEN lines[line].quantity + q ELSE q)
    /\ UNCHANGED <<tables, ids, menu, overlap>>

\* PATCH and DELETE /cart/items/{line_id}.
UpdateLine(s, l, q) ==
    /\ MayStart(s) /\ Live(l) /\ lines[l].cart = CurrentCart
    /\ ChangeLine(s, l, lines[l].choice, q)
    /\ UNCHANGED <<tables, ids, menu, overlap>>

\* INSERT INTO carts; a second cart of the customer is refused.  So is one beyond
\* the bound.
MakeCart(s) ==
    /\ Turn(s, "cart")
    /\ \/ /\ CurrentCart # 0 \/ cartsMade = MaxCarts
          /\ Dies(s)
          /\ UNCHANGED cartsMade
       \/ /\ CurrentCart = 0 /\ cartsMade < MaxCarts
          /\ cartsMade' = cartsMade + 1
          /\ GoesOn(s, [txn[s] EXCEPT !.step = "insert", !.cart = cartsMade + 1,
                                      !.made = TRUE])
    /\ UNCHANGED <<tables, linesMade, menu, overlap>>

\* Mutant of LineRefused: no foreign key to the cart.
LineRefusedTwice(t) ==
    \/ SizeOf(t.choice) # None /\ size[SizeOf(t.choice)] = "deleted"
    \/ LineWith(t.cart, t.choice) # 0

\* The foreign keys to the cart and to the size, and the unique configuration.
LineRefused(t) ==
    \/ ~t.made /\ carts[t.cart] = None
    \/ SizeOf(t.choice) # None /\ size[SizeOf(t.choice)] = "deleted"
    \/ LineWith(t.cart, t.choice) # 0

InsertLine(s) ==
    /\ Turn(s, "insert")
    /\ \/ /\ LineRefused(txn[s]) \/ linesMade = MaxLines
          /\ Dies(s)
          /\ UNCHANGED linesMade
       \/ /\ ~LineRefused(txn[s]) /\ linesMade < MaxLines
          /\ linesMade' = linesMade + 1
          /\ GoesOn(s, [txn[s] EXCEPT !.step = "commit", !.wrote = "insert",
                                      !.line = linesMade + 1])
    /\ UNCHANGED <<tables, cartsMade, menu, overlap>>

\* Mutant of SetQuantity: waits for a line that is gone.
SetQuantityOrWait(s) ==
    /\ Turn(s, "update") /\ Live(txn[s].line)
    /\ GoesOn(s, [txn[s] EXCEPT !.step = "commit", !.wrote = "update"])
    /\ UNCHANGED <<tables, ids, menu, overlap>>

\* An UPDATE that meets no row fails the flush.
SetQuantity(s) ==
    /\ Turn(s, "update")
    /\ IF Live(txn[s].line)
       THEN GoesOn(s, [txn[s] EXCEPT !.step = "commit", !.wrote = "update"])
       ELSE Dies(s)
    /\ UNCHANGED <<tables, ids, menu, overlap>>

\* A DELETE that meets no row goes on with a warning.
DeleteLine(s) ==
    /\ Turn(s, "delete")
    /\ GoesOn(s, [txn[s] EXCEPT !.step = "count", !.wrote = "delete"])
    /\ UNCHANGED <<tables, ids, menu, overlap>>

\* Mutant of Remaining: nothing is ever left.
RemainingNone(t) == {}

\* Mutant of Remaining: the removed line is still counted.
RemainingAll(t) == LinesOf(t.cart) \cup {t.line}

\* Other requests' deletions are not visible yet, nor are their new lines.
Remaining(t) == LinesOf(t.cart) \ {t.line}

CountRemaining(s) ==
    /\ Turn(s, "count")
    /\ GoesOn(s, [txn[s] EXCEPT !.step = IF Remaining(txn[s]) = {} THEN "drop" ELSE "commit"])
    /\ UNCHANGED <<tables, ids, menu, overlap>>

(***************************************************************************)
(* The cart is ordered, or deleted with its last line                      *)
(***************************************************************************)
Priced == {l \in LinesOf(CurrentCart) : DishOf(lines[l].choice) \notin hidden}

\* POST /orders has priced the lines; what else it does is in Placement.
PriceCart(s) ==
    /\ MayStart(s) /\ CurrentCart # 0 /\ Priced # {}
    /\ GoesOn(s, [NewRequest EXCEPT !.step = "clear", !.priced = Priced])
    /\ UNCHANGED <<tables, ids, menu, overlap>>

\* Mutant of ClearCart: only a cart with no other line.
ClearCartPriced(s) ==
    /\ Turn(s, "clear")
    /\ GoesOn(s, [txn[s] EXCEPT !.cart = CurrentCart,
                  !.step = IF CurrentCart = 0 \/ LinesOf(CurrentCart) # txn[s].priced
                           THEN "commit" ELSE "drop"])
    /\ UNCHANGED <<tables, ids, menu, overlap>>

\* The cart there is now, which may not be the one that was priced.
ClearCart(s) ==
    /\ Turn(s, "clear")
    /\ GoesOn(s, [txn[s] EXCEPT !.cart = CurrentCart,
                                !.step = IF CurrentCart = 0 THEN "commit" ELSE "drop"])
    /\ UNCHANGED <<tables, ids, menu, overlap>>

\* DELETE FROM carts locks the row, or finds it gone ...
DropCart(s) ==
    /\ Turn(s, "drop")
    /\ GoesOn(s, IF carts[txn[s].cart] = None
                 THEN [txn[s] EXCEPT !.step = "commit"]
                 ELSE [txn[s] EXCEPT !.step = "cascade", !.dropped = TRUE])
    /\ UNCHANGED <<tables, ids, menu, overlap>>

\* ... and ON DELETE CASCADE takes the lines.
Cascade(s) ==
    /\ Turn(s, "cascade")
    /\ GoesOn(s, [txn[s] EXCEPT !.step = "commit", !.swept = LinesOf(txn[s].cart)])
    /\ UNCHANGED <<tables, ids, menu, overlap>>

(***************************************************************************)
(* The end of a request                                                    *)
(***************************************************************************)
LineAfter(l, t) ==
    CASE l \in t.swept \/ (l = t.line /\ t.wrote = "delete") -> None
      [] l = t.line /\ t.wrote = "insert" ->
            [cart |-> t.cart, choice |-> t.choice, quantity |-> t.quantity]
      [] l = t.line /\ t.wrote = "update" -> [lines[l] EXCEPT !.quantity = t.quantity]
      [] OTHER -> lines[l]

CartAfter(c, t) ==
    CASE t.made /\ c = t.cart -> Seller[DishOf(t.choice)]
      [] t.dropped /\ c = t.cart -> None
      [] OTHER -> carts[c]

Commit(s) ==
    /\ Turn(s, "commit")
    /\ carts' = [c \in CartIds |-> CartAfter(c, txn[s])]
    /\ lines' = [l \in LineIds |-> LineAfter(l, txn[s])]
    /\ Dies(s)
    /\ UNCHANGED <<ids, menu, overlap>>

\* The request dies: a crash, a refused checkout, or the database breaks a deadlock.
Abort(s) ==
    /\ ~Idle(s)
    /\ Dies(s)
    /\ UNCHANGED <<tables, ids, menu, overlap>>

\* Two requests wait for each other, which PostgreSQL detects.
Deadlocked(s) == \E t \in Sessions : ~Idle(s) /\ ~Idle(t) /\ t \in WaitsFor(s) /\ s \in WaitsFor(t)

BreakDeadlock(s) == Deadlocked(s) /\ Abort(s)

(***************************************************************************)
(* The vendor's menu                                                       *)
(***************************************************************************)
AddVariant(v) ==
    /\ size[v] = "planned"
    /\ size' = [size EXCEPT ![v] = "live"]
    /\ UNCHANGED <<tables, ids, hidden, txn, overlap>>

\* The deletion cascades into the carts and waits for their rows.
DeleteVariant(v) ==
    LET gone == {l \in LineIds : Live(l) /\ SizeOf(lines[l].choice) = v}
    IN /\ size[v] = "live"
       /\ \A s \in Sessions : ~Idle(s) =>
            /\ LockedLines(s) \cap gone = {}
            /\ ~(txn[s].wrote = "insert" /\ SizeOf(txn[s].choice) = v)
       /\ size' = [size EXCEPT ![v] = "deleted"]
       /\ lines' = [l \in LineIds |-> IF l \in gone THEN None ELSE lines[l]]
       /\ UNCHANGED <<carts, ids, hidden, txn, overlap>>

HideItem(d) ==
    /\ d \in Hideable
    /\ hidden' = IF d \in hidden THEN hidden \ {d} ELSE hidden \cup {d}
    /\ UNCHANGED <<tables, ids, size, txn, overlap>>

Step(s) ==
    \/ MakeCart(s) \/ InsertLine(s) \/ SetQuantity(s) \/ DeleteLine(s)
    \/ CountRemaining(s) \/ ClearCart(s) \/ DropCart(s) \/ Cascade(s) \/ Commit(s)

Next ==
    \/ \E s \in Sessions, c \in Choice, q \in 0..MaxQuantity, add \in BOOLEAN :
            ModifyItem(s, c, q, add)
    \/ \E s \in Sessions, l \in LineIds, q \in 0..MaxQuantity : UpdateLine(s, l, q)
    \/ \E s \in Sessions : PriceCart(s) \/ Step(s) \/ Abort(s)
    \/ \E v \in Sizes : AddVariant(v) \/ DeleteVariant(v)
    \/ \E d \in Dishes : HideItem(d)

Spec == Init /\ [][Next]_vars

\* A statement that may run again and again runs, and a deadlock is broken.
FairSpec == Spec /\ \A s \in Sessions :
    SF_vars(Step(s)) /\ WF_vars(BreakDeadlock(s))

(***************************************************************************)
(* Properties                                                              *)
(***************************************************************************)
\* A line belongs to a cart there is, of the restaurant that sells it; a customer has
\* one cart and one line of a configuration. Whatever overlaps, no line is stranded by
\* the deletion of a cart it was being added to, and no tap on "+" makes a duplicate;
\* and requests taken one at a time leave no cart without a line behind, as long as
\* the vendor deletes no size.
CartIsWhole ==
    /\ \A l \in LineIds : Live(l) => carts[lines[l].cart] = Seller[DishOf(lines[l].choice)]
    /\ Cardinality({c \in CartIds : carts[c] # None}) <= 1
    /\ \A k, l \in LineIds : Live(k) /\ Live(l) /\ k # l
        => lines[k].choice # lines[l].choice
    /\ ~overlap /\ (\A v \in Sizes : size[v] # "deleted") =>
        \A c \in CartIds : carts[c] # None => LinesOf(c) # {}

\* What was ordered has left the cart when the order is there, though lines and
\* whole carts come and go between the reading and the clearing.
OrderedLinesLeave ==
    [][\A s \in Sessions : At(s, "commit") /\ Commit(s)
            => \A l \in txn[s].priced : lines'[l] = None]_vars

\* Every request ends, deadlocks included.
RequestsEnd == \A s \in Sessions : ~Idle(s) ~> Idle(s)

\* The cart as its owner sees it.
Quantities == [c \in Choice |->
    MapThenSumSet(LAMBDA l : lines[l].quantity,
                  {l \in LineIds : Live(l) /\ lines[l].choice = c})]

B == INSTANCE Basket WITH
        Goods <- Choice,
        SellerOf <- [c \in Choice |-> Seller[DishOf(c)]],
        SizeIn <- [c \in Choice |-> SizeOf(c)],
        basket <- Quantities

Orders(s) == At(s, "commit") /\ txn[s].priced # {} /\ Commit(s)

\* Taken one at a time, requests do to the cart what Basket promises: one choice is
\* changed, and only an order or the vendor takes more.
KeepsBasket == B!Init /\ [][
    \/ overlap
    \/ \E s \in Sessions : Orders(s) /\ B!Order
    \/ \E s \in Sessions : ~Orders(s) /\ Commit(s) /\ B!Edit
    \/ \E v \in Sizes : DeleteVariant(v) /\ B!Withdraw(v)]_Quantities
=============================================================================
