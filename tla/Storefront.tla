---------------------------- MODULE Storefront -----------------------------
(***************************************************************************)
(* What a customer browses (app/services/customer/discovery.py): the chips *)
(* of the home screen, the lists and dishes behind them, a restaurant's    *)
(* page and menu, its offers, search.  Everything here reads; the tables   *)
(* are those of Catalog, with the stores' switches and their promo codes.  *)
(*                                                                         *)
(* A list is the set of what it lists: orders and pages are left out, as   *)
(* are cuisines, names and ratings; fees are in Pricing, banners in        *)
(* Publishing, delivery slots in BusinessHours.                            *)
(***************************************************************************)
EXTENDS Catalog

CONSTANTS
    Near,       \* restaurants within the radius of the customer
    Codes       \* promo codes

(***************************************************************************)
(* The stores' switches and offers                                         *)
(***************************************************************************)
\* Approval, suspension and closing are three parties' switches.
switch(d, r) == {[d EXCEPT !.stores[r].verified = ~@], [d EXCEPT !.stores[r].active = ~@],
                 [d EXCEPT !.stores[r].open = ~@]}

launch(d, p, r) ==
    IF p \in DOMAIN d.promos THEN {}
    ELSE {[d EXCEPT !.promos = Add(@, p, [restaurant |-> r, active |-> TRUE, phase |-> "before"])]}
pause(d, p) == {[d EXCEPT !.promos[p].active = ~@]}

\* valid_from comes, then valid_until goes by.
elapse(d, p) ==
    CASE d.promos[p].phase = "before" -> {[d EXCEPT !.promos[p].phase = "during"]}
      [] d.promos[p].phase = "during" -> {[d EXCEPT !.promos[p].phase = "after"]}
      [] OTHER -> {}

Running(promo) == promo.active /\ promo.phase = "during"

\* A code at checkout, for a cart dear enough and limits nobody has reached.
validate(d, p, r) == Running(d.promos[p]) /\ d.promos[p].restaurant \in {None, r}

(***************************************************************************)
(* Views                                                                   *)
(***************************************************************************)
\* The chips; a chip is its category.
list_categories(d) == {c \in DOMAIN d.categories : d.categories[c].active /\ restaurant_counts(d, c) # {}}

\* An exact slug wins over one that was merged away.
_active_category(d, slug) ==
    LET found == {c \in DOMAIN d.categories : d.categories[c].active /\ by_slug(d.categories[c], slug)}
        exact == {c \in found : d.categories[c].slug = slug}
    IN  IF exact # {} THEN exact ELSE found

\* A dish behind a chip, from here or from anywhere; hidden dishes are no dishes.
category_items(d, c, here) ==
    {i \in Live(d) :
        LET k == d.items[i].section IN
        /\ ~d.items[i].hidden
        /\ k \in Linked(d, c) /\ d.sections[k].active
        /\ SellerOf(d, i) \in Visible(d) \cap (IF here THEN Near ELSE Restaurants)}

\* `slug` is the chip tapped or None, `open` the switch "open now".
list_restaurants(d, slug, open, here) ==
    {r \in Visible(d) \cap (IF here THEN Near ELSE Restaurants) :
        /\ slug # None => sells_under(d, slug, r)
        /\ open => d.stores[r].open}

\* Mutant of home_feed: a code that ran out still promotes.
FeedPromotesForEver(d) ==
    [categories |-> list_categories(d), nearby |-> Visible(d) \cap Near,
     promoted |-> {r \in Visible(d) : \E p \in DOMAIN d.promos :
                      d.promos[p].restaurant = r /\ d.promos[p].active}]

home_feed(d) ==
    [categories |-> list_categories(d), nearby |-> Visible(d) \cap Near,
     promoted |-> {r \in Visible(d) : \E p \in DOMAIN d.promos :
                      d.promos[p].restaurant = r /\ Running(d.promos[p])}]

\* Whether a restaurant's page and menu open, or are not found.
_load_visible(d, r) == r \in Visible(d)

restaurant_detail(d, r) == {p \in DOMAIN d.promos : d.promos[p].restaurant = r /\ Running(d.promos[p])}

restaurant_menu(d, r) ==
    {i \in Live(d) : ~d.items[i].hidden /\ SellerOf(d, i) = r /\ d.sections[d.items[i].section].active}

\* The dishes that match, and the chips.
search(d) ==
    [items |-> {i \in Live(d) : ~d.items[i].hidden /\ SellerOf(d, i) \in Visible(d)},
     categories |-> list_categories(d)]

(***************************************************************************)
(* Steps                                                                   *)
(***************************************************************************)
At(call, results) == Statement(call, results, Settle)

\* What vendors, operators and the clock do to what is on sale.
Trading ==
    \/ \E r \in script.restaurants : At("switch", switch(db, r))
    \/ \E p \in Codes : \E r \in script.restaurants \cup {None} : At("promote", launch(db, p, r))
    \/ \E p \in DOMAIN db.promos : At("promote", pause(db, p)) \/ At("promote", elapse(db, p))

Browsing == Next \/ Trading

StorefrontSpec == Init /\ [][Browsing]_deskVars

(***************************************************************************)
(* Properties                                                              *)
(***************************************************************************)
Sellers(items) == {SellerOf(db, i) : i \in items}

\* Another category answers to the slug of c: admin_create and admin_update ask of a new
\* alias whether it is a name or an alias of another, not whether it is its slug.
Shadowed(c) == \E m \in DOMAIN db.categories \ {c} : by_slug(db.categories[m], db.categories[c].slug)

\* The promise of a chip c, for every way of opening it (restaurant_counts,
\* sells_under, category_items, restaurant_menu).
Kept(c) ==
    LET slug == db.categories[c].slug
        dishes == category_items(db, c, FALSE)
        counted == restaurant_counts(db, c)
        Listed(here) == list_restaurants(db, slug, FALSE, here)
    IN  /\ c \in _active_category(db, slug)
        /\ counted \subseteq Listed(FALSE)
        /\ ~Shadowed(c) => Listed(FALSE) = counted /\ Listed(TRUE) = counted \cap Near
        /\ Sellers(dishes) = counted
        /\ Sellers(category_items(db, c, TRUE)) = counted \cap Near
        /\ \A i \in dishes : i \in restaurant_menu(db, SellerOf(db, i))

\* However requests overlap, a chip counts and fills exactly the same restaurants, whose
\* menus hold its dishes, and lists all of them, and no others unless another category
\* answers to its slug; no chip of the home screen or of search opens onto nothing.
ChipKeepsItsPromise ==
    /\ \A c \in DOMAIN db.categories : db.categories[c].active => Kept(c)
    /\ \A c \in home_feed(db).categories \cup search(db).categories :
          category_items(db, c, FALSE) # {}

\* Every card opens; a card is promoted exactly when the page behind it has an
\* offer, and checkout takes the code of every offer there (home_feed,
\* restaurant_detail, promos.validate).
CardsOpen ==
    LET feed == home_feed(db)
        cards == feed.nearby \cup feed.promoted \cup Sellers(search(db).items)
    IN  /\ \A r \in cards \cup list_restaurants(db, None, TRUE, FALSE) : _load_visible(db, r)
        /\ feed.nearby = list_restaurants(db, None, FALSE, TRUE)
        /\ feed.promoted = {r \in Visible(db) : restaurant_detail(db, r) # {}}
        /\ \A r \in Restaurants : \A p \in restaurant_detail(db, r) : validate(db, p, r)
=============================================================================
