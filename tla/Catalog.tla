------------------------------ MODULE Catalog ------------------------------
(***************************************************************************)
(* A vendor's menu (app/services/menu_service.py) and the browse           *)
(* categories its sections list under (app/services/category_service.py).  *)
(*                                                                         *)
(* Left out: prices, pictures, descriptions, prep times and page orders;   *)
(* the first commission of Pricing; the carts a deleted size empties       *)
(* (Cart).  Two spellings match_key calls equal are one name here.         *)
(***************************************************************************)
EXTENDS Desk

CONSTANTS
    Restaurants,
    Names,          \* of sections and categories, up to match_key
    SlugOf,         \* slug_for, also a name ("Cafe" for "Cafe" with an accent)
    Labels,         \* names of sizes and extras
    Sections, Items, Variants, AddOns, Categories,   \* ids, bounded
    MaxOptions,     \* MAX_OPTIONS_PER_ITEM
    Scripts

\* Approved stores, open for business, in front of empty menus.
Init == Opens([stores |-> [r \in Restaurants |-> [verified |-> TRUE, active |-> TRUE, open |-> TRUE]],
               promos |-> Nothing,
               sections |-> Nothing, items |-> Nothing, variants |-> Nothing,
               addons |-> Nothing, categories |-> Nothing], Scripts)

\* A parent is there, or goes with this commit; a row whose parent went before
\* is refused.
Parent(d, t, k) == k \in DOMAIN d[t] \cup DOMAIN db[t]

\* Ids (0 is NULL) and slugs that are something, the foreign keys, unique names and
\* slugs, at most one default.
Lawful(d) ==
    /\ 0 \notin DOMAIN d.categories /\ \A x \in DOMAIN d.categories : d.categories[x].slug # None
    /\ \A x \in DOMAIN d.sections : d.sections[x].category # 0 => Parent(d, "categories", d.sections[x].category)
    /\ \A x \in DOMAIN d.items : Parent(d, "sections", d.items[x].section)
    /\ \A x \in DOMAIN d.variants : Parent(d, "items", d.variants[x].item)
    /\ \A x \in DOMAIN d.addons : Parent(d, "items", d.addons[x].item)
    /\ \A x, y \in DOMAIN d.sections : x # y =>
          <<d.sections[x].restaurant, d.sections[x].name>> #
          <<d.sections[y].restaurant, d.sections[y].name>>
    /\ \A x, y \in DOMAIN d.variants : x # y /\ d.variants[x].item = d.variants[y].item =>
          d.variants[x].name # d.variants[y].name /\ ~(d.variants[x].default /\ d.variants[y].default)
    /\ \A x, y \in DOMAIN d.addons : x # y => d.addons[x] # d.addons[y]
    /\ \A x, y \in DOMAIN d.categories : x # y => d.categories[x].slug # d.categories[y].slug

\* ON DELETE CASCADE from sections to items to options, SET NULL to sections.
Cascaded(d) ==
    LET items == {i \in DOMAIN d.items : d.items[i].section \in DOMAIN d.sections}
        Of(table) == Drop(table, {k \in DOMAIN table : table[k].item \notin items})
        Unlinked(row) == IF row.category \in DOMAIN d.categories THEN row
                         ELSE [restaurant |-> row.restaurant, name |-> row.name,
                               active |-> row.active, category |-> 0]
    IN  [d EXCEPT !.items = Drop(@, DOMAIN @ \ items),
                  !.variants = Of(@), !.addons = Of(@),
                  !.sections = Change(@, DOMAIN @, Unlinked)]

Settle(d) == IF Lawful(d) THEN {Cascaded(d)} ELSE {}

(***************************************************************************)
(* Browse categories: names                                                *)
(***************************************************************************)
AnswersTo(c, n) == c.name = n \/ n \in c.aliases

\* By slug, then by name, then by alias of name or slug; the oldest of equals.
find_by_name(d, n) ==
    LET Rank(c) == IF c.slug = SlugOf[n] THEN 0
                   ELSE IF c.name = n THEN 1
                   ELSE IF n \in c.aliases \/ SlugOf[n] \in c.aliases THEN 2 ELSE 3
        found == {k \in DOMAIN d.categories : Rank(d.categories[k]) < 3}
    IN  {k \in found : \A m \in found : Rank(d.categories[k]) <= Rank(d.categories[m])}

\* An INSERT of the slug waits for another request's, then takes its row.
Creating(n) ==
    \E r \in Open : \E k \in DOMAIN r.new.categories \ DOMAIN r.seen.categories :
        r.new.categories[k].slug = SlugOf[n]

\* What a name resolves to: a category and the tables with it.  A new one is
\* hidden and waits for review.
resolve(d, n) ==
    IF find_by_name(d, n) # {} THEN {[id |-> k, in |-> d] : k \in find_by_name(d, n)}
    ELSE {[id |-> k, in |-> [d EXCEPT !.categories = Add(@, k,
             [name |-> n, slug |-> SlugOf[n], aliases |-> {}, active |-> FALSE,
              reviewed |-> FALSE])]] :
             k \in IF Creating(n) \/ Fresh("categories", Categories) = {} THEN {}
                   ELSE {Least(Fresh("categories", Categories))}}

get_active(d) == {[id |-> k, in |-> d] : k \in {c \in DOMAIN d.categories : d.categories[c].active}}

\* An explicit id of the picker, or the name decides.
_platform_for(d, n) == get_active(d) \cup resolve(d, n)

(***************************************************************************)
(* Menu sections                                                           *)
(***************************************************************************)
create_category(d, r, n) ==
    {[p.in EXCEPT !.sections = Add(@, Least(Fresh("sections", Sections)),
         [restaurant |-> r, name |-> n, active |-> TRUE, category |-> p.id])] :
        p \in IF Fresh("sections", Sections) = {} THEN {} ELSE _platform_for(d, n)}

\* A rename looks the new name up again and, when nothing answers, keeps the
\* link; a section without one gets one.
Renamed(d, k, n) ==
    LET new == [d EXCEPT !.sections[k].name = n]
    IN  IF find_by_name(d, n) = {} /\ d.sections[k].category # 0 THEN {new}
        ELSE {[p.in EXCEPT !.sections[k].category = p.id] : p \in resolve(new, n)}

update_category(d, k) ==
    (UNION {Renamed(d, k, n) : n \in script.names \ {d.sections[k].name}})
    \cup {[d EXCEPT !.sections[k].active = ~@]}
    \cup {[d EXCEPT !.sections[k].category = p.id] : p \in get_active(d)}

\* An explicit null.
unlink_category(d, k) == {[d EXCEPT !.sections[k].category = 0]}

LiveIn(d, k) == {i \in DOMAIN d.items : d.items[i].section = k /\ d.items[i].live}

\* Mutant of delete_category: nobody counts.
DeleteUncounted(d, k) == {[d EXCEPT !.sections = Drop(@, {k})]}

\* Refused while a live item is in it; deleted ones go with it.
delete_category(d, k) ==
    IF LiveIn(d, k) # {} THEN {} ELSE {[d EXCEPT !.sections = Drop(@, {k})]}

(***************************************************************************)
(* Items and their options                                                 *)
(***************************************************************************)
OptionsOf(table, i) == {k \in DOMAIN table : table[k].item = i}

Live(d) == {i \in DOMAIN d.items : d.items[i].live}

\* One new item with no size, or with one, which is then the default.
create_item(d, k) ==
    LET i == Least(Fresh("items", Items))
        bare == [d EXCEPT !.items = Add(@, i, [section |-> k, live |-> TRUE, available |-> TRUE,
                                               hidden |-> FALSE])]
    IN  IF Fresh("items", Items) = {} THEN {}
        ELSE {bare} \cup
             {[bare EXCEPT !.variants = Add(@, Least(Fresh("variants", Variants)),
                  [item |-> i, name |-> n, default |-> TRUE])] :
                 n \in IF Fresh("variants", Variants) = {} THEN {} ELSE Labels}

SellerOf(d, i) == d.sections[d.items[i].section].restaurant

\* Moved to another section of the menu, or sold out and back.
update_item(d, i) ==
    {[d EXCEPT !.items[i].section = k] : k \in
        {x \in DOMAIN d.sections : d.sections[x].restaurant = SellerOf(d, i)}}
set_item_status(d, i) == {[d EXCEPT !.items[i].available = ~@]}
delete_item(d, i) == {[d EXCEPT !.items[i].live = FALSE, !.items[i].available = FALSE]}

\* An administrator hides a product from customers (admin/products.py).
hide_item(d, i) == {[d EXCEPT !.items[i].hidden = ~@]}

Linked(d, k) == {x \in DOMAIN d.sections : d.sections[x].category = k}

\* A section of the restaurant under the category; made, with the category's name,
\* when there is none and the category is shown.
_section_for(d, r, c) ==
    LET there == {k \in Linked(d, c) : d.sections[k].restaurant = r}
        k == Least(Fresh("sections", Sections))
    IN  IF there # {} THEN {[id |-> x, in |-> d] : x \in there}
        ELSE IF ~d.categories[c].active \/ Fresh("sections", Sections) = {} THEN {}
        ELSE {[id |-> k, in |-> [d EXCEPT !.sections = Add(@, k,
                 [restaurant |-> r, name |-> d.categories[c].name, active |-> TRUE, category |-> c])]]}

\* An operator files a product under a category, or adds one to a menu.
update_product(d, i, c) ==
    {[p.in EXCEPT !.items[i].section = p.id] : p \in _section_for(d, SellerOf(d, i), c)}
create_product(d, r, c) == UNION {create_item(p.in, p.id) : p \in _section_for(d, r, c)}

OnlyDefault(d, i, k) ==
    [d EXCEPT !.variants = [v \in DOMAIN @ |->
        IF @[v].item = i THEN [@[v] EXCEPT !.default = v = k] ELSE @[v]]]

\* Mutant of add_variant: the first size is a default only when asked to be.
AddAsAsked(d, i, n, wanted) ==
    LET k == Least(Fresh("variants", Variants))
        added == [d EXCEPT !.variants = Add(@, k, [item |-> i, name |-> n, default |-> FALSE])]
    IN  IF Fresh("variants", Variants) = {} THEN {}
        ELSE IF wanted THEN {OnlyDefault(added, i, k)} ELSE {added}

\* The first is always the default; a new default demotes the old one.
add_variant(d, i, n, wanted) ==
    LET mine == OptionsOf(d.variants, i)
        k == Least(Fresh("variants", Variants))
        added == [d EXCEPT !.variants = Add(@, k, [item |-> i, name |-> n, default |-> FALSE])]
    IN  IF Cardinality(mine) >= MaxOptions \/ Fresh("variants", Variants) = {} THEN {}
        ELSE IF wanted \/ mine = {} THEN {OnlyDefault(added, i, k)} ELSE {added}

\* Renamed, or promoted; the default cannot demote itself.
update_variant(d, k) ==
    {[d EXCEPT !.variants[k].name = n] : n \in Labels} \cup {OnlyDefault(d, d.variants[k].item, k)}

\* The next in display order is promoted: any order, since sort_order is free.
delete_variant(d, k) ==
    LET i == d.variants[k].item
        left == [d EXCEPT !.variants = Drop(@, {k})]
        others == OptionsOf(left.variants, i)
    IN  IF d.variants[k].default /\ others # {} THEN {OnlyDefault(left, i, m) : m \in others}
        ELSE {left}

\* The replace-set of PATCH: `keep` stay, a size named `n` may be new, the rest
\* go, and one of those sent is the default (_resolve_default).  A name that a
\* row of the item still has when the new one is inserted is refused.
_sync_variants(d, i, keep, n, wants) ==
    LET mine == OptionsOf(d.variants, i)
        k == Least(Fresh("variants", Variants))
        kept == [d EXCEPT !.variants = Drop(@, mine \ keep)]
        new == IF ~wants THEN kept
               ELSE [kept EXCEPT !.variants = Add(@, k, [item |-> i, name |-> n, default |-> FALSE])]
    IN  IF wants /\ (Fresh("variants", Variants) = {} \/ \E v \in mine : d.variants[v].name = n) THEN {}
        ELSE IF OptionsOf(new.variants, i) = {} THEN {new}
        ELSE {OnlyDefault(new, i, m) : m \in OptionsOf(new.variants, i)}

add_add_on(d, i, n) ==
    IF Cardinality(OptionsOf(d.addons, i)) >= MaxOptions \/ Fresh("addons", AddOns) = {} THEN {}
    ELSE {[d EXCEPT !.addons = Add(@, Least(Fresh("addons", AddOns)), [item |-> i, name |-> n])]}

update_add_on(d, k) == {[d EXCEPT !.addons[k].name = n] : n \in Labels}
delete_add_on(d, k) == {[d EXCEPT !.addons = Drop(@, {k})]}

_sync_add_ons(d, i, keep) == {[d EXCEPT !.addons = Drop(@, OptionsOf(@, i) \ keep)]}

(***************************************************************************)
(* Browse categories: curation                                             *)
(***************************************************************************)
\* Another category answering to one of the names, or with one of the slugs.
_claimed(d, names, slugs, but) ==
    \E k \in DOMAIN d.categories \ but :
        \/ d.categories[k].slug \in slugs
        \/ \E n \in names : AnswersTo(d.categories[k], n)

admin_create(d, n, aliases, active) ==
    IF _claimed(d, {n} \cup aliases, {SlugOf[n]}, {}) \/ Fresh("categories", Categories) = {} THEN {}
    ELSE {[d EXCEPT !.categories = Add(@, Least(Fresh("categories", Categories)),
             [name |-> n, slug |-> SlugOf[n], aliases |-> aliases \ {n}, active |-> active,
              reviewed |-> TRUE])]}

\* Mutant of admin_rename: the old name is not kept as an alias.
RenameAndForget(d, k, n) ==
    IF n = d.categories[k].name \/ _claimed(d, {n}, {}, {k}) THEN {}
    ELSE {[d EXCEPT !.categories[k].name = n, !.categories[k].reviewed = TRUE]}

\* admin_update with a name: the slug stays, the old name becomes an alias.
admin_rename(d, k, n) ==
    IF n = d.categories[k].name \/ _claimed(d, {n}, {}, {k}) THEN {}
    ELSE {[d EXCEPT !.categories[k].name = n, !.categories[k].reviewed = TRUE,
                    !.categories[k].aliases = @ \cup {d.categories[k].name}]}

\* admin_update with anything else is a review; it may show or hide.
admin_review(d, k, active) ==
    {[d EXCEPT !.categories[k].active = active, !.categories[k].reviewed = TRUE]}

\* admin_update with aliases: the list is replaced.
admin_alias(d, k, aliases) ==
    LET others == aliases \ {d.categories[k].name}
    IN  IF _claimed(d, others, {}, {k}) THEN {}
        ELSE {[d EXCEPT !.categories[k].aliases = others, !.categories[k].reviewed = TRUE]}

admin_delete(d, k) ==
    IF Linked(d, k) # {} THEN {} ELSE {[d EXCEPT !.categories = Drop(@, {k})]}

\* Sections move, the survivor learns every name and the slug of the other.
admin_merge(d, k, into) ==
    LET from == d.categories[k]
        to == d.categories[into]
        Moved(row) == [row EXCEPT !.category = into]
    IN  {[d EXCEPT !.sections = Change(@, Linked(d, k), Moved),
                   !.categories = Drop([@ EXCEPT ![into].aliases =
                       (@ \cup from.aliases \cup {from.name, from.slug}) \ {to.name, to.slug}], {k})]}

(***************************************************************************)
(* What customers see                                                      *)
(***************************************************************************)
_section_has_live_item(d, k) == \E i \in LiveIn(d, k) : ~d.items[i].hidden

\* Approved and not suspended: VISIBLE_RESTAURANT.
Visible(d) == {r \in Restaurants : d.stores[r].verified /\ d.stores[r].active}

\* The number on the chip, as the set it counts.
restaurant_counts(d, c) ==
    {d.sections[k].restaurant : k \in {x \in Linked(d, c) :
        d.sections[x].active /\ _section_has_live_item(d, x)}} \cap Visible(d)

by_slug(c, slug) == c.slug = slug \/ slug \in c.aliases

\* Mutant of sells_under: a closed section still sells.
SellsWhenHidden(d, slug, r) ==
    \E k \in DOMAIN d.sections :
        /\ d.sections[k].restaurant = r /\ d.sections[k].category # 0
        /\ by_slug(d.categories[d.sections[k].category], slug)
        /\ d.categories[d.sections[k].category].active
        /\ _section_has_live_item(d, k)

\* What opening the chip lists.
sells_under(d, slug, r) ==
    \E k \in DOMAIN d.sections :
        /\ d.sections[k].restaurant = r /\ d.sections[k].category # 0
        /\ d.sections[k].active
        /\ by_slug(d.categories[d.sections[k].category], slug)
        /\ d.categories[d.sections[k].category].active
        /\ _section_has_live_item(d, k)

(***************************************************************************)
(* Steps                                                                   *)
(***************************************************************************)
Do(s, call, results) == Serve(s, call, results, Settle)

\* The vendor's sections.
Sectioning(s) ==
    \/ \E r \in script.restaurants, n \in script.names : Do(s, "create_category", create_category(db, r, n))
    \/ \E k \in DOMAIN db.sections :
       \/ Do(s, "update_category", update_category(db, k))
       \/ Do(s, "unlink_category", unlink_category(db, k))
       \/ Do(s, "delete_category", delete_category(db, k))

\* The vendor's items, and the operator's say over them.
Editing(s) ==
    \/ \E k \in DOMAIN db.sections : Do(s, "create_item", create_item(db, k))
    \/ \E r \in script.restaurants, c \in DOMAIN db.categories :
          Do(s, "create_product", create_product(db, r, c))
    \/ \E i \in Live(db) :
       \/ Do(s, "update_item", update_item(db, i))
       \/ Do(s, "set_item_status", set_item_status(db, i))
       \/ Do(s, "delete_item", delete_item(db, i))
       \/ Do(s, "hide_item", hide_item(db, i))
       \/ \E c \in DOMAIN db.categories : Do(s, "update_product", update_product(db, i, c))
       \/ \E keep \in SUBSET OptionsOf(db.variants, i), n \in Labels, wants \in BOOLEAN :
             Do(s, "_sync_variants", _sync_variants(db, i, keep, n, wants))
       \/ \E keep \in SUBSET OptionsOf(db.addons, i) :
             Do(s, "_sync_add_ons", _sync_add_ons(db, i, keep))

\* Sizes and add-ons, one at a time.
Pricing(s) ==
    \/ \E i \in Live(db), n \in Labels :
       \/ \E wanted \in BOOLEAN : Do(s, "add_variant", add_variant(db, i, n, wanted))
       \/ Do(s, "add_add_on", add_add_on(db, i, n))
    \/ \E k \in {v \in DOMAIN db.variants : db.variants[v].item \in Live(db)} :
       \/ Do(s, "update_variant", update_variant(db, k))
       \/ Do(s, "delete_variant", delete_variant(db, k))
    \/ \E k \in {a \in DOMAIN db.addons : db.addons[a].item \in Live(db)} :
       \/ Do(s, "update_add_on", update_add_on(db, k))
       \/ Do(s, "delete_add_on", delete_add_on(db, k))

\* The operator's categories.
Curating(s) ==
    \/ \E n \in script.names, aliases \in SUBSET script.names, active \in BOOLEAN :
          Cardinality(aliases) <= 1 /\ Do(s, "admin_create", admin_create(db, n, aliases, active))
    \/ \E k \in DOMAIN db.categories :
       \/ \E n \in script.names : Do(s, "admin_rename", admin_rename(db, k, n))
       \/ \E active \in BOOLEAN : Do(s, "admin_review", admin_review(db, k, active))
       \/ \E aliases \in SUBSET script.names :
             Cardinality(aliases) <= 1 /\ Do(s, "admin_alias", admin_alias(db, k, aliases))
       \/ Do(s, "admin_delete", admin_delete(db, k))
       \/ \E into \in DOMAIN db.categories \ {k} : Do(s, "admin_merge", admin_merge(db, k, into))

Next == \E s \in Clerks :
    Sectioning(s) \/ Editing(s) \/ Pricing(s) \/ Curating(s) \/ Commit(s, Settle) \/ Abort(s)

Spec == Init /\ [][Next]_deskVars

(***************************************************************************)
(* Properties                                                              *)
(***************************************************************************)
\* However requests overlap an item has at most one default size; in requests
\* that follow one another it has one as soon as it has sizes, so that a customer
\* always faces a price (add_variant, update_variant, delete_variant).
OneDefault ==
    \A i \in DOMAIN db.items :
        LET mine == OptionsOf(db.variants, i)
            defaults == {v \in mine : db.variants[v].default}
        IN  /\ Cardinality(defaults) <= 1
            /\ InTurn /\ mine # {} => defaults # {}

\* In requests that follow one another a live item leaves the menu only by its own
\* deletion, never with its section (delete_category), and a section loses its
\* browse category only to the vendor (admin_delete, admin_merge).
NothingFallsOut ==
    InTurn =>
         /\ \A i \in DOMAIN db.items : i \in DOMAIN db'.items \/ ~db.items[i].live
         /\ \A k \in DOMAIN db.sections \cap DOMAIN db'.sections :
               db'.sections[k].category = 0 =>
                  db.sections[k].category = 0 \/ db' \in unlink_category(db, k)

\* In requests that follow one another a spelling that found a category goes on
\* finding it, or the one it was merged into, through renames and merges, unless
\* an administrator deletes it or edits its aliases (admin_rename, admin_merge), or
\* another spelling has the same slug.
SpellingsKeepTheirPlace ==
    InTurn /\ {"admin_alias", "admin_delete"} \cap script.calls = {} =>
         \A n \in script.names : \A c \in find_by_name(db, n) :
             \/ \E m \in script.names \ {n} : SlugOf[m] = SlugOf[n]
             \/ c \in find_by_name(db', n)
             \/ \E into \in find_by_name(db', n) : db' \in admin_merge(db, c, into)
=============================================================================
