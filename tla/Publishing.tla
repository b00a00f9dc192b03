---------------------------- MODULE Publishing -----------------------------
(***************************************************************************)
(* What is on show beside the menu: community posts and their reports      *)
(* (app/services/community.py), reviews and the rating they make           *)
(* (customer/reviews.py), reels (reels.py), banners (banners.py) and the   *)
(* vendors' campaigns with their counters (admin/ads.py and                *)
(* vendor/promotions.py).                                                  *)
(*                                                                         *)
(* Time is a number; SQL's NULL is None.  A rating is kept as the sum and  *)
(* the number of the stars it averages.  Texts and pictures are left out,  *)
(* and one restaurant stands for all.                                      *)
(***************************************************************************)
EXTENDS Desk, FiniteSetsExt

CONSTANTS
    Users,
    Ids,        \* of posts, reels, banners and campaigns, bounded
    Orders,
    Horizon,    \* the last instant
    Scripts

Init == Opens([posts |-> Nothing, reports |-> Nothing,
               orders |-> [o \in Orders |-> [delivered |-> FALSE]], reviews |-> Nothing,
               store |-> Only(1, [sum |-> 0, count |-> 0, visible |-> TRUE]),
               dish |-> Only(1, [live |-> TRUE]), reels |-> Nothing,
               banners |-> Nothing, promos |-> Nothing, batches |-> Nothing,
               clock |-> Only(1, [now |-> 0])], Scripts)

Now(d) == d.clock[1].now
Instants == 0..Horizon

\* reviews.order_id is unique, ck_app_banners_window, ck_promo_window; the reports
\* of a deleted post go with it.
Settle(d) ==
    IF /\ \A x, y \in DOMAIN d.reviews : d.reviews[x].order = d.reviews[y].order => x = y
       /\ \A b \in DOMAIN d.banners :
             None \in {d.banners[b].starts, d.banners[b].ends} \/ d.banners[b].starts < d.banners[b].ends
       /\ \A p \in DOMAIN d.promos : d.promos[p].from < d.promos[p].until
    THEN {[d EXCEPT !.reports = Drop(@, {r \in DOMAIN @ : r[1] \notin DOMAIN d.posts})]}
    ELSE {}

Do(s, call, results) == Serve(s, call, results, Settle)
At(call, results) == Statement(call, results, Settle)

\* A row with a new id.
Insert(d, table, row) == {[d EXCEPT ![table] = Add(@, Least(x), row)] : x \in {Fresh(table, Ids)} \ {{}}}

(***************************************************************************)
(* Community                                                               *)
(***************************************************************************)
create_post(d, u) == Insert(d, "posts", [author |-> u, removed |-> None, count |-> 0])

\* Mutant of PostLock: read without a lock.
NoPostLock(p) == {}

\* The rows _live_post locks with FOR UPDATE.
PostLock(p) == {<<"posts", p>>}

_live_post(s, p, call, Moderated(_)) ==
    ServeHolding(s, call, PostLock(p),
                 IF db.posts[p].removed # None THEN {} ELSE Moderated(db), Settle)

delete_own(d, p, u) == IF d.posts[p].author # u THEN {} ELSE {[d EXCEPT !.posts[p].removed = u]}

remove(d, p) == {[d EXCEPT !.posts[p].removed = "ADMIN"]}

\* Reporting twice changes nothing.
report(d, p, u) ==
    IF d.posts[p].author = u \/ <<p, u>> \in DOMAIN d.reports THEN {}
    ELSE {[d EXCEPT !.reports = Add(@, <<p, u>>, [at |-> TRUE]), !.posts[p].count = @ + 1]}

\* The author's account goes (account_deletion.py).
delete_posts(d, u) == {[d EXCEPT !.posts = Drop(@, {p \in DOMAIN @ : @[p].author = u})]}

(***************************************************************************)
(* Reviews                                                                 *)
(***************************************************************************)
Ratings(reviews) ==
    [sum |-> MapThenSumSet(LAMBDA r : reviews[r].stars, DOMAIN reviews), count |-> Cardinality(DOMAIN reviews)]

\* One for each delivered order; the rating is computed again from all of them.
create_review(d, s, o, stars) ==
    IF ~d.orders[o].delivered \/ \E r \in DOMAIN d.reviews : d.reviews[r].order = o THEN {}
    ELSE LET reviews == Add(d.reviews, <<o, s>>, [order |-> o, stars |-> stars])
             rating == Ratings(reviews)
         IN  {[d EXCEPT !.reviews = reviews, !.store[1].sum = rating.sum, !.store[1].count = rating.count]}

deliver(d, o) == {[d EXCEPT !.orders[o].delivered = TRUE]}

(***************************************************************************)
(* Reels                                                                   *)
(***************************************************************************)
_check_dish(d, dish) == dish = None \/ d.dish[dish].live

create_reel(d, dish) ==
    IF ~_check_dish(d, dish) THEN {}
    ELSE Insert(d, "reels", [dish |-> dish, hidden |-> FALSE, reason |-> None])

delete_reel(d, r) == {[d EXCEPT !.reels = Drop(@, {r})]}

\* A PATCH: a reason is kept only while the reel is hidden.
hide(d, r, hidden, reason) ==
    {[d EXCEPT !.reels[r].hidden = hidden, !.reels[r].reason = IF hidden THEN reason ELSE None]}
explain(d, r, reason) == {[d EXCEPT !.reels[r].reason = IF d.reels[r].hidden THEN reason ELSE @]}
link(d, r, dish) == IF ~_check_dish(d, dish) THEN {} ELSE {[d EXCEPT !.reels[r].dish = dish]}

\* The customers' feed: the reels shown, each with its dish or none.
feed(d) ==
    {<<r, IF d.reels[r].dish # None /\ d.dish[d.reels[r].dish].live THEN d.reels[r].dish ELSE None>> :
        r \in {x \in DOMAIN d.reels : ~d.reels[x].hidden /\ d.store[1].visible}}

\* The menu and the store change under them.
delete_dish(d) == {[d EXCEPT !.dish[1].live = FALSE]}
switch_store(d) == {[d EXCEPT !.store[1].visible = ~@]}

(***************************************************************************)
(* Banners                                                                 *)
(***************************************************************************)
_live_clause(b, now) ==
    b.active /\ (b.starts = None \/ b.starts <= now) /\ (b.ends = None \/ b.ends > now)

\* Mutant of _status_clause: an instant belongs to both ends.
StatusOverlapping(status, b, now) ==
    CASE status = "LIVE" -> _live_clause(b, now)
      [] status = "SCHEDULED" -> b.active /\ b.starts # None /\ b.starts >= now
                                 /\ (b.ends = None \/ b.ends > now)
      [] status = "EXPIRED" -> b.active /\ b.ends # None /\ b.ends <= now
      [] OTHER -> ~b.active

_status_clause(status, b, now) ==
    CASE status = "LIVE" -> _live_clause(b, now)
      [] status = "SCHEDULED" -> b.active /\ b.starts # None /\ b.starts > now
                                 /\ (b.ends = None \/ b.ends > now)
      [] status = "EXPIRED" -> b.active /\ b.ends # None /\ b.ends <= now
      [] OTHER -> ~b.active

_status_of(b, now) ==
    CASE ~b.active -> "INACTIVE"
      [] b.active /\ b.ends # None /\ b.ends <= now -> "EXPIRED"
      [] b.active /\ ~(b.ends # None /\ b.ends <= now) /\ b.starts # None /\ b.starts > now -> "SCHEDULED"
      [] OTHER -> "LIVE"

_check_window(b) == None \in {b.starts, b.ends} \/ b.starts < b.ends

create_banner(d, b) == IF ~_check_window(b) THEN {} ELSE Insert(d, "banners", b)

\* One field of a PATCH, which may clear a date.
update_banner(d, b, field, value) ==
    LET new == [d.banners[b] EXCEPT ![field] = value]
    IN  IF ~_check_window(new) THEN {} ELSE {[d EXCEPT !.banners[b] = new]}

delete_banner(d, b) == {[d EXCEPT !.banners = Drop(@, {b})]}

live_banners(d) == {b \in DOMAIN d.banners : _live_clause(d.banners[b], Now(d))}

(***************************************************************************)
(* Campaigns of the vendors                                                *)
(***************************************************************************)
launch(d, from, until) ==
    IF until <= from THEN {}
    ELSE Insert(d, "promos", [active |-> TRUE, from |-> from, until |-> until, shown |-> 0])

EndedBy(d, p, hour) == d.promos[p].until <= hour
Ended(d, p) == EndedBy(d, p, Now(d))

\* Pause and resume, or end now; an administrator's with a lock, the vendor's without.
set_status(d, p, status) ==
    IF Ended(d, p) THEN {}
    ELSE {IF status = "ENDED" THEN [d EXCEPT !.promos[p].until = Now(d)]
          ELSE [d EXCEPT !.promos[p].active = (status = "ACTIVE")]}

\* A batch of what was shown and tapped reads the hour it goes by.
receive_events(d) == Insert(d, "batches", [at |-> Now(d)])

\* One UPDATE of batch b, of the impressions or of the taps, and perhaps its last.
Counting(d, b, live) ==
    LET counted == [d EXCEPT !.promos = Change(@, live, LAMBDA p : [p EXCEPT !.shown = @ + 1])]
    IN  {counted, [counted EXCEPT !.batches = Drop(@, {b})]}

Started(d, b) == {p \in DOMAIN d.promos : d.promos[p].active /\ d.promos[p].from <= d.batches[b].at}

\* Mutant of record_events: whether or not it is over.
CountForEver(d, b) == Counting(d, b, Started(d, b))

\* The campaigns live at the hour of the batch, which may be past.
record_events(d, b) ==
    Counting(d, b, {p \in Started(d, b) : ~EndedBy(d, p, d.batches[b].at)})

tick(d) == {[d EXCEPT !.clock[1].now = n] : n \in {Now(d) + 1} \cap Instants}

MaxShown == 2

Community(s) ==
    \/ \E u \in Users :
       \/ Do(s, "post", create_post(db, u))
       \/ \E p \in DOMAIN db.posts :
          \/ _live_post(s, p, "report", LAMBDA d : report(d, p, u))
          \/ _live_post(s, p, "remove", LAMBDA d : delete_own(d, p, u))
    \/ \E p \in DOMAIN db.posts : _live_post(s, p, "remove", LAMBDA d : remove(d, p))

Reviewing(s) ==
    \E o \in Orders, stars \in {1, 5} : Do(s, "review", create_review(db, s, o, stars))

Reels(s) ==
    \/ \E dish \in {None, 1} : Do(s, "reel", create_reel(db, dish))
    \/ \E r \in DOMAIN db.reels :
       \/ Do(s, "reel", delete_reel(db, r))
       \/ \E reason \in {None, "why"} : \/ \E hidden \in BOOLEAN : Do(s, "reel", hide(db, r, hidden, reason))
                                        \/ Do(s, "reel", explain(db, r, reason))
       \/ \E dish \in {None, 1} : Do(s, "reel", link(db, r, dish))

Banners(s) ==
    \/ \E b \in [active : BOOLEAN, starts : Instants \cup {None}, ends : Instants \cup {None}] :
          Do(s, "banner", create_banner(db, b))
    \/ \E b \in DOMAIN db.banners :
       \/ \E at \in Instants \cup {None}, field \in {"starts", "ends"} :
             Do(s, "banner", update_banner(db, b, field, at))
       \/ \E active \in BOOLEAN : Do(s, "banner", update_banner(db, b, "active", active))
       \/ Do(s, "banner", delete_banner(db, b))

Ads(s) ==
    \/ \E from, until \in Instants : from >= Now(db) /\ Do(s, "promo", launch(db, from, until))
    \/ \E p \in DOMAIN db.promos, status \in {"ACTIVE", "PAUSED", "ENDED"} :
       \/ Do(s, "promo", set_status(db, p, status))
       \/ ServeHolding(s, "promo", {<<"promos", p>>}, set_status(db, p, status), Settle)

Next ==
    \/ \E s \in Clerks : Community(s) \/ Reviewing(s) \/ Reels(s) \/ Banners(s) \/ Ads(s)
                         \/ Commit(s, Settle) \/ Abort(s)
    \/ \E u \in Users : At("remove", delete_posts(db, u))
    \/ \E o \in Orders : At("review", deliver(db, o))
    \/ At("reel", delete_dish(db)) \/ At("reel", switch_store(db))
    \/ At("promo", receive_events(db))
    \/ \E b \in DOMAIN db.batches :
          (\A p \in DOMAIN db.promos : db.promos[p].shown < MaxShown) /\ At("promo", record_events(db, b))
    \/ At("promo", tick(db)) \/ At("banner", tick(db))

Spec == Init /\ [][Next]_deskVars

(***************************************************************************)
(* Properties                                                              *)
(***************************************************************************)
\* However they overlap, a post's count is the number of its reports, whoever is
\* removing it meanwhile; in turn a restaurant's rating is that of its reviews
\* (report under the post's lock; create_review after its flush).
TalliesAreTrue ==
    /\ \A p \in DOMAIN db.posts : db.posts[p].count = Cardinality({r \in DOMAIN db.reports : r[1] = p})
    /\ InTurn => [sum |-> db.store[1].sum, count |-> db.store[1].count] = Ratings(db.reviews)

\* At every instant a banner is in exactly one of the console's lists, the one its
\* own row names, and the apps show those of LIVE (_status_clause, _status_of, live).
EveryBannerInOneList ==
    \A b \in DOMAIN db.banners :
        LET lists == {st \in {"LIVE", "SCHEDULED", "EXPIRED", "INACTIVE"} :
                         _status_clause(st, db.banners[b], Now(db))}
        IN  /\ lists = {_status_of(db.banners[b], Now(db))}
            /\ (b \in live_banners(db)) = (lists = {"LIVE"})

\* However requests overlap, a removed post stays removed, by whoever removed it first.
\* A campaign that is over stays over; it counts one event at a time, none for a batch
\* whose hour is past its end, and no request undoes a count (record_events counts by
\* the hour it read before its UPDATEs, set_status writes what it changed).
GoneForGood ==
    /\ \A p \in DOMAIN db.posts \cap DOMAIN db'.posts :
          db.posts[p].removed # None => db'.posts[p] = db.posts[p]
    /\ \A p \in DOMAIN db.promos :
          /\ Ended(db, p) => Ended(db', p)
          /\ db'.promos[p].shown # db.promos[p].shown =>
                /\ db'.promos[p].shown = db.promos[p].shown + 1
                /\ \E b \in DOMAIN db.batches : ~EndedBy(db, p, db.batches[b].at)
=============================================================================
