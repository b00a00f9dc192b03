----------------------------- MODULE Onboarding ----------------------------
(***************************************************************************)
(* How accounts other than customers' come to be: applications of vendors  *)
(* and riders and their review, vendors and riders added by hand,          *)
(* invitations of administrators (app/services/vendor/applications.py,     *)
(* rider/applications.py, rider/roster.py, admin/vendors.py,               *)
(* admin/invitations.py, vendor/storefront.py).                            *)
(*                                                                         *)
(* An account stands for its email and phone, which are UNIQUE.  Left out: *)
(* what the applicant writes, reference numbers and slugs, emails sent,    *)
(* codes redeemed on the way (SignIn), opening hours (StoreHours), the     *)
(* other fields of an operator's edit.  A link's day ends by the clock,    *)
(* whoever holds its row: `expired` lists the invitations past their day.  *)
(***************************************************************************)
EXTENDS Desk

CONSTANTS Emails, Ids, Scripts

Init == Opens([users |-> Nothing, restaurants |-> Nothing, vendors |-> Nothing,
               riders |-> Nothing, invitations |-> Nothing, expired |-> Nothing], Scripts)

\* UNIQUE users.email and restaurants.owner_id.
Settle(d) ==
    IF /\ \A x, y \in DOMAIN d.users : x # y => d.users[x].email # d.users[y].email
       /\ \A x, y \in DOMAIN d.restaurants : x # y => d.restaurants[x].owner # d.restaurants[y].owner
    THEN {d} ELSE {}

find_by_identifier(d, e) == {u \in DOMAIN d.users : d.users[u].email = e}

\* A new row of table t, when the bound on rows leaves room for one.
Insert(d, t, row) ==
    IF Fresh(t, Ids) = {} THEN {} ELSE {[d EXCEPT ![t] = Add(@, Least(Fresh(t, Ids)), row)]}

\* The id Insert gives.
Next1(t) == Least(Fresh(t, Ids))

(***************************************************************************)
(* Accounts                                                                *)
(***************************************************************************)
\* A customer signs up (SignIn has the ways).
sign_up(d, e) ==
    IF find_by_identifier(d, e) # {} THEN {} ELSE Insert(d, "users", [email |-> e, role |-> "CUSTOMER"])

\* The vendor account of an address: found, or created; another role's is refused.
_resolve_applicant(d, e) ==
    IF find_by_identifier(d, e) = {}
    THEN {[user |-> Next1("users"), in |-> x] :
             x \in Insert(d, "users", [email |-> e, role |-> "VENDOR"])}
    ELSE {[user |-> u, in |-> d] : u \in {x \in find_by_identifier(d, e) : d.users[x].role = "VENDOR"}}

Owns(d, u) == \E r \in DOMAIN d.restaurants : d.restaurants[r].owner = u

\* A restaurant starts CLOSED; who adds it by hand may verify it and open it at once.
Restaurant(u, verified, open) == [owner |-> u, verified |-> verified, open |-> open]

register_vendor(d, e) ==
    UNION {Insert(p.in, "restaurants", Restaurant(p.user, FALSE, FALSE)) :
              p \in {x \in _resolve_applicant(d, e) : ~Owns(x.in, x.user)}}

\* roster.create_rider: no account may have the address yet.
create_rider(d, e) ==
    IF find_by_identifier(d, e) # {} THEN {} ELSE Insert(d, "users", [email |-> e, role |-> "RIDER"])

(***************************************************************************)
(* Vendor applications                                                     *)
(***************************************************************************)
Application(u, r, status) == [user |-> u, restaurant |-> r, status |-> status]

submit(d, e) ==
    UNION {UNION {Insert(x, "vendors", Application(p.user, Next1("restaurants"), "PENDING")) :
                     x \in Insert(p.in, "restaurants", Restaurant(p.user, FALSE, FALSE))} :
              p \in {y \in _resolve_applicant(d, e) :
                        /\ ~Owns(y.in, y.user)
                        /\ \A a \in DOMAIN d.vendors : d.vendors[a].user # y.user}}

_get_pending(d, a) == d.vendors[a].status = "PENDING"

approve(d, a) ==
    IF ~_get_pending(d, a) THEN {}
    ELSE {[d EXCEPT !.vendors[a].status = "APPROVED",
                    !.restaurants[d.vendors[a].restaurant].verified = TRUE]}

reject(d, a) == IF ~_get_pending(d, a) THEN {} ELSE {[d EXCEPT !.vendors[a].status = "REJECTED"]}

\* admin/vendors.create_vendor: the account, the store and an ADMIN record.
create_vendor(d, e, verified, open) ==
    IF find_by_identifier(d, e) # {} THEN {}
    ELSE UNION {UNION {Insert(y, "vendors", Application(Next1("users"), Next1("restaurants"),
                                 IF verified THEN "APPROVED" ELSE "PENDING")) :
                         y \in Insert(x, "restaurants", Restaurant(Next1("users"), verified, open))} :
                   x \in Insert(d, "users", [email |-> e, role |-> "VENDOR"])}

_partner_record(d, r) == {a \in DOMAIN d.vendors : d.vendors[a].restaurant = r}

\* Mutant of _apply_store: the store is verified, its application waits on.
VerifyOnly(d, r, verified) ==
    IF d.restaurants[r].verified = verified THEN {}
    ELSE IF verified THEN {[d EXCEPT !.restaurants[r].verified = TRUE]}
    ELSE {[d EXCEPT !.restaurants[r].verified = FALSE, !.restaurants[r].open = FALSE]}

\* update_vendor with is_verified: approving settles a pending application.
_apply_store(d, r, verified) ==
    IF d.restaurants[r].verified = verified THEN {}
    ELSE IF verified
    THEN {[d EXCEPT !.restaurants[r].verified = TRUE,
                    !.vendors = Change(@, {a \in _partner_record(d, r) : _get_pending(d, a)},
                                       LAMBDA row : [row EXCEPT !.status = "APPROVED"])]}
    ELSE {[d EXCEPT !.restaurants[r].verified = FALSE, !.restaurants[r].open = FALSE]}

\* update_vendor with a business field: a record for a store that has none.
_apply_business(d, r) ==
    IF _partner_record(d, r) # {} THEN {}
    ELSE Insert(d, "vendors", Application(d.restaurants[r].owner, r,
                    IF d.restaurants[r].verified THEN "APPROVED" ELSE "PENDING"))

\* update_vendor with owner_email.
_apply_owner(d, r, e) ==
    IF find_by_identifier(d, e) \ {d.restaurants[r].owner} # {} THEN {}
    ELSE {[d EXCEPT !.users[d.restaurants[r].owner].email = e]}

\* POST /admin/restaurants/{id}/verify.
set_verified(d, r, verified) ==
    IF d.restaurants[r].verified = verified THEN {}
    ELSE {[d EXCEPT !.restaurants[r].verified = verified,
                    !.restaurants[r].open = IF verified THEN @ ELSE FALSE]}

(***************************************************************************)
(* Rider applications                                                      *)
(***************************************************************************)
rider_submit(d, e) ==
    IF \E a \in DOMAIN d.riders : d.riders[a].email = e /\ d.riders[a].status = "PENDING" THEN {}
    ELSE Insert(d, "riders", [email |-> e, status |-> "PENDING", account |-> 0])

\* Mutant of Judging: the row is read without FOR UPDATE.
JudgingUnlocked(a) == {}

\* _pending locks the row it judges.
Judging(a) == {<<"riders", a>>}

rider_approve(d, a) ==
    IF d.riders[a].status # "PENDING" THEN {}
    ELSE {[x EXCEPT !.riders[a].status = "APPROVED", !.riders[a].account = Next1("users")] :
             x \in create_rider(d, d.riders[a].email)}

rider_reject(d, a) ==
    IF d.riders[a].status # "PENDING" THEN {} ELSE {[d EXCEPT !.riders[a].status = "REJECTED"]}

(***************************************************************************)
(* Invitations of administrators                                           *)
(***************************************************************************)
\* Neither used nor revoked, expired or not.
Invited(d, e) == {i \in DOMAIN d.invitations :
                     d.invitations[i].email = e /\ d.invitations[i].status = "PENDING"}

\* What _status calls PENDING: the day of the link is not over either.
Usable(d, i) == d.invitations[i].status = "PENDING" /\ i \notin DOMAIN d.expired

\* The UPDATE that revokes the earlier ones locks them, the expired among them.
invite(d, e) ==
    IF find_by_identifier(d, e) # {} THEN {}
    ELSE Insert([d EXCEPT !.invitations = Change(@, Invited(d, e),
                              LAMBDA row : [row EXCEPT !.status = "REVOKED"])],
                "invitations", [email |-> e, status |-> "PENDING", account |-> 0])

\* _usable and revoke lock the invitation.
Using(i) == {<<"invitations", i>>}

revoke(d, i) ==
    IF ~Usable(d, i) THEN {} ELSE {[d EXCEPT !.invitations[i].status = "REVOKED"]}

accept(d, i) ==
    IF ~Usable(d, i) \/ find_by_identifier(d, d.invitations[i].email) # {} THEN {}
    ELSE {[x EXCEPT !.invitations[i].status = "ACCEPTED", !.invitations[i].account = Next1("users")] :
             x \in Insert(d, "users", [email |-> d.invitations[i].email, role |-> "ADMIN"])}

expire(d) == {[d EXCEPT !.expired = Add(@, i, [at |-> TRUE])] :
                 i \in DOMAIN d.invitations \ DOMAIN d.expired}

(***************************************************************************)
(* Steps                                                                   *)
(***************************************************************************)
Do(s, call, results) == Serve(s, call, results, Settle)

\* A vendor applies, and an operator decides.
Applications(s) ==
    \/ \E e \in Emails :
       \/ Do(s, "sign_up", sign_up(db, e))
       \/ Do(s, "register_vendor", register_vendor(db, e))
       \/ Do(s, "submit", submit(db, e))
    \/ \E a \in DOMAIN db.vendors :
          Do(s, "approve", approve(db, a)) \/ Do(s, "reject", reject(db, a))

\* An operator's own way to a store.
Vendors(s) ==
    \/ \E e \in Emails, verified, open \in BOOLEAN :
          Do(s, "create_vendor", create_vendor(db, e, verified, open))
    \/ \E r \in DOMAIN db.restaurants :
       \/ \E verified \in BOOLEAN :
          \/ Do(s, "set_verified", set_verified(db, r, verified))
          \/ Do(s, "update_vendor", _apply_store(db, r, verified))
       \/ Do(s, "update_vendor", _apply_business(db, r))
       \/ \E e \in Emails : Do(s, "update_vendor", _apply_owner(db, r, e))

RiderApplications(s) ==
    \/ \E e \in Emails :
          Do(s, "create_rider", create_rider(db, e)) \/ Do(s, "rider_submit", rider_submit(db, e))
    \/ \E a \in DOMAIN db.riders :
       \/ ServeHolding(s, "rider_review", Judging(a), rider_approve(db, a), Settle)
       \/ ServeHolding(s, "rider_review", Judging(a), rider_reject(db, a), Settle)

Invitations(s) ==
    \/ \E e \in Emails :
          ServeHolding(s, "invite", UNION {Using(i) : i \in Invited(db, e)}, invite(db, e), Settle)
    \/ \E i \in DOMAIN db.invitations :
       \/ ServeHolding(s, "invite", Using(i), revoke(db, i), Settle)
       \/ ServeHolding(s, "accept", Using(i), accept(db, i), Settle)

Next ==
    \/ \E s \in Clerks : Applications(s) \/ Vendors(s) \/ RiderApplications(s) \/ Invitations(s)
                         \/ Commit(s, Settle) \/ Abort(s)
    \/ Statement("expire", expire(db), Settle)

Spec == Init /\ [][Next]_deskVars

(***************************************************************************)
(* Properties                                                              *)
(***************************************************************************)
\* However requests overlap, a rider application decided and an invitation used or
\* revoked stay as they are, and so, in requests that follow one another, does a
\* vendor application (_pending and _usable lock, _get_pending does not).
DecisionsStand ==
    /\ \A a \in DOMAIN db.riders : db.riders[a].status # "PENDING" => db'.riders[a] = db.riders[a]
    /\ \A i \in DOMAIN db.invitations :
             db.invitations[i].status # "PENDING" => db'.invitations[i] = db.invitations[i]
    /\ InTurn => \A a \in DOMAIN db.vendors :
             db.vendors[a].status # "PENDING" => db'.vendors[a] = db.vendors[a]

\* However requests overlap, every approved rider application and every accepted
\* invitation has an account of its own, with the role it was for.
AnAccountEach ==
    LET given == {<<"RIDER", db.riders[a].account, a>> :
                     a \in {x \in DOMAIN db.riders : db.riders[x].status = "APPROVED"}}
                 \cup {<<"ADMIN", db.invitations[i].account, i>> :
                     i \in {x \in DOMAIN db.invitations : db.invitations[x].status = "ACCEPTED"}}
    IN  /\ \A g \in given : g[2] \in DOMAIN db.users /\ db.users[g[2]].role = g[1]
        /\ \A g, h \in given : g # h => g[2] # h[2]

\* In requests that follow one another no store on sale waits for its approval,
\* however it came to be verified (create_vendor, _apply_store, approve), unless
\* it was verified by POST /admin/restaurants/{id}/verify, which asks nobody.
NothingOnSaleWaits ==
    InTurn /\ "set_verified" \notin script.calls =>
        \A a \in DOMAIN db.vendors :
            db.restaurants[db.vendors[a].restaurant].verified => ~_get_pending(db, a)
=============================================================================
