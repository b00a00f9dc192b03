----------------------------- MODULE Accounts ------------------------------
(***************************************************************************)
(* A customer, a rider and a vendor who may leave: saved addresses and     *)
(* favourites (customer/account.py), and the deletion of an account        *)
(* (account_deletion.py) beside the orders, earnings and withdrawals that  *)
(* may stand in its way, and beside what an operator may still write to an *)
(* account that is gone.                                                   *)
(*                                                                         *)
(* Orders move as OrderLifecycle has it, cut to what a deletion asks of    *)
(* them; a delivery earns its rider and its vendor one unit each, and a    *)
(* payee's withdrawals are settled together.  The sign-in side of a        *)
(* deletion (sessions, codes, keys) is in SignIn.                          *)
(***************************************************************************)
EXTENDS Desk

CONSTANTS
    Customer, Rider, Vendor,
    Orders, Ids,    \* of orders and addresses, bounded
    Scripts

MaxMoney == 2   \* what one payee's books hold while an operator still grants more

People == {Customer, Rider, Vendor}
IN_FLIGHT == {"PENDING", "PREPARING", "READY", "PICKED_UP"}

\* What a payee may withdraw, has on its way, and was paid.  `operated`, here and below,
\* is history: an operator wrote the row after its account had left.
Purse(balance, processing, paid, operated) ==
    [balance |-> balance, processing |-> processing, paid |-> paid, operated |-> operated]

Init == Opens([users |-> [u \in People |-> [deleted |-> FALSE, active |-> TRUE]],
               owed |-> [u \in {Rider, Vendor} |-> Purse(0, 0, 0, FALSE)],
               addresses |-> Nothing, favorites |-> Nothing, orders |-> Nothing,
               profile |-> Only(Rider, [online |-> FALSE, papers |-> TRUE, operated |-> FALSE]),
               store |-> Only(Vendor, [active |-> TRUE, open |-> FALSE, hours |-> TRUE,
                                        operated |-> FALSE])], Scripts)

\* uq_addresses_one_default.
Settle(d) ==
    IF \E a, b \in DOMAIN d.addresses : a # b /\ d.addresses[a].default /\ d.addresses[b].default
    THEN {} ELSE {d}

SignedIn(d, u) == ~d.users[u].deleted /\ d.users[u].active

\* What only the account's own session may ask.
As(s, u, call, results) == Serve(s, call, IF SignedIn(db, u) THEN results ELSE {}, Settle)
At(call, results) == Statement(call, results, Settle)

(***************************************************************************)
(* Addresses and favourites of the customer                                *)
(***************************************************************************)
Newest(addresses) == CHOOSE a \in DOMAIN addresses : \A b \in DOMAIN addresses : b <= a

_demote_others(addresses, keep) ==
    [a \in DOMAIN addresses |-> IF a = keep THEN addresses[a] ELSE [default |-> FALSE]]

\* The first becomes the default.  A later one that asks to be is inserted before
\* the others are demoted, which the unique index refuses.
create_address(d, default) ==
    LET later == {a \in Ids : a \in Fresh("addresses", Ids) /\ \A b \in DOMAIN d.addresses : b < a}
        first == d.addresses = Nothing
    IN  IF default /\ \E a \in DOMAIN d.addresses : d.addresses[a].default THEN {}
        ELSE {[d EXCEPT !.addresses = Add(@, Least(later), [default |-> default \/ first])] :
                 x \in {later} \ {{}}}

\* Editing one may make it the default, never the reverse.
replace_address(d, a, default) ==
    {IF default THEN [d EXCEPT !.addresses = _demote_others([@ EXCEPT ![a].default = TRUE], a)] ELSE d}

set_default(d, a) == replace_address(d, a, TRUE)

\* Mutant of delete_address: nothing takes the default's place.
DeleteOnly(d, a) == {[d EXCEPT !.addresses = Drop(@, {a})]}

\* The most recent of the others takes the default's place.
delete_address(d, a) ==
    LET others == Drop(d.addresses, {a})
    IN  {[d EXCEPT !.addresses = IF d.addresses[a].default /\ others # Nothing
                                 THEN [others EXCEPT ![Newest(others)].default = TRUE] ELSE others]}

toggle_favorite(d) ==
    {[d EXCEPT !.favorites = IF @ = Nothing THEN Only(1, [liked |-> TRUE]) ELSE Nothing]}

(***************************************************************************)
(* Orders, earnings and withdrawals, as far as they stand in the way       *)
(***************************************************************************)
\* Now, of a store that is open; or for a slot, of any store whose hours cover it, and
\* of every store without hours, a closed one too.
place_order(d, scheduled) ==
    IF ~(scheduled \/ d.store[Vendor].open) THEN {}
    ELSE {[d EXCEPT !.orders = Add(@, Least(x), [status |-> "PENDING", rider |-> None, contact |-> TRUE])] :
             x \in {Fresh("orders", Orders)} \ {{}}}

Kitchen == {<<"PENDING", "PREPARING">>, <<"PREPARING", "READY">>, <<"READY", "PICKED_UP">>}
Cancels == {<<st, "CANCELLED">> : st \in {"PENDING", "PREPARING", "READY"}}
Moves == Kitchen \cup Cancels

move(d, o, m) ==
    IF d.orders[o].status # m[1] \/ (m[2] = "PICKED_UP" /\ d.orders[o].rider = None) THEN {}
    ELSE {[d EXCEPT !.orders[o].status = m[2]]}

accept(d, o) ==
    IF d.orders[o].status \notin {"PREPARING", "READY"} \/ d.orders[o].rider # None
       \/ ~d.profile[Rider].online THEN {}
    ELSE {[d EXCEPT !.orders[o].rider = Rider]}

\* The operator names the rider, whose account must be live.
assign_rider(d, o) ==
    IF d.orders[o].status \notin {"PENDING", "PREPARING", "READY"} \/ ~SignedIn(d, Rider) THEN {}
    ELSE {[d EXCEPT !.orders[o].rider = Rider]}

\* By its rider, or by an operator for them.
_complete(d, o) ==
    IF d.orders[o].status # "PICKED_UP" \/ d.orders[o].rider # Rider THEN {}
    ELSE {[d EXCEPT !.orders[o].status = "DELIVERED", !.owed[Rider].balance = @ + 1,
                    !.owed[Vendor].balance = @ + 1]}

request_payout(d, u) ==
    IF d.owed[u].balance = 0 THEN {}
    ELSE {[d EXCEPT !.owed[u] = Purse(0, @.processing + @.balance, @.paid, @.operated)]}

\* Paid, or failed and the money the payee's again.
settle_payout(d, u, paid) ==
    IF d.owed[u].processing = 0 THEN {}
    ELSE {[d EXCEPT !.owed[u] = IF paid THEN Purse(@.balance, 0, @.paid + @.processing, @.operated)
                                ELSE Purse(@.balance + @.processing, 0, @.paid, @.operated)]}

\* A paid withdrawal is back on its way, whoever's it was.
admin_reopen(d, u) ==
    IF d.owed[u].paid = 0 THEN {}
    ELSE {[d EXCEPT !.owed[u] = Purse(@.balance, @.processing + @.paid, 0, @.operated \/ d.users[u].deleted)]}

\* For any rider with a profile, one who has left too.
grant_incentive(d) ==
    IF d.owed[Rider].balance + d.owed[Rider].processing + d.owed[Rider].paid >= MaxMoney THEN {}
    ELSE {[d EXCEPT !.owed[Rider] =
              Purse(@.balance + 1, @.processing, @.paid, @.operated \/ d.users[Rider].deleted)]}

set_shift(d) == {[d EXCEPT !.profile[Rider].online = ~@]}
switch(d) == {[d EXCEPT !.store[Vendor].open = ~@]}
\* The worker's minute.
sync(d) == IF d.store[Vendor].hours THEN switch(d) ELSE {}

\* The operator's, of any rider and of any store: on shift or off it, on the app or off it,
\* open or closed, and with which hours.
set_flags(d, on) ==
    {[d EXCEPT !.profile[Rider].online = on, !.profile[Rider].operated = @ \/ d.users[Rider].deleted]}

update_vendor(d, active, open, hours) ==
    {[d EXCEPT !.store[Vendor] = [active |-> active, open |-> open, hours |-> hours,
                                  operated |-> @.operated \/ d.users[Vendor].deleted]]}

(***************************************************************************)
(* Deletion                                                                *)
(***************************************************************************)
Whose(d, o, u) == u = Rider => d.orders[o].rider = Rider

_refuse_if_orders_under_way(d, u) ==
    \A o \in DOMAIN d.orders : Whose(d, o, u) => d.orders[o].status \notin IN_FLIGHT

\* Mutant of _refuse_if_money_owed: a withdrawal on its way is not owed.
BalanceOnly(d, u) == u # Customer => d.owed[u].balance = 0

_refuse_if_money_owed(d, u) == u # Customer => d.owed[u].balance = 0 /\ d.owed[u].processing = 0

\* A customer's rows are deleted, and the orders lose how to reach them.
_delete_personal_rows(d) ==
    [d EXCEPT !.addresses = Nothing, !.favorites = Nothing,
              !.orders = Change(@, DOMAIN @, LAMBDA o : [o EXCEPT !.contact = FALSE])]

_wipe_rider(d) == [d EXCEPT !.profile[Rider].online = FALSE, !.profile[Rider].papers = FALSE]

\* Closed, off the app and off the schedule.
_close_store(d) ==
    [d EXCEPT !.store[Vendor].active = FALSE, !.store[Vendor].open = FALSE, !.store[Vendor].hours = FALSE]

delete_account(d, u) ==
    IF ~(_refuse_if_orders_under_way(d, u) /\ _refuse_if_money_owed(d, u)) THEN {}
    ELSE {[(CASE u = Customer -> _delete_personal_rows(d)
              [] u = Rider -> _wipe_rider(d)
              [] OTHER -> _close_store(d)) EXCEPT !.users[u] = [deleted |-> TRUE, active |-> FALSE]]}

\* The account's own row is locked; nothing else is.
Leave(s, u) ==
    ServeHolding(s, "delete", {<<"users", u>>}, IF SignedIn(db, u) THEN delete_account(db, u) ELSE {}, Settle)

\* An operator blocks or lets back in: a customer or a rider who has not left.
set_status(s, u) ==
    ServeHolding(s, "block", {<<"users", u>>},
                 IF db.users[u].deleted \/ u = Vendor THEN {}
                 ELSE {[db EXCEPT !.users[u].active = ~@,
                                  !.profile[Rider].online = IF u = Rider /\ db.users[u].active THEN FALSE ELSE @]},
                 Settle)

AddressBook(s) ==
    \/ \E default \in BOOLEAN :
       \/ As(s, Customer, "address", create_address(db, default))
       \/ \E a \in DOMAIN db.addresses : As(s, Customer, "address", replace_address(db, a, default))
    \/ \E a \in DOMAIN db.addresses :
          As(s, Customer, "address", set_default(db, a)) \/ As(s, Customer, "address", delete_address(db, a))

Trading(s) ==
    \/ As(s, Customer, "favorite", toggle_favorite(db))
    \/ \E scheduled \in BOOLEAN : As(s, Customer, "order", place_order(db, scheduled))
    \/ \E o \in DOMAIN db.orders :
       \/ \E m \in Kitchen : As(s, Vendor, "order", move(db, o, m))
       \/ \E m \in Cancels : Serve(s, "order", move(db, o, m), Settle)
       \/ As(s, Rider, "order", accept(db, o)) \/ As(s, Rider, "order", _complete(db, o))
    \/ \E u \in {Rider, Vendor} : As(s, u, "payout", request_payout(db, u))
    \/ As(s, Rider, "order", set_shift(db))
    \/ As(s, Vendor, "order", switch(db))

Operator(s) ==
    \/ \E o \in DOMAIN db.orders :
          Serve(s, "assign", assign_rider(db, o), Settle) \/ Serve(s, "assign", _complete(db, o), Settle)
    \/ \E u \in {Rider, Vendor} : Serve(s, "reopen", admin_reopen(db, u), Settle)
    \/ Serve(s, "reopen", grant_incentive(db), Settle)
    \/ \E on \in BOOLEAN : Serve(s, "flags", set_flags(db, on), Settle)
    \/ \E active, open, hours \in BOOLEAN : Serve(s, "flags", update_vendor(db, active, open, hours), Settle)

Next ==
    \/ \E s \in Clerks : AddressBook(s) \/ Trading(s) \/ Operator(s)
                         \/ (\E u \in People : Leave(s, u) \/ set_status(s, u))
                         \/ Commit(s, Settle) \/ Abort(s)
    \/ \E u \in {Rider, Vendor}, paid \in BOOLEAN : At("payout", settle_payout(db, u, paid))
    \/ At("hours", sync(db))

Spec == Init /\ [][Next]_deskVars

(***************************************************************************)
(* Properties                                                              *)
(***************************************************************************)
\* A customer never has two default addresses, however requests overlap, and in turn
\* never has addresses without one (create_address, delete_address, set_default).
OneDefaultAddress ==
    LET defaults == {a \in DOMAIN db.addresses : db.addresses[a].default}
    IN  /\ Cardinality(defaults) <= 1
        /\ InTurn /\ db.addresses # Nothing => defaults # {}

\* In turn, who has left is on no order under way, except that one scheduled at the
\* vendor's store may come later and waits there; is owed nothing and has nothing open;
\* and that changes only by an operator's hand: a withdrawal taken back, an incentive, a
\* rider's flags, the store's (delete_account and what it refuses).
LeavesNothingOpen ==
    InTurn => \A u \in People : db.users[u].deleted =>
        /\ \A o \in DOMAIN db.orders : Whose(db, o, u) /\ db.orders[o].status \in IN_FLIGHT =>
              u = Vendor /\ db.orders[o].status = "PENDING"
        /\ u = Customer => db.addresses = Nothing /\ db.favorites = Nothing
        /\ u # Customer /\ ~db.owed[u].operated => db.owed[u].balance = 0 /\ db.owed[u].processing = 0
        /\ u = Rider /\ ~db.profile[u].operated => ~db.profile[u].online
        /\ u = Vendor /\ ~db.store[u].operated => ~db.store[u].active /\ ~db.store[u].open
=============================================================================
