----------------------------- MODULE Campaigns -----------------------------
(***************************************************************************)
(* Notification campaigns (app/services/notifications.py), the worker's    *)
(* sweep that sends them, the inbox and the devices they are pushed to     *)
(* (app/services/push_service.py).                                         *)
(*                                                                         *)
(* A push leaves before the request commits: `pushes` changes at once.     *)
(* `phones` is the world: whether a phone's token is dead, and the account *)
(* that last registered it, until the app unregisters it or the account is *)
(* deleted; a logout (api/v1/auth.py) ends the session and leaves the      *)
(* device.  A clock is a flag per campaign, `due`.                         *)
(***************************************************************************)
EXTENDS Desk

CONSTANTS
    Users, RoleOf,      \* the accounts and their roles
    Phones,
    Batch,              \* campaigns one sweep takes (20 in the code)
    Scripts             \* with the campaign ids each may use, bounded

Init == Opens([users |-> [u \in Users |-> [active |-> TRUE, deleted |-> FALSE]],
               campaigns |-> Nothing, inbox |-> Nothing, devices |-> Nothing, pushes |-> Nothing,
               phones |-> [p \in Phones |-> [owner |-> None, gone |-> FALSE]]], Scripts)

Settle(d) == {d}

_AUDIENCE_ROLES(audience) ==
    IF audience = "ALL" THEN {"CUSTOMER", "VENDOR", "RIDER"} ELSE {audience}

Audience(d, c) ==
    {u \in Users : d.users[u].active /\ RoleOf[u] \in _AUDIENCE_ROLES(d.campaigns[c].audience)}

Tokens(d, c) == {p \in DOMAIN d.devices : d.devices[p].active /\ d.devices[p].user \in Audience(d, c)}

(***************************************************************************)
(* Sending                                                                 *)
(***************************************************************************)
\* Each campaign's inbox rows, an INSERT ... SELECT over the audience in a savepoint
\* of its own, and its status: `sent` are those whose savepoint held.
fan_out(d, cs, sent) ==
    LET rows == {<<c, u, Cardinality({r \in DOMAIN d.inbox : r[1] = c /\ r[2] = u})>> :
                    c \in sent, u \in Users}
        mine == {r \in rows : r[2] \in Audience(d, r[1])}
    IN  [d EXCEPT !.inbox = Joined(@, [r \in mine |-> [read |-> FALSE]]),
                  !.campaigns = [c \in DOMAIN @ |-> IF c \notin cs THEN d.campaigns[c]
                      ELSE IF c \in sent
                      THEN [d.campaigns[c] EXCEPT !.status = "SENT", !.count = Cardinality(Audience(d, c))]
                      ELSE [d.campaigns[c] EXCEPT !.status = "FAILED"]]]

\* The push: what FCM took and delivered, and the tokens it called dead.
send(d, buzzing, dead) ==
    [d EXCEPT !.pushes = [x \in DOMAIN @ \cup buzzing |->
                  [times |-> (IF x \in DOMAIN @ THEN @[x].times ELSE 0) + (IF x \in buzzing THEN 1 ELSE 0)]],
              !.devices = Change(@, dead, LAMBDA x : [x EXCEPT !.active = FALSE])]

\* Best effort: FCM may be off or refuse the credentials, and each call may fail.
Live(d, cs) == {x \in (cs \X Phones) : x[2] \in Tokens(d, x[1]) /\ ~d.phones[x[2]].gone}
Dead(d, cs) == {p \in UNION {Tokens(d, c) : c \in cs} : d.phones[p].gone}

dispatch(d, cs) ==
    UNION {{fan_out(send(d, buzzing, dead), cs, sent) :
                buzzing \in SUBSET Live(d, sent), dead \in SUBSET Dead(d, sent)} : sent \in SUBSET cs}

\* A request that sends campaigns of d, holding some: its pushes are out before
\* it commits.
Sending(s, call, d, cs, holds) ==
    IF InTurn THEN ServeHolding(s, call, holds, dispatch(d, cs), Settle)
    ELSE /\ call \in script.calls
         /\ txn[s] = None
         /\ UNCHANGED script
         /\ \E new \in dispatch(d, cs) :
               /\ db' = [db EXCEPT !.pushes = new.pushes]
               /\ txn' = [txn EXCEPT ![s] = [seen |-> db', new |-> new, holds |-> holds]]

\* A campaign for later, or sent within the request.
create(s, audience, later) ==
    \E c \in {Least(x) : x \in {Fresh("campaigns", script.ids)} \ {{}}} :
        LET made == [db EXCEPT !.campaigns = Add(@, c,
                        [audience |-> audience, status |-> "SCHEDULED", due |-> FALSE, count |-> 0])]
        IN  IF later THEN Serve(s, "create", {made}, Settle)
            ELSE Sending(s, "create", made, {c}, {})

come_due(c) ==
    Statement("create", {[db EXCEPT !.campaigns[c].due = TRUE] : x \in {y \in {c} : ~db.campaigns[y].due}},
              Settle)

Row(c) == <<"campaigns", c>>

\* Mutant of cancel: the campaign is read without its lock.
CancelUnlocked(s, c) ==
    Serve(s, "cancel", IF db.campaigns[c].status # "SCHEDULED" THEN {}
                       ELSE {[db EXCEPT !.campaigns[c].status = "CANCELLED"]}, Settle)

cancel(s, c) ==
    ServeHolding(s, "cancel", {Row(c)},
                 IF db.campaigns[c].status # "SCHEDULED" THEN {}
                 ELSE {[db EXCEPT !.campaigns[c].status = "CANCELLED"]}, Settle)

\* Those due that nobody holds, no more than a batch.
Due(s) == {c \in DOMAIN db.campaigns : db.campaigns[c].status = "SCHEDULED" /\ db.campaigns[c].due
                                       /\ ~Locked(s, Row(c))}

send_due(s) ==
    \E cs \in SUBSET Due(s) :
        /\ cs # {}
        /\ Cardinality(cs) = IF Cardinality(Due(s)) < Batch THEN Cardinality(Due(s)) ELSE Batch
        /\ Sending(s, "send_due", db, cs, {Row(c) : c \in cs})

(***************************************************************************)
(* Inbox and devices                                                       *)
(***************************************************************************)
unread(u) == {r \in DOMAIN db.inbox : r[2] = u /\ ~db.inbox[r].read}

mark_read(u, rows) ==
    Statement("mark_read", {[db EXCEPT !.inbox = Change(@, x, LAMBDA n : [n EXCEPT !.read = TRUE])] :
                               x \in {rows \cap unread(u)} \ {{}}}, Settle)

\* Mutant of register_device: a token somebody else had stays theirs.
RegisterKeepsUser(s, u, p) ==
    Serve(s, "register", IF db.phones[p].gone \/ ~db.users[u].active THEN {}
        ELSE {[db EXCEPT !.devices = Joined(Change(@, {p}, LAMBDA x : [x EXCEPT !.active = TRUE]),
                                            Only(p, [user |-> u, active |-> TRUE])),
                         !.phones[p].owner = u]}, Settle)

\* The app registers the phone's token, whoever had it.
register_device(s, u, p) ==
    Serve(s, "register", IF db.phones[p].gone \/ ~db.users[u].active THEN {}
        ELSE {[db EXCEPT !.devices = Add(Drop(@, {p}), p, [user |-> u, active |-> TRUE]),
                         !.phones[p].owner = u]}, Settle)

\* The app's own call when its user signs out, at once or much later.
unregister_device(u, p) ==
    Statement("unregister",
        IF p \notin DOMAIN db.devices \/ db.devices[p].user # u \/ ~db.users[u].active THEN {}
        ELSE {[db EXCEPT !.devices[p].active = FALSE,
                         !.phones[p].owner = IF @ = u THEN None ELSE @]}, Settle)

uninstall(p) == Statement("register", {[db EXCEPT !.phones[p] = [owner |-> None, gone |-> TRUE]]}, Settle)

\* An operator blocks a customer or a rider, or lets them back in.
set_active(u) ==
    Statement("set_active", IF db.users[u].deleted \/ RoleOf[u] \notin {"CUSTOMER", "RIDER"} THEN {}
                            ELSE {[db EXCEPT !.users[u].active = ~@]}, Settle)

\* The account, its inbox and its devices go; what refuses it is in Accounts.  It
\* locks the user: a fan-out that has read it as active waits, then writes its row.
delete_account(u) ==
    Statement("leave", IF ~db.users[u].active \/ RoleOf[u] = "ADMIN" THEN {}
        ELSE {[db EXCEPT !.users[u] = [active |-> FALSE, deleted |-> TRUE],
                         !.inbox = Drop(@, {r \in DOMAIN @ : r[2] = u}),
                         !.devices = Drop(@, {p \in DOMAIN @ : @[p].user = u}),
                         !.phones = Change(@, {p \in Phones : @[p].owner = u},
                                           LAMBDA x : [x EXCEPT !.owner = None])]}, Settle)

\* The console and the worker.
Console(s) ==
    \/ \E audience \in {"CUSTOMER", "ALL"}, later \in BOOLEAN : create(s, audience, later)
    \/ \E c \in DOMAIN db.campaigns : cancel(s, c)
    \/ send_due(s)

\* The apps' inbox and devices.
Inbox ==
    \/ \E u \in Users : mark_read(u, DOMAIN db.inbox) \/ \E r \in DOMAIN db.inbox : mark_read(u, {r})
    \/ \E u \in Users, p \in Phones : unregister_device(u, p)
Arriving(s) == \E u \in Users, p \in Phones : register_device(s, u, p)

Next ==
    \/ \E s \in Clerks : Console(s) \/ Arriving(s) \/ Commit(s, Settle) \/ Abort(s)
    \/ Inbox
    \/ \E c \in DOMAIN db.campaigns : come_due(c)
    \/ \E u \in Users : set_active(u) \/ delete_account(u)
    \/ \E p \in Phones : uninstall(p)

Spec == Init /\ [][Next]_deskVars

(***************************************************************************)
(* Properties                                                              *)
(***************************************************************************)
Received(c) == {r \in DOMAIN db.inbox : r[1] = c}

\* However sweeps, cancellations, an administrator's request and deleted accounts
\* overlap, a campaign is in an inbox at most once, and only if it counts as sent; it
\* reached as many accounts as it says, each of which has it or is deleted (send_due
\* and cancel lock the campaign's row; account_deletion.py takes the inbox along).
SentOnce ==
    \A c \in DOMAIN db.campaigns :
        /\ \A r \in Received(c) : r[3] = 0
        /\ db.campaigns[c].status # "SENT" => Received(c) = {}
        /\ \E reached \in SUBSET Users :
              /\ Cardinality(reached) = db.campaigns[c].count
              /\ \A r \in Received(c) : r[2] \in reached
              /\ \A u \in reached : <<c, u, 0>> \in Received(c) \/ db.users[u].deleted

\* In turn, a campaign buzzes, at most once and only if it was sent, phones that an
\* account of its audience registered last; and each such phone has a token the push
\* is tried on, whatever happened to the tokens before (register_device,
\* unregister_device).
BuzzesItsAudience ==
    InTurn => \A c \in DOMAIN db'.campaigns :
        LET buzzed == {x \in DOMAIN db'.pushes : x[1] = c}
            theirs == {p \in Phones : db'.phones[p].owner \in Audience(db', c)}
            sent == db'.campaigns[c].status = "SENT"
        IN  /\ \A x \in buzzed : db'.pushes[x].times = 1 /\ sent
            /\ (sent /\ (c \in DOMAIN db.campaigns => db.campaigns[c].status # "SENT")) =>
                   {x[2] : x \in buzzed} \subseteq theirs /\ theirs \subseteq Tokens(db', c)
=============================================================================
