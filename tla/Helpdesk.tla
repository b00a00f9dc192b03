------------------------------ MODULE Helpdesk -----------------------------
(***************************************************************************)
(* Support tickets (app/services/support.py) and the chat of an order      *)
(* (app/services/customer/chat.py).                                        *)
(*                                                                         *)
(* A ticket's row is locked by every request that writes it except the two *)
(* that open it, which write at most one flag and read the thread after    *)
(* their UPDATE, hence under its lock.  `shown` is not a column: to whom a *)
(* message has been shown.  `openings` has a row for each thread a request *)
(* will show at its commit, `markings` for each chat it will mark read.    *)
(***************************************************************************)
EXTENDS Desk

CONSTANTS Tickets, Messages, Scripts   \* ids, bounded

Live == {"OPEN", "PENDING"}
Statuses == Live \cup {"RESOLVED", "CLOSED"}

\* The one order whose parties chat, with or without a rider yet.
Parties == {"CUSTOMER", "VENDOR", "RIDER"}

Init == Opens([tickets |-> Nothing, messages |-> Nothing, openings |-> Nothing,
               chat |-> Nothing, markings |-> Nothing,
               orders |-> Only(1, [open |-> TRUE, rider |-> FALSE])], Scripts)

(***************************************************************************)
(* Tickets                                                                 *)
(***************************************************************************)
\* Mutant of Writing: the ticket is read without FOR UPDATE.
WritingUnlocked(t) == {}

Writing(t) == {<<"tickets", t>>}

\* The request answers with the thread, read after its flush.
_detail(d, t, side) == [d EXCEPT !.openings = Add(@, 1 + Cardinality(DOMAIN @), [ticket |-> t, side |-> side])]

_add_message(d, t, side) ==
    IF Fresh("messages", Messages) = {} THEN {}
    ELSE {[d EXCEPT !.messages = Add(@, Least(Fresh("messages", Messages)),
                                     [ticket |-> t, side |-> side, shown |-> FALSE])]}

create_ticket(d) ==
    IF Fresh("tickets", Tickets) = {} THEN {}
    ELSE LET t == Least(Fresh("tickets", Tickets))
             new == [d EXCEPT !.tickets = Add(@, t,
                       [status |-> "OPEN", staffUnread |-> TRUE, userUnread |-> FALSE,
                        resolved |-> FALSE, closed |-> FALSE, assigned |-> FALSE])]
         IN  {_detail(x, t, "user") : x \in _add_message(new, t, "user")}

\* Mutant of get_mine and admin_get: the flag goes down when the list is opened,
\* without the thread.
OpenUnshown(d, t) == {[d EXCEPT !.tickets[t].staffUnread = FALSE]}

get_mine(d, t) == {_detail([d EXCEPT !.tickets[t].userUnread = FALSE], t, "user")}
admin_get(d, t) == {_detail([d EXCEPT !.tickets[t].staffUnread = FALSE], t, "staff")}

reply_as_user(d, t) ==
    IF d.tickets[t].status = "CLOSED" THEN {}
    ELSE {_detail([x EXCEPT !.tickets[t].status = "OPEN",
                            !.tickets[t].resolved = IF d.tickets[t].status = "RESOLVED" THEN FALSE ELSE @,
                            !.tickets[t].staffUnread = TRUE, !.tickets[t].userUnread = FALSE],
                  t, "user") : x \in _add_message(d, t, "user")}

reply_as_staff(d, t) ==
    IF d.tickets[t].status = "CLOSED" THEN {}
    ELSE {_detail([x EXCEPT !.tickets[t].status = IF @ = "OPEN" THEN "PENDING" ELSE @,
                            !.tickets[t].assigned = TRUE,
                            !.tickets[t].staffUnread = FALSE, !.tickets[t].userUnread = TRUE],
                  t, "staff") : x \in _add_message(d, t, "staff")}

\* A new status, or another assignee; the priority is left out.
admin_update(d, t) ==
    {[d EXCEPT !.tickets[t].status = status, !.tickets[t].userUnread = TRUE,
               !.tickets[t].resolved = IF status = "RESOLVED" THEN TRUE
                                       ELSE IF status \in Live THEN FALSE ELSE @,
               !.tickets[t].closed = status = "CLOSED"] :
        status \in IF d.tickets[t].status = "CLOSED" THEN {} ELSE Statuses \ {d.tickets[t].status}}
    \cup {[d EXCEPT !.tickets[t].assigned = ~@]}

(***************************************************************************)
(* The chat of an order                                                    *)
(***************************************************************************)
\* Who the caller may be: the rider once there is one.
_resolve_party(d) == {p \in Parties : p = "RIDER" => d.orders[1].rider}

\* The thread is read first; the UPDATE then marks what others wrote by then.
get_thread(d, p) ==
    {[d EXCEPT !.chat = Change(@, {m \in DOMAIN @ : @[m].side # p},
                               LAMBDA row : [row EXCEPT !.shown = TRUE]),
               !.markings = Add(@, 1 + Cardinality(DOMAIN @), [side |-> p])]}

\* Refused once the order is cancelled, or a while after its delivery.
send_message(d, p) ==
    IF ~d.orders[1].open \/ Fresh("chat", Messages) = {} THEN {}
    ELSE {[d EXCEPT !.chat = Add(@, Least(Fresh("chat", Messages)),
                                 [side |-> p, shown |-> FALSE, read |-> FALSE])]}

unread_count(d, p) == {m \in DOMAIN d.chat : d.chat[m].side # p /\ ~d.chat[m].read}

\* The order gets a rider, or ends (OrderLifecycle).
order_moves(d) == {[d EXCEPT !.orders[1].rider = TRUE], [d EXCEPT !.orders[1].open = FALSE]}

(***************************************************************************)
(* Commit                                                                  *)
(***************************************************************************)
Opened(d, m) == \E o \in DOMAIN d.openings :
    d.openings[o] = [ticket |-> d.messages[m].ticket,
                     side |-> IF d.messages[m].side = "user" THEN "staff" ELSE "user"]

\* Threads read under the lock are shown as committed; unread chat is marked.
Settle(d) ==
    {[d EXCEPT !.messages = [m \in DOMAIN d.messages |->
                   [d.messages[m] EXCEPT !.shown = d.messages[m].shown \/ Opened(d, m)]],
               !.chat = [m \in DOMAIN d.chat |->
                   [d.chat[m] EXCEPT !.read = d.chat[m].read
                       \/ \E k \in DOMAIN d.markings : m \in unread_count(d, d.markings[k].side)]],
               !.openings = Nothing, !.markings = Nothing]}

Do(s, call, results) == Serve(s, call, results, Settle)
DoLocked(s, call, t, results) == ServeHolding(s, call, Writing(t), results, Settle)

\* The app's side of a ticket.
Asking(s) ==
    \/ Do(s, "ticket", create_ticket(db))
    \/ \E t \in DOMAIN db.tickets :
          Do(s, "ticket", get_mine(db, t)) \/ DoLocked(s, "ticket", t, reply_as_user(db, t))

\* The console's.
Answering(s) == \E t \in DOMAIN db.tickets :
    \/ Do(s, "ticket", admin_get(db, t))
    \/ DoLocked(s, "ticket", t, reply_as_staff(db, t))
    \/ DoLocked(s, "ticket", t, admin_update(db, t))

Chatting(s) ==
    \/ \E p \in _resolve_party(db) :
          Do(s, "chat", get_thread(db, p)) \/ Do(s, "chat", send_message(db, p))
    \/ Do(s, "chat", order_moves(db))

Next == \E s \in Clerks :
    Asking(s) \/ Answering(s) \/ Chatting(s) \/ Commit(s, Settle) \/ Abort(s)

Spec == Init /\ [][Next]_deskVars

(***************************************************************************)
(* Properties                                                              *)
(***************************************************************************)
\* However requests overlap, a ticket message the other side has not been shown
\* keeps that side's unread flag up (get_mine and admin_get read the thread after
\* their UPDATE); in requests that follow one another a chat message counts as
\* read only when someone else was shown it (get_thread).
NothingUnreadIsLost ==
    /\ \A m \in DOMAIN db.messages : ~db.messages[m].shown =>
          IF db.messages[m].side = "user" THEN db.tickets[db.messages[m].ticket].staffUnread
          ELSE db.tickets[db.messages[m].ticket].userUnread
    /\ InTurn => \A m \in DOMAIN db.chat : db.chat[m].read => db.chat[m].shown

\* However requests overlap, a closed ticket stays closed and gets no message;
\* in requests that follow one another an ended order's chat gets none either.
ClosedIsOver ==
    /\ \A t \in DOMAIN db.tickets : db.tickets[t].status = "CLOSED" =>
             /\ db'.tickets[t].status = "CLOSED"
             /\ \A m \in DOMAIN db'.messages \ DOMAIN db.messages : db'.messages[m].ticket # t
    /\ InTurn /\ ~db.orders[1].open => DOMAIN db'.chat = DOMAIN db.chat
=============================================================================
