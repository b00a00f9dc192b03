------------------------ MODULE BackOfficeInvariants ------------------------
(***************************************************************************)
(* What every step of a machine on Desk keeps: for each machine, what its  *)
(* tables are when committed (...Tables, ...True, ...Kept), what an open   *)
(* request may make of those it read (...Work), what of them still stands  *)
(* when it commits (...Stands) and what keeps two requests apart           *)
(* (...Apart).  BackOfficeProofs shows that each step keeps them.          *)
(***************************************************************************)
EXTENDS BackOffice

(***************************************************************************)
(* Helpdesk: no unread message is lost, and what is closed is over         *)
(***************************************************************************)
HelpTicket == [status : Helpdesk!Statuses, staffUnread : BOOLEAN, userUnread : BOOLEAN,
               resolved : BOOLEAN, closed : BOOLEAN, assigned : BOOLEAN]
HelpMessage(tickets) == [ticket : DOMAIN tickets, side : {"user", "staff"}, shown : BOOLEAN]

HelpRecord(d) ==
    d = [tickets |-> d.tickets, messages |-> d.messages, openings |-> d.openings,
         chat |-> d.chat, markings |-> d.markings, orders |-> d.orders]

HelpShape(d) ==
    /\ HelpRecord(d)
    /\ \A t \in DOMAIN d.tickets : d.tickets[t] \in HelpTicket
    /\ \A m \in DOMAIN d.messages : d.messages[m] \in HelpMessage(d.tickets)

\* The flag that a message of one side raises for the other, who clears it by reading.
Flag(ticket, side) == IF side = "user" THEN ticket.staffUnread ELSE ticket.userUnread
Reader(side) == IF side = "user" THEN "staff" ELSE "user"
Shows(d, t, side) == \E o \in DOMAIN d.openings : d.openings[o] = [ticket |-> t, side |-> Reader(side)]

\* The tables as committed: nobody's thread is still to be shown, and what was not
\* shown is flagged.
HelpTables(d) ==
    /\ HelpShape(d)
    /\ DOMAIN d.openings = {}
    /\ \A m \in DOMAIN d.messages :
          ~d.messages[m].shown => Flag(d.tickets[d.messages[m].ticket], d.messages[m].side)

\* A chat message is marked read only when it was shown; two rows meet in turn only.
ChatRow == [side : Helpdesk!Parties, shown : BOOLEAN, read : BOOLEAN]
ChatTables(d) ==
    /\ DOMAIN d.markings = {}
    /\ \A m \in DOMAIN d.chat : d.chat[m] \in ChatRow /\ (d.chat[m].read => d.chat[m].shown)

\* Before the marks are made: what is to be marked for a party was shown.
ChatKept(d) ==
    \A m \in DOMAIN d.chat :
        /\ d.chat[m] \in ChatRow
        /\ d.chat[m].read => d.chat[m].shown
        /\ \A k \in DOMAIN d.markings : d.chat[m].side # d.markings[k].side => d.chat[m].shown

\* A ticket a request may change: it is locked and was not closed.
Handles(seen, holds, t) == <<"tickets", t>> \in holds /\ seen.tickets[t].status # "CLOSED"

\* What a request makes of the tickets it read: its messages are flagged on tickets that
\* are its own or locked and not closed, and it lowers a flag only to show the thread.
HelpWork(seen, new, holds) ==
    /\ HelpShape(seen) /\ HelpShape(new)
    /\ DOMAIN seen.openings = {}
    /\ DOMAIN seen.tickets \subseteq DOMAIN new.tickets
    /\ DOMAIN seen.messages \subseteq DOMAIN new.messages
    /\ \A m \in DOMAIN seen.messages : new.messages[m] = seen.messages[m]
    /\ \A m \in DOMAIN new.messages : m \notin DOMAIN seen.messages =>
          /\ Flag(new.tickets[new.messages[m].ticket], new.messages[m].side)
          /\ \/ new.messages[m].ticket \notin DOMAIN seen.tickets
             \/ Handles(seen, holds, new.messages[m].ticket)
    /\ \A t \in DOMAIN seen.tickets :
          new.tickets[t].status = seen.tickets[t].status \/ Handles(seen, holds, t)
    /\ \A t \in DOMAIN seen.tickets, side \in {"user", "staff"} :
          Flag(seen.tickets[t], side) /\ ~Flag(new.tickets[t], side) => Shows(new, t, side)

\* What it read is still there, its new ids are still free, its locked rows unchanged.
HelpStands(r, d) ==
    /\ DOMAIN r.seen.tickets \subseteq DOMAIN d.tickets
    /\ DOMAIN r.seen.messages \subseteq DOMAIN d.messages
    /\ \A t \in DOMAIN r.new.tickets : t \notin DOMAIN r.seen.tickets => t \notin DOMAIN d.tickets
    /\ \A m \in DOMAIN r.new.messages : m \notin DOMAIN r.seen.messages => m \notin DOMAIN d.messages
    /\ \A t \in DOMAIN r.seen.tickets :
          <<"tickets", t>> \in r.holds => d.tickets[t] = r.seen.tickets[t]

\* Two open requests have no new id in common and no lock.
HelpApart(q, r) ==
    /\ \A t \in DOMAIN q.new.tickets \cap DOMAIN r.new.tickets :
          t \in DOMAIN q.seen.tickets \/ t \in DOMAIN r.seen.tickets
    /\ \A m \in DOMAIN q.new.messages \cap DOMAIN r.new.messages :
          m \in DOMAIN q.seen.messages \/ m \in DOMAIN r.seen.messages
    /\ q.holds \cap r.holds = {}

HelpOpen ==
    /\ \A s \in Clerks : txn[s] # None =>
          /\ HelpWork(txn[s].seen, txn[s].new, txn[s].holds)
          /\ HelpStands(txn[s], db)
    /\ \A s, u \in Clerks : s # u /\ txn[s] # None /\ txn[u] # None => HelpApart(txn[s], txn[u])

\* In turn nobody's request is open when another is served.
NoneOpen == \A s \in Clerks : txn[s] = None

HelpInv ==
    /\ txn = [s \in Clerks |-> txn[s]]
    /\ HelpTables(db)
    /\ HelpOpen
    /\ InTurn => NoneOpen /\ ChatTables(db)

(***************************************************************************)
(* Accounts: who has left leaves nothing open                              *)
(***************************************************************************)
AccountOrder == [status : {"PENDING", "PREPARING", "READY", "PICKED_UP", "DELIVERED", "CANCELLED"},
                 rider : {None, Rider}, contact : BOOLEAN]

\* An address book in turn: one of the addresses is the default, and one the newest.
AddressBook(addresses) ==
    /\ addresses = [a \in DOMAIN addresses |-> addresses[a]]
    /\ \A a \in DOMAIN addresses : a \in Nat /\ addresses[a] \in [default : BOOLEAN]
    /\ DOMAIN addresses # {} =>
          /\ \E a \in DOMAIN addresses : addresses[a].default
          /\ \E n \in DOMAIN addresses : \A a \in DOMAIN addresses : a <= n

AccountRecord(d) ==
    d = [users |-> d.users, owed |-> d.owed, addresses |-> d.addresses, favorites |-> d.favorites,
         orders |-> d.orders, profile |-> d.profile, store |-> d.store]

Books == [balance : Nat, processing : Nat, paid : Nat, operated : BOOLEAN]
Shift == [online : BOOLEAN, papers : BOOLEAN, operated : BOOLEAN]
Storeroom == [active : BOOLEAN, open : BOOLEAN, hours : BOOLEAN, operated : BOOLEAN]

AccountShape(d) ==
    /\ AccountRecord(d)
    /\ d.users \in [Accounts!People -> [deleted : BOOLEAN, active : BOOLEAN]]
    /\ d.owed \in [{Rider, Vendor} -> Books]
    /\ AddressBook(d.addresses)
    /\ \A o \in DOMAIN d.orders : d.orders[o] \in AccountOrder
    /\ d.profile \in [{Rider} -> Shift]
    /\ d.store \in [{Vendor} -> Storeroom]

\* Nobody but an operator has brought any of it back.
NothingOwed(b) == ~b.operated => b.balance = 0 /\ b.processing = 0
OffShift(p) == ~p.operated => ~p.online

\* Beside what the property says, what keeps it so: a store that was closed for good is
\* off the schedule.
ShutDown(r) == ~r.operated => ~r.active /\ ~r.open /\ ~r.hours

CustomerLeft(d) ==
    /\ d.addresses = Nothing /\ d.favorites = Nothing
    /\ \A o \in DOMAIN d.orders : d.orders[o].status \notin Accounts!IN_FLIGHT
RiderLeft(d) ==
    /\ OffShift(d.profile[Rider]) /\ NothingOwed(d.owed[Rider])
    /\ \A o \in DOMAIN d.orders : d.orders[o].status \in Accounts!IN_FLIGHT => d.orders[o].rider # Rider
VendorLeft(d) ==
    /\ ShutDown(d.store[Vendor]) /\ NothingOwed(d.owed[Vendor])
    /\ \A o \in DOMAIN d.orders : d.orders[o].status \notin Accounts!IN_FLIGHT \ {"PENDING"}

AccountsKept(d) ==
    /\ AccountShape(d)
    /\ d.users[Customer].deleted => CustomerLeft(d)
    /\ d.users[Rider].deleted => RiderLeft(d)
    /\ d.users[Vendor].deleted => VendorLeft(d)

AccountsInv == InTurn => NoneOpen /\ AccountsKept(db)

\* However requests overlap, uq_addresses_one_default holds of the committed rows.
OneAddress(d) ==
    \A a, b \in DOMAIN d.addresses : d.addresses[a].default /\ d.addresses[b].default => a = b

(***************************************************************************)
(* Campaigns: sent once, to as many as they say                            *)
(***************************************************************************)
CampaignRow == [audience : {"CUSTOMER", "ALL"}, status : {"SCHEDULED", "SENT", "CANCELLED", "FAILED"},
                due : BOOLEAN, count : Nat]

CampaignRecord(d) ==
    d = [users |-> d.users, campaigns |-> d.campaigns, inbox |-> d.inbox, devices |-> d.devices,
         pushes |-> d.pushes, phones |-> d.phones]

Received(d, c) == {r \in DOMAIN d.inbox : r[1] = c}
AccountRow == [active : BOOLEAN, deleted : BOOLEAN]
UsersTrue(users) == DOMAIN users = Users /\ \A u \in Users : users[u] \in AccountRow

\* As many as it says, each with the campaign in their inbox or deleted.
Reached(d, c, all) ==
    /\ Cardinality(all) = d.campaigns[c].count
    /\ \A r \in Received(d, c) : r[2] \in all
    /\ \A u \in all : <<c, u, 0>> \in Received(d, c) \/ d.users[u].deleted

CampaignTrue(d, c) ==
    /\ d.campaigns[c] \in CampaignRow
    /\ d.campaigns[c].status # "SENT" => Received(d, c) = {}
    /\ \E all \in SUBSET Users : Reached(d, c, all)

\* What the property says of the tables, and of what inbox rows there are.
CampaignsTrue(d) ==
    /\ CampaignRecord(d) /\ UsersTrue(d.users)
    /\ \A c \in DOMAIN d.campaigns : CampaignTrue(d, c)
    /\ \A r \in DOMAIN d.inbox : r[1] \in DOMAIN d.campaigns /\ r[3] = 0

\* A deleted account stays so.
StillDeleted(d, e) == \A u \in Users : d.users[u].deleted => e.users[u].deleted

\* From d to e no inbox row is new, and only deleted accounts have lost theirs.
InboxKept(d, e) ==
    /\ UsersTrue(e.users) /\ StillDeleted(d, e)
    /\ DOMAIN e.inbox \subseteq DOMAIN d.inbox
    /\ \A r \in DOMAIN d.inbox : r \in DOMAIN e.inbox \/ e.users[r[2]].deleted

\* A campaign that a request may send or cancel: its own, or one it holds and found waiting.
InHand(seen, c, holds) ==
    c \in DOMAIN seen.campaigns => <<"campaigns", c>> \in holds /\ seen.campaigns[c].status = "SCHEDULED"

CampaignWork(seen, new, holds) ==
    /\ CampaignsTrue(seen) /\ CampaignsTrue(new) /\ new.users = seen.users
    /\ DOMAIN seen.campaigns \subseteq DOMAIN new.campaigns
    /\ DOMAIN seen.inbox \subseteq DOMAIN new.inbox
    /\ \A c \in DOMAIN seen.campaigns : new.campaigns[c] = seen.campaigns[c] \/ InHand(seen, c, holds)
    /\ \A r \in DOMAIN new.inbox : r \in DOMAIN seen.inbox \/ InHand(seen, r[1], holds)

CampaignStands(r, d) ==
    /\ DOMAIN r.seen.campaigns \subseteq DOMAIN d.campaigns /\ StillDeleted(r.seen, d)
    /\ \A c \in DOMAIN r.new.campaigns : c \notin DOMAIN r.seen.campaigns => c \notin DOMAIN d.campaigns
    /\ \A c \in DOMAIN r.seen.campaigns :
          <<"campaigns", c>> \in r.holds => d.campaigns[c] = r.seen.campaigns[c]

CampaignsApart(q, r) ==
    /\ \A c \in DOMAIN q.new.campaigns \cap DOMAIN r.new.campaigns :
          c \in DOMAIN q.seen.campaigns \/ c \in DOMAIN r.seen.campaigns
    /\ q.holds \cap r.holds = {}

CampaignsOpen ==
    /\ \A s \in Clerks : txn[s] # None =>
          /\ CampaignWork(txn[s].seen, txn[s].new, txn[s].holds)
          /\ CampaignStands(txn[s], db)
    /\ \A s, u \in Clerks : s # u /\ txn[s] # None /\ txn[u] # None => CampaignsApart(txn[s], txn[u])

CampaignsInv ==
    /\ txn = [s \in Clerks |-> txn[s]] /\ script \in CampaignsScripts
    /\ CampaignsTrue(db)
    /\ CampaignsOpen
    /\ InTurn => NoneOpen

(***************************************************************************)
(* Onboarding: decisions stand, and every approval has its account         *)
(***************************************************************************)
OnTable == {"users", "restaurants", "vendors", "riders", "invitations", "expired"}

OnRecord(d) ==
    d = [users |-> d.users, restaurants |-> d.restaurants, vendors |-> d.vendors,
         riders |-> d.riders, invitations |-> d.invitations, expired |-> d.expired]

\* The tables of rows that are decided once, the decision that gives an account, its role.
Decided == {"riders", "invitations"}
Given(t) == IF t = "riders" THEN "APPROVED" ELSE "ACCEPTED"
RoleFor(t) == IF t = "riders" THEN "RIDER" ELSE "ADMIN"

UserRow(row) == row = [email |-> row.email, role |-> row.role]
DecidedRow(row) == row = [email |-> row.email, status |-> row.status, account |-> row.account]

\* The tables as committed.
OnTables(d) ==
    /\ OnRecord(d)
    /\ \A u \in DOMAIN d.users : UserRow(d.users[u])
    /\ \A t \in Decided : \A a \in DOMAIN d[t] :
          /\ DecidedRow(d[t][a])
          /\ d[t][a].status = Given(t) =>
                d[t][a].account \in DOMAIN d.users /\ d.users[d[t][a].account].role = RoleFor(t)
    /\ \A t \in Decided : \A a, b \in DOMAIN d[t] :
          d[t][a].status = Given(t) /\ d[t][b].status = Given(t) /\ d[t][a].account = d[t][b].account => a = b

\* No user goes, and none changes roles.
UsersGrown(seen, new) ==
    /\ \A u \in DOMAIN seen.users : u \in DOMAIN new.users /\ new.users[u].role = seen.users[u].role
    /\ \A u \in DOMAIN new.users : UserRow(new.users[u])

\* A row decided: it was locked and waiting, and its account is new.
Decides(seen, new, holds, t, a) ==
    /\ <<t, a>> \in holds
    /\ seen[t][a].status = "PENDING"
    /\ DecidedRow(new[t][a])
    /\ new[t][a].status = Given(t) =>
          /\ new[t][a].account \in DOMAIN new.users /\ new[t][a].account \notin DOMAIN seen.users
          /\ new.users[new[t][a].account].role = RoleFor(t)

\* What a request makes of the tables it read.
OnWork(seen, new, holds) ==
    /\ OnRecord(seen) /\ OnRecord(new)
    /\ UsersGrown(seen, new)
    /\ \A t \in Decided : \A a \in DOMAIN seen[t] :
          a \in DOMAIN new[t] /\ (new[t][a] = seen[t][a] \/ Decides(seen, new, holds, t, a))
    /\ \A t \in Decided : \A a \in DOMAIN new[t] :
          a \notin DOMAIN seen[t] => DecidedRow(new[t][a]) /\ new[t][a].status = "PENDING"
    /\ \A t \in Decided : \A a, b \in DOMAIN seen[t] :
          /\ new[t][a] # seen[t][a] /\ new[t][a].status = Given(t)
          /\ new[t][b] # seen[t][b] /\ new[t][b].status = Given(t)
          /\ new[t][a].account = new[t][b].account
          => a = b

\* What it read is still there, its new ids are still free, its locked rows unchanged.
OnStands(r, d) ==
    /\ \A t \in {"users"} \cup Decided : \A k \in DOMAIN r.seen[t] : k \in DOMAIN d[t]
    /\ \A t \in {"users"} \cup Decided : \A k \in DOMAIN r.new[t] : k \notin DOMAIN r.seen[t] => k \notin DOMAIN d[t]
    /\ \A t \in Decided : \A a \in DOMAIN r.seen[t] : <<t, a>> \in r.holds => d[t][a] = r.seen[t][a]

\* Two open requests have no new id in common and no lock.
OnApart(q, r) ==
    /\ \A t \in {"users"} \cup Decided : \A k \in DOMAIN q.new[t] :
          k \in DOMAIN r.new[t] => k \in DOMAIN q.seen[t] \/ k \in DOMAIN r.seen[t]
    /\ q.holds \cap r.holds = {}

OnOpen ==
    /\ \A s \in Clerks : txn[s] # None =>
          OnWork(txn[s].seen, txn[s].new, txn[s].holds) /\ OnStands(txn[s], db)
    /\ \A s, u \in Clerks : s # u /\ txn[s] # None /\ txn[u] # None => OnApart(txn[s], txn[u])

\* In turn, where no store is verified past its application: each application has a
\* store of its own, and waits only if the store is not on sale.
StoreRow(row) == row = [owner |-> row.owner, verified |-> row.verified, open |-> row.open]
VendorRow(row) == row = [user |-> row.user, restaurant |-> row.restaurant, status |-> row.status]
Waiting(d) ==
    /\ \A x \in DOMAIN d.restaurants : StoreRow(d.restaurants[x])
    /\ \A a \in DOMAIN d.vendors :
          /\ VendorRow(d.vendors[a])
          /\ d.vendors[a].restaurant \in DOMAIN d.restaurants
          /\ d.restaurants[d.vendors[a].restaurant].verified => d.vendors[a].status # "PENDING"
    /\ \A a, b \in DOMAIN d.vendors : d.vendors[a].restaurant = d.vendors[b].restaurant => a = b

Asked == "set_verified" \notin script.calls

OnInv ==
    /\ txn = [s \in Clerks |-> txn[s]]
    /\ OnTables(db)
    /\ OnOpen
    /\ InTurn => NoneOpen /\ (Asked => Waiting(db))

(***************************************************************************)
(* Publishing: tallies are true, banners in one list, what is over is over *)
(***************************************************************************)
PubRecord(d) ==
    d = [posts |-> d.posts, reports |-> d.reports, orders |-> d.orders, reviews |-> d.reviews,
         store |-> d.store, dish |-> d.dish, reels |-> d.reels, banners |-> d.banners,
         promos |-> d.promos, batches |-> d.batches, clock |-> d.clock]

PostRow(row) == row = [author |-> row.author, removed |-> row.removed, count |-> row.count]
BannerRow == [active : BOOLEAN, starts : Int \cup {None}, ends : Int \cup {None}]
PromoRow(row) ==
    /\ row = [active |-> row.active, from |-> row.from, until |-> row.until, shown |-> row.shown]
    /\ row.until \in Int
ClockShape(d) == 1 \in DOMAIN d.clock /\ d.clock[1] = [now |-> d.clock[1].now] /\ d.clock[1].now \in Int

Reports(d, p) == {r \in DOMAIN d.reports : r[1] = p}
Counted(d, p) ==
    /\ PostRow(d.posts[p])
    /\ IsFiniteSet(Reports(d, p)) /\ d.posts[p].count = Cardinality(Reports(d, p))

Over(d, p) == d.promos[p].until <= d.clock[1].now

\* A campaign counts nothing, or one event for a batch whose hour is before its end.
Tallies(d, p) ==
    d.promos[p].shown # db.promos[p].shown =>
        /\ d.promos[p].shown = db.promos[p].shown + 1
        /\ \E b \in DOMAIN db.batches : ~(db.promos[p].until <= db.batches[b].at)

\* What was removed or over is as it was.
PubLasts(d) ==
    /\ \A p \in DOMAIN db.posts \cap DOMAIN d.posts : db.posts[p].removed # None => d.posts[p] = db.posts[p]
    /\ \A p \in DOMAIN db.promos :
          /\ p \in DOMAIN d.promos
          /\ Over(db, p) => Over(d, p)
          /\ Tallies(d, p)

\* Before the reports of deleted posts go with them.
PubKept(d) ==
    /\ PubRecord(d) /\ ClockShape(d) /\ PubLasts(d)
    /\ \A p \in DOMAIN d.posts : Counted(d, p)
    /\ \A b \in DOMAIN d.banners : d.banners[b] \in BannerRow
    /\ \A p \in DOMAIN d.promos : PromoRow(d.promos[p])

\* The tables as committed.
PubTables(d) ==
    /\ PubRecord(d) /\ ClockShape(d)
    /\ \A p \in DOMAIN d.posts : Counted(d, p)
    /\ \A r \in DOMAIN d.reports : r[1] \in DOMAIN d.posts
    /\ \A b \in DOMAIN d.banners : d.banners[b] \in BannerRow
    /\ \A p \in DOMAIN d.promos : PromoRow(d.promos[p])

\* In turn the rating is that of the reviews.
Rated(d) ==
    /\ 1 \in DOMAIN d.store
    /\ d.store[1] = [sum |-> d.store[1].sum, count |-> d.store[1].count, visible |-> d.store[1].visible]
    /\ [sum |-> d.store[1].sum, count |-> d.store[1].count] = Publishing!Ratings(d.reviews)

\* A post a request may change: it is locked and not removed.
Moderates(seen, new, holds, p) ==
    /\ <<"posts", p>> \in holds /\ seen.posts[p].removed = None /\ Counted(new, p)

\* What a request makes of the tables it read: it reports and removes posts it holds,
\* ends campaigns at the hour it read, and counts nothing.
PubWork(seen, new, holds) ==
    /\ PubRecord(seen) /\ PubRecord(new) /\ new.clock = seen.clock
    /\ \A p \in DOMAIN seen.posts :
          /\ p \in DOMAIN new.posts
          /\ \/ new.posts[p] = seen.posts[p] /\ Reports(new, p) = Reports(seen, p)
             \/ Moderates(seen, new, holds, p)
    /\ \A p \in DOMAIN new.posts : p \notin DOMAIN seen.posts => PostRow(new.posts[p]) /\ new.posts[p].count = 0
    /\ \A r \in DOMAIN seen.reports : r \in DOMAIN new.reports
    /\ \A r \in DOMAIN new.reports : r \notin DOMAIN seen.reports =>
          r[1] \in DOMAIN seen.posts /\ <<"posts", r[1]>> \in holds
    /\ \A b \in DOMAIN new.banners : new.banners[b] \in BannerRow
    /\ \A p \in DOMAIN new.promos : PromoRow(new.promos[p])
    /\ \A p \in DOMAIN seen.promos :
          /\ p \in DOMAIN new.promos
          /\ new.promos[p].shown = seen.promos[p].shown
          /\ new.promos[p].until \in {seen.promos[p].until, seen.clock[1].now}

\* What it read is still there where it matters.
PubStands(r, d) ==
    /\ r.seen.clock[1].now \in Int /\ r.seen.clock[1].now <= d.clock[1].now
    /\ \A p \in DOMAIN r.new.posts : p \notin DOMAIN r.seen.posts => p \notin DOMAIN d.posts
    /\ \A p \in DOMAIN r.seen.posts : <<"posts", p>> \in r.holds =>
          p \in DOMAIN d.posts /\ d.posts[p] = r.seen.posts[p] /\ Reports(d, p) = Reports(r.seen, p)
    /\ \A p \in DOMAIN r.seen.promos : p \in DOMAIN d.promos
    /\ \A p \in DOMAIN r.new.promos : p \notin DOMAIN r.seen.promos => p \notin DOMAIN d.promos

PubApart(q, r) ==
    /\ \A p \in DOMAIN q.new.posts : p \in DOMAIN r.new.posts => p \in DOMAIN q.seen.posts \/ p \in DOMAIN r.seen.posts
    /\ \A p \in DOMAIN q.new.promos : p \in DOMAIN r.new.promos => p \in DOMAIN q.seen.promos \/ p \in DOMAIN r.seen.promos
    /\ q.holds \cap r.holds = {}

PubOpen ==
    /\ \A s \in Clerks : txn[s] # None =>
          PubWork(txn[s].seen, txn[s].new, txn[s].holds) /\ PubStands(txn[s], db)
    /\ \A s, u \in Clerks : s # u /\ txn[s] # None /\ txn[u] # None => PubApart(txn[s], txn[u])

PubInv ==
    /\ txn = [s \in Clerks |-> txn[s]]
    /\ PubTables(db)
    /\ PubOpen
    /\ InTurn => NoneOpen /\ Rated(db)

(***************************************************************************)
(* One order, and the screens, cards and phones that follow it             *)
(***************************************************************************)
LiveRecord(d) ==
    d = [orders |-> d.orders, history |-> d.history, riders |-> d.riders, redis |-> d.redis,
         tasks |-> d.tasks, screens |-> d.screens, cards |-> d.cards, told |-> d.told]

LiveShape(d) ==
    /\ LiveRecord(d)
    /\ DOMAIN d.orders = {1}
    /\ d.orders[1] = [status |-> d.orders[1].status, rider |-> d.orders[1].rider, by |-> d.orders[1].by]
    /\ DOMAIN d.screens = {"vendor", "customer"}
    /\ \A x \in DOMAIN d.screens :
          d.screens[x] = [state |-> d.screens[x].state, shows |-> d.screens[x].shows,
                          rider |-> d.screens[x].rider, dot |-> d.screens[x].dot]
    /\ d.screens["vendor"].state = "open" /\ d.screens["customer"].state \in {"open", "snapped", "closed"}
    /\ \A t \in DOMAIN d.tasks :
          d.tasks[t] = [to |-> d.tasks[t].to, status |-> d.tasks[t].status, rider |-> d.tasks[t].rider]

\* What is to be announced, like what a screen shows, is a status the order has had.
LiveTables(d) ==
    /\ LiveShape(d)
    /\ d.orders[1].status \in DOMAIN d.history
    /\ \A x \in DOMAIN d.screens : d.screens[x].shows \in DOMAIN d.history
    /\ \A t \in DOMAIN d.tasks : d.tasks[t].status # None => d.tasks[t].status \in DOMAIN d.history

\* A request only adds to the order's history and to what is to be announced.
LiveWork(seen, new) ==
    /\ LiveTables(seen) /\ LiveTables(new)
    /\ DOMAIN seen.history \subseteq DOMAIN new.history
    /\ new.screens = seen.screens
    /\ \A t \in DOMAIN seen.tasks : t \in DOMAIN new.tasks /\ new.tasks[t] = seen.tasks[t]

LiveStands(r, d) == DOMAIN r.seen.history \subseteq DOMAIN d.history

LiveOpen == \A s \in Clerks : txn[s] # None => LiveWork(txn[s].seen, txn[s].new) /\ LiveStands(txn[s], db)

(***************************************************************************)
(* In turn: what is still to be told, and who knows it already             *)
(***************************************************************************)
ShowsRight(d, x) == d.screens[x].state # "closed" => d.screens[x].shows = d.orders[1].status
NamesRight(d, x) == d.screens[x].state # "closed" => d.screens[x].rider = d.orders[1].rider
CardTrue(d) == d.cards[1].up => Live!_open(d) \/ d.orders[1].status = "CANCELLED"
CardThere(d) == Live!_open(d) => d.cards[1].up
Heard(d) ==
    LET o == d.orders[1]
    IN  o.status = "CANCELLED" /\ (o.by = "ADMIN" \/ o.rider = None) =>
            \A who \in Live!Holding(o) : <<who, "CANCELLED">> \in DOMAIN d.told

\* Nothing is left to tell.
Quiet(d) ==
    /\ \A x \in {"vendor", "customer"} : ShowsRight(d, x) /\ NamesRight(d, x)
    /\ CardTrue(d) /\ CardThere(d) /\ Heard(d)

\* A rider's position is on its way, and nothing else.
Mapping(d, task) ==
    /\ task.to = "map" /\ Quiet(d)
    /\ task.status # None =>
          task.rider = d.orders[1].rider /\ task.status = d.orders[1].status /\ task.status \in Live!Trackable

\* A status is being told, channel by channel.
Moving(d, task) ==
    /\ task.to \in {"vendor", "customer", "offers", "card", "push"}
    /\ task.status # None /\ task.status = d.orders[1].status
    /\ NamesRight(d, "vendor") /\ NamesRight(d, "customer") /\ CardTrue(d)
    /\ task.to # "vendor" => ShowsRight(d, "vendor")
    /\ task.to \notin {"vendor", "customer"} => ShowsRight(d, "customer")
    /\ task.to = "card" => Live!_open(d)
    /\ task.to = "push" => CardThere(d)

\* That there is a rider is being told.
Assigning(d, task) ==
    /\ task.to \in {"taken", "vendor", "customer"}
    /\ task.status = None /\ d.orders[1].rider # None /\ d.orders[1].status # "CANCELLED"
    /\ ShowsRight(d, "vendor") /\ ShowsRight(d, "customer")
    /\ task.to # "taken" => CardTrue(d)
    /\ task.to = "customer" => NamesRight(d, "vendor")

Telling(d, task) == Mapping(d, task) \/ Moving(d, task) \/ Assigning(d, task)

OneCard(up) == [k \in {1} |-> [up |-> up]]

LiveTurn(d) ==
    /\ d.cards = OneCard(d.cards[1].up) /\ d.cards[1].up \in BOOLEAN
    /\ DOMAIN d.tasks = {} => Quiet(d)
    /\ \A t \in DOMAIN d.tasks :
          /\ DOMAIN d.tasks = {t} /\ Telling(d, d.tasks[t])
          /\ \A x \in DOMAIN d.screens : d.screens[x].state # "snapped"

LiveInv ==
    /\ txn = [s \in Clerks |-> txn[s]]
    /\ LiveTables(db)
    /\ LiveOpen
    /\ InTurn => NoneOpen /\ LiveTurn(db)

(***************************************************************************)
(* In turn: whose phone a token rings                                      *)
(***************************************************************************)
PhoneRow == [owner : Users \cup {None}, gone : BOOLEAN]
DeviceRow == [user : Users, active : BOOLEAN]

\* A token that works is of the phone's owner, and an owner has one.
TokenTrue(phones, devices, p) ==
    /\ phones[p] \in PhoneRow
    /\ p \in DOMAIN devices =>
          /\ devices[p] \in DeviceRow
          /\ devices[p].active /\ ~phones[p].gone => phones[p].owner = devices[p].user
    /\ phones[p].owner \in Users =>
          /\ ~phones[p].gone
          /\ p \in DOMAIN devices /\ devices[p].active /\ devices[p].user = phones[p].owner

TokensTrue(d) ==
    /\ CampaignRecord(d)
    /\ DOMAIN d.phones = Phones /\ DOMAIN d.devices \subseteq Phones
    /\ \A p \in Phones : TokenTrue(d.phones, d.devices, p)

IsSent(d, c) == c \in DOMAIN d.campaigns /\ d.campaigns[c].status = "SENT"

\* Nothing buzzed that was not sent, or twice.
BuzzesOnce(d) == \A x \in DOMAIN d.pushes : IsSent(d, x[1]) /\ d.pushes[x].times = 1

\* What goes out between d and e buzzes no phone but those it is for, and each of those
\* has a token.
Reaches(d, e) ==
    \A c \in DOMAIN e.campaigns : IsSent(e, c) /\ ~IsSent(d, c) =>
        /\ \A x \in DOMAIN e.pushes : x[1] = c =>
              x[2] \in Phones /\ e.phones[x[2]].owner \in Campaigns!Audience(e, c)
        /\ \A p \in Phones : e.phones[p].owner \in Campaigns!Audience(e, c) => p \in Campaigns!Tokens(e, c)

BuzzKept(d) == TokensTrue(d) /\ BuzzesOnce(d)
Buzzes(d, e) == BuzzKept(e) /\ Reaches(d, e)

\* What every step does.
CampaignStep == CampaignsInv' /\ (InTurn /\ BuzzKept(db) => Buzzes(db, db'))

\* What holds of the campaigns' tables, and in turn of the phones.
CampaignsTurn == CampaignsInv /\ (InTurn => BuzzKept(db))

(***************************************************************************)
(* Catalog: one default size                                               *)
(***************************************************************************)
CatalogRecord(d) ==
    d = [stores |-> d.stores, promos |-> d.promos, sections |-> d.sections, items |-> d.items,
         variants |-> d.variants, addons |-> d.addons, categories |-> d.categories]

SizeRow(row) == row = [item |-> row.item, name |-> row.name, default |-> row.default]

HasDefault(sizes, i) == \E v \in DOMAIN sizes : sizes[v].item = i /\ sizes[v].default

\* Every item with sizes has a default one, save perhaps item i.
SizesBut(sizes, i) ==
    \A v \in DOMAIN sizes : SizeRow(sizes[v]) /\ (sizes[v].item # i => HasDefault(sizes, sizes[v].item))

CatalogTrue(d) ==
    /\ CatalogRecord(d)
    /\ \A v \in DOMAIN d.variants : SizeRow(d.variants[v]) /\ HasDefault(d.variants, d.variants[v].item)

\* However requests overlap, the committed rows keep the unique index of the sizes and
\* the keys that say which category a section is filed under and what its slug is.
OneSize(d) ==
    \A v, w \in DOMAIN d.variants :
        d.variants[v].item = d.variants[w].item /\ d.variants[v].default /\ d.variants[w].default => v = w

SectionsFiled(d) ==
    /\ 0 \notin DOMAIN d.categories /\ \A c \in DOMAIN d.categories : d.categories[c].slug # None
    /\ \A k \in DOMAIN d.sections : d.sections[k].category \in {0} \cup DOMAIN d.categories

CatalogLaws(d) == CatalogRecord(d) /\ OneSize(d) /\ SectionsFiled(d)

CatalogInv ==
    /\ CatalogLaws(db)
    /\ InTurn => NoneOpen /\ CatalogTrue(db)

\* Sizes as they were.
SameSizes(new, d) == CatalogRecord(new) /\ new.variants = d.variants

\* What each step of a machine establishes: its invariant, and what it may not undo.
HelpStep == HelpInv' /\ Helpdesk!ClosedIsOver
OnStep == OnInv' /\ Onboarding!DecisionsStand
PubStep == PubInv' /\ Publishing!GoneForGood

\* What is always true of the machine that runs, whichever it is.
DeskInv ==
    /\ desk = "catalog" => CatalogInv
    /\ desk = "onboarding" => OnInv
    /\ desk = "helpdesk" => HelpInv
    /\ desk = "live" => LiveInv
    /\ desk = "campaigns" => CampaignsTurn
    /\ desk = "publishing" => PubInv
    /\ desk = "accounts" => AccountsInv /\ OneAddress(db)

\* What the steps of a machine promise (OverIsOver and SignalsAreTrue).
Lasts ==
    /\ desk = "onboarding" => Onboarding!DecisionsStand
    /\ desk = "helpdesk" => Helpdesk!ClosedIsOver
    /\ desk = "publishing" => Publishing!GoneForGood

Signals ==
    /\ desk = "live" => Live!MapFollowsTheOrder
    /\ desk = "campaigns" => Campaigns!BuzzesItsAudience

(***************************************************************************)
(* What the proofs say of tables, flushes and steps                        *)
(***************************************************************************)
\* What a flush makes of one row, column by column.
Column(row, seen, new) ==
    [c \in DOMAIN row |-> IF new[c] # seen[c] THEN new[c] ELSE row[c]]

\* M is what a flush makes of a table.
IsMerge(M, table, seen, new) ==
    /\ \A k : k \in DOMAIN M <=>
          \/ k \in DOMAIN table /\ (k \in DOMAIN seen => k \in DOMAIN new)
          \/ k \in DOMAIN new /\ k \notin DOMAIN seen
    /\ \A k : k \in DOMAIN new /\ k \notin DOMAIN seen => M[k] = new[k]
    /\ \A k : k \in DOMAIN table /\ k \in DOMAIN seen /\ k \in DOMAIN new =>
          M[k] = Column(table[k], seen[k], new[k])
    /\ \A k : k \in DOMAIN table /\ k \notin DOMAIN seen /\ k \notin DOMAIN new => M[k] = table[k]

\* A is a table with one row more.
IsAdd(A, table, id, row) ==
    /\ \A k : k \in DOMAIN A <=> k \in DOMAIN table \/ k = id
    /\ A[id] = row
    /\ \A k \in DOMAIN table : A[k] = table[k]

\* ---- What each handler makes of the tickets ----
\* An answer with the thread.
Answers(e, x, t, side) ==
    /\ HelpRecord(e) /\ e.tickets = x.tickets /\ e.messages = x.messages
    /\ e.chat = x.chat /\ e.markings = x.markings
    /\ \E o \in DOMAIN e.openings : e.openings[o] = [ticket |-> t, side |-> side]

\* The chat of an order that is over gets no message.
Silenced(new) == ~db.orders[1].open => DOMAIN new.chat = DOMAIN db.chat

\* What an operation makes of the tables it read.
HelpBegins(new, holds) ==
    /\ HelpWork(db, new, holds)
    /\ \A t \in DOMAIN new.tickets : t \notin DOMAIN db.tickets => t \in Fresh("tickets", Tickets)
    /\ \A m \in DOMAIN new.messages : m \notin DOMAIN db.messages => m \in Fresh("messages", Messages)
    /\ ChatTables(db) => ChatKept(new)
    /\ Silenced(new)

\* A request that writes one ticket it read, shows the thread to a side if it lowers
\* that side's flag, and says nothing.
Lowers(new, t, row) ==
    \A side \in {"user", "staff"} :
        Flag(db.tickets[t], side) /\ ~Flag(row, side) => Shows(new, t, side)

\* ---- What a commit makes of them ----
\* Before its threads are shown: no message was touched, a new one is flagged, and a
\* flag was lowered only with the thread.
HelpKept(d) ==
    /\ HelpShape(d)
    /\ DOMAIN db.tickets \subseteq DOMAIN d.tickets
    /\ DOMAIN db.messages \subseteq DOMAIN d.messages
    /\ \A m \in DOMAIN d.messages :
          \/ m \in DOMAIN db.messages /\ d.messages[m] = db.messages[m]
          \/ Flag(d.tickets[d.messages[m].ticket], d.messages[m].side)
    /\ \A t \in DOMAIN db.tickets, side \in {"user", "staff"} :
          Flag(db.tickets[t], side) /\ ~Flag(d.tickets[t], side) => Shows(d, t, side)

\* A closed ticket is as it was.
HelpLasts(d) ==
    \A t \in DOMAIN db.tickets : db.tickets[t].status = "CLOSED" =>
        /\ d.tickets[t].status = "CLOSED"
        /\ \A m \in DOMAIN d.messages : m \notin DOMAIN db.messages => d.messages[m].ticket # t

\* The tables that a commit brings to its end.
Flushed(r) == [t \in DOMAIN db |-> Merged(db[t], r.seen[t], r.new[t])]

\* A flush, as far as the tickets are concerned.
HelpFlush(d, r) ==
    /\ HelpRecord(d)
    /\ IsMerge(d.tickets, db.tickets, r.seen.tickets, r.new.tickets)
    /\ IsMerge(d.messages, db.messages, r.seen.messages, r.new.messages)
    /\ IsMerge(d.openings, db.openings, r.seen.openings, r.new.openings)

\* What a dispatch makes of the tables: those of `sent` have gone out, the others of cs
\* have not, and a token may be switched off on a phone that is gone.
Fanned(new, d, cs, sent) ==
    /\ CampaignRecord(new) /\ new.users = d.users /\ new.phones = d.phones
    /\ DOMAIN new.campaigns = DOMAIN d.campaigns
    /\ \A c \in DOMAIN d.campaigns : c \notin cs => new.campaigns[c] = d.campaigns[c]
    /\ \A c \in cs : new.campaigns[c] =
          IF c \in sent
          THEN [d.campaigns[c] EXCEPT !.status = "SENT", !.count = Cardinality(Campaigns!Audience(d, c))]
          ELSE [d.campaigns[c] EXCEPT !.status = "FAILED"]
    /\ \A r : r \in DOMAIN new.inbox <=>
          r \in DOMAIN d.inbox \/ \E c \in sent : \E u \in Campaigns!Audience(d, c) : r = <<c, u, 0>>
    /\ DOMAIN new.devices = DOMAIN d.devices
    /\ \A p \in DOMAIN d.devices :
          \/ new.devices[p] = d.devices[p]
          \/ d.phones[p].gone /\ new.devices[p] = [d.devices[p] EXCEPT !.active = FALSE]
    /\ \A x \in DOMAIN new.pushes :
          \/ x \in DOMAIN d.pushes /\ (d.pushes[x].times = 1 /\ x[1] \notin sent => new.pushes[x].times = 1)
          \/ x[1] \in sent /\ x[2] \in Campaigns!Tokens(d, x[1]) /\ ~d.phones[x[2]].gone
             /\ (x \notin DOMAIN d.pushes => new.pushes[x].times = 1)

\* What it leaves.
Dispatched(new, d, cs) ==
    /\ CampaignsTrue(new) /\ new.users = d.users
    /\ DOMAIN new.campaigns = DOMAIN d.campaigns
    /\ \A c \in DOMAIN d.campaigns : c \notin cs => new.campaigns[c] = d.campaigns[c]
    /\ DOMAIN d.inbox \subseteq DOMAIN new.inbox
    /\ \A r \in DOMAIN new.inbox : r \in DOMAIN d.inbox \/ r[1] \in cs

\* What a request makes of the tables it read.
CampaignBegins(new, holds) ==
    /\ CampaignWork(db, new, holds) /\ (BuzzKept(db) => Buzzes(db, new))
    /\ \A c \in DOMAIN new.campaigns : c \notin DOMAIN db.campaigns => c \in Fresh("campaigns", script.ids)

\* A campaign that was not there.
Making(made, c, audience) ==
    made = [db EXCEPT !.campaigns = Add(db.campaigns, c,
               [audience |-> audience, status |-> "SCHEDULED", due |-> FALSE, count |-> 0])]

\* ---- What a commit makes of the campaigns ----
CampaignFlush(d, r) ==
    /\ CampaignRecord(d)
    /\ IsMerge(d.users, db.users, r.seen.users, r.new.users)
    /\ IsMerge(d.campaigns, db.campaigns, r.seen.campaigns, r.new.campaigns)
    /\ IsMerge(d.inbox, db.inbox, r.seen.inbox, r.new.inbox)

\* What a request has made when it is served: the second part is about new ids, the
\* third about requests in turn.
StoresKept(new) ==
    /\ \A a \in DOMAIN db.vendors : db.vendors[a].status # "PENDING" => new.vendors[a] = db.vendors[a]
    /\ Asked /\ Waiting(db) => Waiting(new)

OnBegins(new, holds) ==
    /\ OnWork(db, new, holds)
    /\ \A t \in {"users"} \cup Decided : \A k \in DOMAIN new[t] : k \notin DOMAIN db[t] => k \in Fresh(t, Rows)
    /\ InTurn => StoresKept(new)

\* The users as they are, perhaps with one more; the rows to be decided as they are.
Joining(new) ==
    /\ OnRecord(new) /\ new.riders = db.riders /\ new.invitations = db.invitations
    /\ UsersGrown(db, new)
    /\ \A u \in DOMAIN new.users : u \notin DOMAIN db.users => u \in Fresh("users", Rows)

\* Some vendors' rows and stores change in place.
InPlace(new, S, R) ==
    /\ OnRecord(new) /\ new.riders = db.riders /\ new.invitations = db.invitations
    /\ new.users = db.users
    /\ DOMAIN new.vendors = DOMAIN db.vendors /\ DOMAIN new.restaurants = DOMAIN db.restaurants
    /\ \A a \in DOMAIN db.vendors : a \notin S => new.vendors[a] = db.vendors[a]
    /\ \A x \in DOMAIN db.restaurants : x \notin R => new.restaurants[x] = db.restaurants[x]

\* ---- What a commit makes of them ----
\* The decisions there are stand.
Standing(d) ==
    \A t \in Decided : \A a \in DOMAIN db[t] :
        a \in DOMAIN d[t] /\ (db[t][a].status # "PENDING" => d[t][a] = db[t][a])

\* ---- What each request makes of what is published ----
PubBegins(new, holds) ==
    /\ PubWork(db, new, holds)
    /\ \A p \in DOMAIN new.posts : p \notin DOMAIN db.posts => p \in Fresh("posts", Posted)
    /\ \A p \in DOMAIN new.promos : p \notin DOMAIN db.promos => p \in Fresh("promos", Posted)
    /\ InTurn /\ Rated(db) => Rated(new)

\* What a request leaves alone.
Beside(new) ==
    /\ PubRecord(new) /\ new.clock = db.clock /\ new.posts = db.posts /\ new.reports = db.reports
    /\ new.store = db.store /\ new.reviews = db.reviews

\* Reels say nothing of it.
ReelsOnly(new) == PubRecord(new) /\ \A v \in DOMAIN db : v # "reels" => new[v] = db[v]

\* ---- What a flush and its cascade make of what is published ----
PubTable == {"posts", "reports", "orders", "reviews", "store", "dish", "reels", "banners", "promos", "batches", "clock"}

\* A post is as it was, or as its holder leaves it, and so are its reports.
PostStands(d, p) == p \in DOMAIN d.posts /\ d.posts[p] = db.posts[p] /\ Reports(d, p) = Reports(db, p)
PostModerated(d, r, p) ==
    /\ p \in DOMAIN d.posts /\ d.posts[p] = r.new.posts[p] /\ Reports(d, p) = Reports(r.new, p)
    /\ <<"posts", p>> \in r.holds /\ db.posts[p].removed = None /\ Counted(r.new, p)

\* Reports of deleted posts go; nothing else does.
PubAsMade(e, d) ==
    /\ e.posts = d.posts /\ e.promos = d.promos /\ e.banners = d.banners /\ e.clock = d.clock
    /\ e.store = d.store /\ e.reviews = d.reviews
    /\ \A p \in DOMAIN d.posts : Reports(e, p) = Reports(d, p)

\* Posts, reports and campaigns as they were.
Untouched(new) ==
    /\ PubRecord(new) /\ new.posts = db.posts /\ new.reports = db.reports
    /\ new.banners = db.banners /\ new.promos = db.promos /\ new.clock = db.clock
    /\ new.reviews = db.reviews

\* ---- What each handler and each announcement makes of the tables ----
\* What neither a task nor a screen has to do with.
Underneath(d, e) == e.orders = d.orders /\ e.history = d.history /\ e.told = d.told

\* A screen changes, an announcement is at its next channel, the cards change.
Displayed(d, x, sc) == [d EXCEPT !.screens[x] = sc]
Passed(d, t, to) == [d EXCEPT !.tasks[t].to = to]
CardsAt(d, up) == [d EXCEPT !.cards[1].up = up]

\* In turn a handler waits for what is left to tell.
AllTold == InTurn => /\ LiveTurn(db) /\ DOMAIN db.tasks = {}
                     /\ \A x \in {"vendor", "customer"} : db.screens[x].state # "snapped"

LiveBegins(new) == LiveWork(db, new) /\ (InTurn => LiveTurn(new))

\* A new dot is of the rider who carries the order.
DotTrue(d) ==
    LET o == db.orders[1]
        dot == d.screens["customer"].dot
    IN  dot \notin {db.screens["customer"].dot, Live!NoDot} =>
            dot = [rider |-> o.rider, status |-> o.status] /\ o.status \in Live!Trackable

\* What is told or answered changes neither the order nor its past.
LiveSays(new) ==
    /\ LiveTables(new) /\ DOMAIN db.history \subseteq DOMAIN new.history
    /\ InTurn => LiveTurn(new) /\ DotTrue(new)

LiveNow == LiveTables(db) /\ (InTurn => LiveTurn(db))

\* ---- Every step of the machine ----
\* What each step establishes: the invariant, and that a new dot is true in turn.
LiveStep == LiveInv' /\ (InTurn => DotTrue(db'))

\* A is a table with a row more, unless it had one of that id.
IsPut(A, table, id, row) ==
    /\ DOMAIN A = DOMAIN table \cup {id}
    /\ \A v \in DOMAIN table : A[v] = table[v]
    /\ id \notin DOMAIN table => A[id] = row

\* Sizes are taken away, all of one item.
Without(left, sizes, gone, i) ==
    /\ DOMAIN left = DOMAIN sizes \ gone
    /\ \A v \in DOMAIN left : left[v] = sizes[v]
    /\ \A v \in gone : sizes[v].item = i

\* The row a new size starts as.
PlainSize(i, n) == [item |-> i, name |-> n, default |-> FALSE]
=============================================================================
