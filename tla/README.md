# A specification of the food-delivery backend

TLA+ modules, model-checking runs and machine-checked proofs for the backend in
`app/`: the life of an order, placing it, carts, bills, payouts, store hours, signing
in, and the desks around them. Paths in this file are relative to the repository;
services are under `app/services/`.

    tlc -workers 2 -config lifecycle_race.cfg MCOrderLifecycle
    tlapm OrderLifecycleProofs.tla

`PROJECT.json` lists every run with its module, configuration and properties, every
definition that models code with the lines it models, every hazard with the properties
about it, and every theorem.

## The system and its parts

A FastAPI application answers HTTP requests from a customer app, a rider app, a
vendor tablet and a web panel for operators. An arq worker runs cron jobs against
the same database. PostgreSQL holds all durable state; Redis holds rate-limit
counters, code cooldowns, challenges, rider positions and the pub/sub channels of the
websockets.

How the parts interact decides what can go wrong:

* **A request is one transaction in a session of its own** (`app/core/database.py`,
  `get_db`). The endpoint commits; any exception rolls back. The isolation level is
  PostgreSQL's default, READ COMMITTED: each statement sees what is committed when it
  runs, and two statements of one request may see different states.
* **A handler reads an object, checks it and assigns to it.** `autoflush` is off: the
  UPDATE goes out at the flush, and it carries the columns whose value differs from
  the value read. Another request may have committed in between, unless the row was
  read `FOR UPDATE`.
* **The worker** (`app/workers/tasks.py`) is one more session: every minute it declines
  unanswered orders, applies the stores' hours and sends due campaigns; at night it
  deletes expired keys.
* **Events and pushes** go out after the commit, best effort. No server state
  depends on one being received. What changes in Redis changes at once and is not rolled
  back.

| Component | State | Operations | What makes it correct |
|---|---|---|---|
| Order lifecycle (`customer/`, `vendor/`, `admin/orders.py`, `rider/jobs.py`, `offers.py`, `dispatch.py`, `roster.py`) | `orders`, `order_status_history`, `rider_profiles` | cancel, accept, reject, ready, hand off, wrong code, deliver, assign, dispatch, take an offer, refund, auto-decline, shift; every app's list and buttons | one legal life for each order; cancelled and refunded are final; cash at the door; one rider; job cap; unanswered orders are decided; the screens agree |
| Order placement (`customer/orders.py`, `idempotency.py`, `customer/promos.py`) | `idempotency_keys`, `carts`, `orders`, `promo_codes`, `promo_redemptions` | place, replay, refuse, take over an expired key, nightly clean-up | one order per key and day; true replays; no key is stuck; ordered lines leave the cart |
| Store hours and switches (`business_hours.py`, `vendor/storefront.py`, `admin/vendors.py`) | `restaurants.status`, `business_hours`, `scheduled_open`, `is_verified`, `is_active` | toggle, save hours, approve, suspend, deactivate, close with the account, the worker's minute, slots for later | the switch follows the hours; a toggle holds until they change; a closed account's store stays closed |
| Payouts (`vendor/finance.py`, `rider/earnings.py`) | `vendor_payouts`, `rider_payouts`, earnings derived from orders and incentives | withdraw, complete, fail, reopen | nobody is paid more than they earned |
| Cart (`customer/cart.py`) | `carts`, `cart_items` | add, set, remove, clear by checkout, the vendor's deletion of a size | one cart of one restaurant, one line per configuration, no stranded line, no empty husk, ordered lines leave |
| Pricing and commission (`pricing.py`, `commission.py`, `app/core/money.py`) | `platform_settings` | price a cart, apply a promo, quote, filter by fee | the bill passes the CHECKs of `orders`; rounding is fair; a promo never costs the rider; fee and filter agree |
| Sign-in (`auth_service.py`, `otp_service.py`, `token_service.py`, `biometric_service.py`, `oauth_service.py`) | `users`, `otp_codes`, `refresh_tokens`, device keys, Google links; Redis | send and check codes, sign in, rotate, sign out, reset, second factor, link, block | what opens a session does so once; ended sessions are ended; nobody enters without a proven address |
| Account deletion (`account_deletion.py`) | `users` and what hangs on it | delete | no order under way and no money owed; nothing personal is left |
| Menu and categories (`menu_service.py`, `category_service.py`) | sections, items, sizes, extras, categories | edit, replace, review, rename, merge, delete | one default size; items and spellings survive their category; what a chip promises is there |
| Discovery and profile (`customer/discovery.py`, `account.py`) | addresses, favourites | browse, save, promote | lists, pages and offers agree; one default address |
| Applications and invitations (`vendor/applications.py`, `rider/applications.py`, `admin/invitations.py`, `rider/roster.py`) | one row each | submit, review, add by hand, invite, accept | decided once; an account for every approval |
| Support and chat (`support.py`, `customer/chat.py`) | tickets, messages | write, open, assign, resolve, close | nothing unread is lost; closed is over |
| Realtime, pushes, tracking (`realtime.py`, `order_push.py`, `rider/tracking.py`, `app/api/v1/endpoints/ws.py`) | sockets, Redis | publish after commit, snapshot, subscribe, ping | screens show the order as it is or was; a dot is of its rider; who waits is told |
| Notifications (`notifications.py`, `push_service.py`) | campaigns, inbox, devices | create, cancel, send due, register | sent once, or not after its cancel; only to its audience |
| Community, reviews, reels, banners, promotions (`community.py`, `customer/reviews.py`, `reels.py`, `banners.py`, `admin/ads.py`, `vendor/promotions.py`) | rows of their own, with counters beside them | post, report, remove, rate, schedule, end | counters are those of their rows; what is gone stays gone |
| Insights, exports, object storage, admin panel, schema | nothing of their own | reading, signing uploads, rendering | see *What is left out* |

Hard behaviours, in the order they matter here: stale reads written later; locks
taken by some handlers and not by others; a count or a sum read in one statement and
used in another; crashes between read and commit; retries of a request whose answer was
lost; the sweep racing the kitchen's answer; missed, late and lost worker passes;
periods that run past midnight; a predicate written twice, once for the count and once
for the list. `PROJECT.json` lists each one under `hazards` with its line.

## The plan

Modules in order of importance, with what is done and what is left.

1. `OrderLifecycle`, `OrderContract`, `Boards`; `OrderLifecycleProofs`. Left: `JobsWithinCap` for handlers in turn that also assign and
   deliver, which needs the count and the claim of a whole accept in one invariant.
2. `BusinessHours`, `StoreHours`, `StoreHoursProofs`. Left: the sheet of slots against the
   checkout's window.
3. `Placement`, `PlacementProofs`. Left: the promo's counters under a lock, should the
   code take one.
4. `Ledger`, `Payouts`, `PayoutsProofs`. Nothing left.
5. `Basket`, `Cart`, `CartProofs`. Left: add-ons and notes in a line's configuration.
6. `Pricing`, `PricingProofs`. Nothing left.
7. `SignIn`, `SignInProofs`. Left: rate limits.
8. `Desk` and the machines on it, composed by `BackOffice`: `Catalog` and `Storefront`,
   `Onboarding`, `Helpdesk`, `Live`, `Campaigns`, `Publishing`, `Accounts`;
   `BackOfficeInvariants`, `BackOfficeProofs`. Left: that nothing falls out of a menu
   (`NothingFallsOut`), which needs what each handler does to items and links.

## What each module models

### OrderLifecycle

`order` is the `orders` table restricted to the columns the lifecycle reads or
writes, `history` the status history, `deliveries` the riders' `total_deliveries`,
`onShift` the riders that are online and verified, `late` the orders whose
`auto_decline_at` has passed. `txn[s]` is the open request of session `s`: the row as
read (`snap`), the row as the handler left it in memory (`new`), the history row it
adds and the rider profile it increments. `claim[s]` is an open "accept this offer",
between the profile lock and the conditional UPDATE. `issued` and `misses` are
bookkeeping for the handoff codes.

A handler is one action that reads, checks and computes: `Read` for a plain SELECT,
`Lock` for `SELECT ... FOR UPDATE`. `Commit` is the flush and the commit:
`Flushed(row, t)` writes the columns that changed over whatever the row holds now; it
waits for the row locks of others and fails on `Checks`, the CHECK constraints of the
table. `Abort` is every way a request may die. `AcceptOffer` and `ClaimOffer` are the
two halves of a rider's accept. `AutoDecline` is one run of the sweep, which takes
every overdue order whose row is not locked. `TimeoutPasses` is the clock.

The constant `Overlapping` says whether two requests on one order may be open at once.
It is TRUE where the question is what survives overlapping requests. It is FALSE where
the question is whether the handlers, each in turn, implement one lifecycle.

`Boards` adds the reading half: the kitchen's tabs, the customer's list, the rider's
jobs and offers, the console's table and buttons, each with its own list of statuses.
`BoardsAgree` compares them with one another and with what the handlers accept.

### OrderContract

The abstract promise, without sessions, locks or clock: four functions (status, rider,
canceller, money) and the legal steps, with the statuses in which each actor may
cancel. `OrderLifecycle` instantiates it by reading the four columns off its rows;
`KeepsContract` is its specification.

### BusinessHours and StoreHours

`BusinessHours` translates `spans_starting`, `is_open_at` and `next_change` to minutes
of a week of any shape, and gives minute-by-minute reference definitions of both. It also
has the two places that work out when a scheduled order may be for: the sheet that offers
slots and the checkout that takes one.
`StoreHours` is one restaurant row, the open request of each session, and the worker's
pass split where `sync_all` is split: `SweepRead` reads the row, `SweepWrite` runs the
conditional UPDATE, `SweepLost` is a pass that dies. `Tick` may happen at any time, so
passes are missed and run late. `word` and `swept` remember what the properties are
about: the last toggle the hours have not overtaken, and that a whole pass ended
undisturbed.

### Placement

`rows` is `idempotency_keys`, `cart` the cart lines of each customer, `orders` what
was placed, `timesUsed` the promo's counter, `answers` the 201s that reached a client.
`sub[s]` is an open POST /orders, with the statements of `idempotency.begin` as
separate actions: the INSERT (`Claim`, `Conflict`) that waits while another open
transaction has written the key, the SELECT (`LookMissing`, `LookExpired`, `Refuse`,
`Replay`), the take-over of an expired row (`Reclaim`). `Price` is the reading half of
`place_order`, `Place` its writing half with `complete` and the commit. `Abort` may
strike anywhere. `Expire` and `ExpireIdempotencyKeys` are the 24 hours and the nightly
clean-up. The bill is abstracted: each use of the promo costs 1. The checks
`promos.validate` makes in three statements are one step here; splitting them would only
add behaviours to claims that already fail.

### Payouts, Ledger

`Ledger` is the promise: three sums for each payee, where a withdrawal is within what
is available. `Payouts` is the code: payout rows, the payee's row lock, the two
statements a balance is read in, the finance desk's decisions, and earnings that grow.
The refinement maps the rows to the sums of completed and processing amounts.
Vendors and riders follow the same steps under their own lock (`restaurants`,
`rider_profiles`), so a payee is either. `earned` never shrinks here: the earnings of a
delivered order stay with its rider. A stale reassignment after the delivery, which
`OrderLifecycle` admits, would move them and is outside this module.

### Cart and Basket

`Cart` is one customer's cart on several devices. `carts` and `lines` are the committed
rows, `size` and `hidden` the vendor's menu. A request is split into its statements,
and `txn[s]` holds what an open one has written and not committed. The row locks follow
from that record: `WaitsFor(s)` names the requests whose rows or keys the current
statement of `s` needs, by the row itself, the unique key on the customer, the unique
key on the configuration, or the foreign key from a line to its cart. `LineRefused` is
the table's keys, which fail a statement once nobody is waited for. `Abort` is a request
that dies, and `BreakDeadlock` one the database kills: checkout deletes the cart row
and then the lines, removing the last line deletes the line and then the cart row, so
the two can wait for each other.

`Basket` is what the customer sees: how many of each choice. The variable `overlap`,
chosen at the start, says whether requests overlap. When they do not, every commit must
be one edit, one order or one withdrawal of a size (`KeepsBasket`). When they do, the
constraints and locks must still keep the rows whole. A vendor who deletes a size may
empty a cart without deleting it, and two removals at once may leave it empty:
`CartIsWhole` excludes these two husks by name. Such a cart refuses a dish of another
restaurant until something is added and removed.

### Pricing

`Pricing` is one bill. `PriceLine` adds a cart line, with its unit price, its add-ons
and the commission at its own rate. `ApplyPromo` is the discount of
`promos.validate`, `MakeQuote` is `pricing.quote` under the tariff of `Fees`. `exact`
keeps the commission before rounding, to compare with. Amounts are paisa and rates are
basis points: the rate columns have four decimals, so this loses nothing. A distance is
in whole metres. The code rounds it to metres for the fee and not for the filter, so
the two differ by half a metre at most where the model says they agree.
`WithinReach` is the comparison with `delivery_reach_km`, multiplied out.

### SignIn

`account`, `codes`, `tokens`, `keys` and `links` are the five tables, `cooling` and
`tickets` what Redis holds, `challenged` the clients in the middle of a two-step sign-in.
An endpoint is one action that reads and leaves a `Request`: the user row as read and as
changed, and what its flush will do besides (write a code, revoke or add a token, end all
sessions, drop keys, add a link). `Commit` writes it, column by column where the row is
updated by its key; `Writable` is when the database would refuse. GETDEL takes effect at
once. `scenario` is which endpoints a behaviour calls and whether requests overlap;
`endings`, `proved`, `uses`, `misses` and `redeemed` remember what the properties compare.
Deletion is here as far as it concerns the ways in; `Accounts` has what may refuse it.

### Desk and the machines on it

Twenty services share one shape: read some rows, decide, write at the commit. `Desk` is
that shape, once. `db` is a record of tables; a request keeps the tables as it read them
(`seen`), as it left them (`new`) and the rows it holds `FOR UPDATE`; `Commit` merges
column by column, as the unit of work does. Each machine gives one operator for each
handler, from a database to the set of databases it may leave, and `Settle`, the unique keys, CHECKs and
cascades of its tables. `script` names the calls of a behaviour and whether they overlap.

* `Catalog`: sections, items, sizes, extras, and the browse categories with their
  spellings, reviews, renames, merges and deletions. `Storefront` reads the same tables
  as the customer does: chips, lists, dishes, pages, offers.
* `Onboarding`: applications of vendors and riders, their review, accounts added by
  hand, invitations of administrators. An invitation's row is PENDING, ACCEPTED or REVOKED
  and `expired` says whose link is over, as `_status` computes it; inviting again revokes
  every row not used, the expired ones too.
* `Helpdesk`: tickets and the chat of an order; `shown` is to whom a message was shown.
* `Live`: one order's moves, and what a process still has to do after its commit
  (`tasks`): publish, push, take an offer card down. Processes may die and Redis and
  Firebase fail. The screens subscribe as `ws.py` does; the rider's map follows the pings.
* `Campaigns`: campaigns, the sweep, the inbox, phones that change hands and whose
  tokens die, accounts that are blocked or deleted with their inbox and devices. `dispatch`
  writes each campaign's inbox rows in a savepoint that holds or fails by itself and then
  pushes: any part of the live tokens of what was sent buzzes, none when Firebase is off
  or refuses, and any part of the dead ones is switched off. The pushes are out before the
  request commits. `phones[p].owner` is the account that registered the phone last, until
  the app unregisters it or the account is deleted: a logout leaves the device alone.
* `Publishing`: posts and reports, reviews and the rating, reels, banners, the vendors'
  campaigns and their counters. `record_events` is split where the code is: the hour a
  batch of events reads (`receive_events`), and the UPDATEs that count by that hour later.
* `Accounts`: addresses and favourites, and the deletion of a customer, a rider and a
  vendor beside the orders and the money that may refuse it, and beside what operators may
  write afterwards: a reopened payout, an incentive, a rider's flags, a store's switch,
  status and hours. `operated` remembers that one did.

`BackOffice` runs one machine at a time, chosen at the start by `desk`, through its
scripts. A property of the composition is the machine's own, guarded by `desk`.
`MCBackOffice` gives it two clerks, few rows and the scripts.

## What each run checks and why

| Run | Question | Instance |
|---|---|---|
| `lifecycle_race` | What still holds when any two requests overlap, with crashes? Nothing done is undone; cash is recorded exactly at the door; locked cancels and the sweep are in time; who has an order loses it only to an assignment or a dispatch | 1 order, 2 riders, 2 sessions, all handlers, cap 1 |
| `lifecycle_serial` | Do the handlers, one at a time per order, implement the contract, does the history tell the order's life, and do all apps show it alike? | 2 orders (one cash, one scheduled), 1 rider, 2 sessions |
| `lifecycle_offers` | Does a rider on two devices stay within the job cap, and is an unanswered order with a countdown always decided? | 2 orders, 2 riders, 2 sessions, cap 1, fairness |
| `store` | Does the switch follow the hours through missed, late and lost passes, does a toggle hold, does a deleted owner's store stay closed, are the times shown real? | 2 days of 3 minutes; 2 awkward weeks saved; every weekly schedule for the announced change |
| `placement` | Does one key place one order, are answers true, do ordered lines leave, does every request end? | 1 key, 2 bodies, 2 sessions, 2 lines, 1 expiry, fairness |
| `payouts` | Does the code implement the ledger? | 2 payees, 2 sessions, earnings to 2, 3 payouts |
| `cart` | Do locks and keys keep the cart whole, does what was ordered leave it, does every request end, and do requests in turn keep the basket? | 2 devices, 2 restaurants, 2 dishes, 1 size, 2 carts, 3 lines, quantities to 2, fairness |
| `pricing` | Is every bill one the table accepts, is rounding fair, is the fee smooth and the filter its inverse? | 5 lines, 3 tariffs, 5 promos, 8 distances, carts of 2 lines |
| `sign_in` | Do codes, challenges and states work once, do ended sessions stay ended, is a deleted account blank, does nobody enter unproved? | 10 scripts; 1 address, 2 devices, 1 Google account, 2 sessions |
| `back_office` | Does each machine on the desk keep its promise, in turn and overlapping? | 34 scripts of 7 machines, 2 sessions, ids to 2 or 3 |
| `customer_cancel_race` | Is "cancel works only while PENDING" kept? No: the cancel is checked on an unlocked read | as `lifecycle_race` |
| `left_waiting` | Is "everyone else still holding the order" told of its end? No: a rider is told only when support cancels | as `back_office` |

In the last two TLC finds the code at odds with what the repository says;
`PROJECT.json` quotes the sentences under `findings`.

**Bounds and why they are enough.** A lost update needs two sessions: one that reads,
and one that commits before the first does. Each handler touches one order, so one
order shows every race on it. Two orders are needed only where a rider's count spans
them. Two issues of the handoff code (`MaxIssues`) give a reissue while a code is live.
A cap of one job makes the second acceptance the interesting one. Two days of three
minutes hold a period past midnight, one past the week's end and an overlap. A store's
requests count nothing, so one session beside the worker and the clock gives a race
between two writers; what holds with more is proved. Earnings of 2 with a minimum of 1
allow two withdrawals that fit alone and not together, and three payouts allow one after
a reopening. One key with one expiry has the first attempt, the retries, the take-over
and the clean-up; a second key matters only to `CartOrderedOnce`. Two carts and three
lines let a cart be dropped and made again while a request still holds the first. One
size that comes and goes gives a dish two configurations. The lines and distances of
`pricing` are the edges: half a paisa exactly, rates of 0 and 1, a fee at a step of
rounding, the minimum, the waiver, the limit.

`MaxCodes`, `MaxTickets` and `MaxAccounts` of 2 give a code beside its successor and an
account that is made after one is deleted, `MaxTokens` of 3 a rotation beside another
line; an attempt budget of 1 makes the second guess the refused one. On the desk a script is a set of
calls that touch the same rows: a call that shares no row with another has no race with
it, so scripts are cut along tables, and each is explored exhaustively. Three sizes, two
categories and two sections are what a default's hand-over and a merge need; two
messages are one before and one after a reading; `Horizon` 2 has a before, a during and
an after; `MaxShown` 2 tells a counter that goes up from one that was set, and `MaxMoney` 2
lets an operator give a payee something beside what a delivery earned.

Symmetry is used for riders and sessions, which no property names, and only in
runs without liveness properties. `CHECK_DEADLOCK FALSE` is in every run because a
delivered order, a spent bound or a finished script is a legitimate end. That waiting
requests all end is a property of its own (`RequestsEnd`).

**Fairness.** `OrderLifecycle` assumes weak fairness of the end of each open request
(a server answers or times out), weak fairness of the clock, and strong fairness of
the sweep. The sweep's cron fires every minute for ever, so an order that is due and
unlocked again and again is met unlocked by some run. Without that, SKIP LOCKED could
pass over it in each. No client is fair: nobody has to accept, cancel or deliver.
`Placement` assumes strong fairness of each open request's own steps. A request
waits only on another's row, and PostgreSQL queues those that wait, so a row that is
free again and again is granted in turn. `Cart` assumes the same of each request's
statements, and weak fairness of `BreakDeadlock`: PostgreSQL looks for a cycle after
`deadlock_timeout`. The other modules state no liveness: what their handlers leave open
waits for a person.

## What is proved

Eight modules of theorems, for every value of the constants.

**`OrderLifecycleProofs`** (`LifecycleAssumption`; any orders, riders, sessions, caps):
`TypeCorrect`; `CancelledForEver`, `RefundFinal`, `RiderKept` and from them
`NothingUndone`; `CashAtTheDoor`; `LockedReads`. None is inductive as it stands: a stale
`new` row is written over a row the handler never saw. The strengthening `IInv` has
three parts. `TypeOK` is the first. `RowsPassChecks` says that every committed row passes
the CHECK constraints. `WritesSet` says that in every open request the columns
`cancelledBy`, `refunded`, `rider` and `delivered` are as read, or set, and never
cleared. So no flush clears them; a cancelled row keeps its canceller, and by its CHECK
can only be CANCELLED; likewise the refund and the rider. `CashAtTheDoor` adds that
snapshot and new row of each request satisfy the cash rule, so that a column-by-column
mixture does too. `LockedReads` adds that a session has one open request, and argues on
who can write a row while it is locked: a commit waits for the lock, a claim waits for
it, the sweep skips it.

The same module goes on from these. `ReassignedByTheDesk`: an order that has a rider
changes hands only when an assignment or a dispatch commits. A claim of an offer tests the
column under the row's lock, and every other stale request writes its columns back only
where they changed, so `WritesSet` keeps what it read of the rider. `LockedCancels`: a request under the row's lock cancels
only what it may at the moment it writes, since `LockedReads` keeps its snapshot current.
`ContractKept`: if `Overlapping` is FALSE the lifecycle implements `OrderContract`. Its
invariant `SInv` adds `Alone` (no two open requests on one order), `Fresh` (what an open
request read is what is stored, and what it computed is a legal move from it) and
`PaidLate` (no money before delivery). Initial states map to initial states; each step
is, order by order, a step of the contract or none. `HistoryTold` rests on the same
invariant (and on `EventAssumption`: the bookkeeping events have names of their own): an
order's history is its life so far, so each commit adds the row that belongs to its move.
`ScreensTrue` is the part of `BoardsAgree` that compares lists, tabs and offers. Three results
need no serial order. `CountsAreTrue`: each confirmation
writes one more than a count that was not too high, beside the history row of its own delivery.
`JobsCapped`, from the lemma `OffersWithinCap`: where riders take offers and nobody is assigned or
dispatched, the lock on the profile makes the count and the claim one step, so a rider's jobs
(a cardinality) stay within the cap. The lemma assumes that no delivered order is brought back
(`DeliveredStays`), which overlapping confirmations break; the theorem has it from its own
hypotheses, that requests on an order come in turn, or that none confirms a delivery.

**`PlacementProofs`** (`PlacementAssumption`; any customers, keys, lines, sessions and
expiries): `OnePerKey`, `TrueAnswers`, `OrderedLeaves`, `TypeCorrect`. The invariant says of a key
that has not run out: an open request that passed `begin` holds the key's row, one that
holds it saw no row, the row names the only order under the key, with that customer and
that body (`Protects`, `Truthful`); and at most one open request holds a key
(`OneHolder`), because the INSERT waits.

**`StoreHoursProofs`** (`CalendarAssumption`, `StoreAssumption`; any week, any length of
day, any sessions): `ClockAgrees` proves that the period test of `is_open_at`, with
yesterday's period carried past midnight, is a walk back minute by minute. It rests on
the uniqueness of quotient and remainder. `ChangeAgrees` does the same for `next_change`:
the store changes only where a period begins or ends, weeks repeat, and the earliest
of the minutes at which it does exists because the order of the naturals is well founded.
`TimesAreReal` is that theorem at every state of the store. `SweptCurrent` and `ToggleKept` follow from an
invariant on the pass (`Told`: one nothing overlapped is about the store as it is) and
on the toggle (`Toggled`: it was made with no pass under way and none due).
`NotReopened` is for one request at a time and no hours older than `scheduled_open`.
There hours and the last answer are set and cleared together, so a pass read before the
deletion no longer finds the value it compares. With two requests this fails, see below.

**`SignInProofs`** (`SignInAssumption`; any addresses, devices, Google accounts,
sessions, budgets and scripts) proves every property of the run `sign_in`:
`NobodyEnters`, `OpenedOnce`, `SessionsEnd`, `NothingRemains`, `TypeCorrect`. The
invariant says, however requests overlap, that whatever lets someone in belongs to a
proven account, or to an open request that proves it at the same commit (`Entered`,
`Vouched`), and that a ticket is in Redis, in one open request or redeemed (`OnePlace`).
In turn (`Orderly`) the only open request has its code as it read it (`Tallied`), opens
a session born after the last end of all of them and writes no deleted row (`Renewed`),
and a code's misses are its attempts (`Budgeted`). These last fail when requests overlap,
as the list below shows.

**`PricingProofs`** (`PricingAssumption`) proves every property of the run `pricing` for
all lines, rates, tariffs, promos, tips and distances: `FairBills` from `BillsPersist`,
`FairCommission` and `RidersArePaid`, `FeesFollow` from `NoJumps` and `FilterFits`, and
`TypeCorrect`. The arithmetic rests on `RoundedShare` (a rounded share differs from the
exact one by at most half a paisa), `OneMetreMore` and `ReachFits`.

**`PayoutsProofs`** (`PayoutsAssumption`, `NoneAssumption`; any payees, sessions, amounts):
`LedgerKept` proves that the rows implement `Ledger`; `NobodyOverpaid` that what was paid
and is being paid is never more than was earned; `TypeCorrect`; and `LedgerSolvent` says
the last of the ledger itself, over any sums of money. The invariant says of an open
withdrawal that the earnings it read have only grown since and that the payouts it summed
are no less than those there are (`OpenSound`), because no two open withdrawals have
one payee (`OneLock`). A balance is a fold over a set of rows. Its lemmas pay it out in coins:
`SumIsCoins` shows that the sum is the number of pairs of a row and a unit of its amount,
by taking a least set of rows for which it is not (strict inclusion of finite sets is well
founded). What one more row and one decision do to a sum is then a fact about
cardinalities.

**`CartProofs`** (`CartAssumption`, `NoneAssumption`; any requests, carts, lines,
quantities, dishes and sizes) proves every safety property of the run `cart`: `CartWhole`,
`OrderedLeave`, `BasketKept`, `TypeCorrect`. The invariant `CInv` describes each open
request by the statement it has reached: what it found, inserted or deleted so far is
still so in the tables, as only it can see and change the rows it has written
(`Stage`, `Found`), and no two requests hold one row or one key (`Apart`). A line and its cart
cannot part because the foreign key makes the insert wait for the deletion or the other
way round. With requests in turn there is one open request and no cart without a line
(`Alone`), and each commit changes the quantities as one step of `Basket`.

**`BackOfficeProofs`** (`IdsAssumption`, `PeopleAssumption`, `UsersAssumption`,
`HorizonAssumption`, `LiveAssumption`; any clerks, rows and scripts) proves every property
of the run `back_office` but `MenusSurvive`: `NothingUnread`, `NothingLeftOpen`,
`CampaignsSentOnce`, `ApprovalsStand`, `TalliesTrue`, `ScreensAlwaysAgree`,
`DefaultsStand`, `ChipsKeepTheirPromise`, `SignalsTrue` and `OverStaysOver`. All rest on one
inductive invariant, `DeskInv` (`DeskInvariant`), which says of the machine that runs what
is always true of it; TLC checks it when it is named in a copy of `back_office.cfg`.
`BackOfficeInvariants` defines its parts. A request keeps the tables as it read them and
as it left them, and its flush mixes these with what others wrote meanwhile, so the
invariant of a machine (`HelpInv`, `CampaignsInv`, `OnInv`, `PubInv`, `AccountsInv`,
`LiveInv`, `CatalogInv`) has up to four parts: what holds of the tables (`HelpTables`,
`CampaignsTrue`, `OnTables`, `PubTables`, `LiveTables`, `CatalogLaws`); what a request may
have made of those it read (`HelpWork`, `CampaignWork`, `OnWork`, `PubWork`, `LiveWork`);
what still stands of what it read, because rows are held or never deleted (`HelpStands`,
`OnStands`, `PubStands`, `LiveStands`); and that no two open requests share a new id or a
held row (`OnApart`, `PubApart`). A lemma says that a flush preserves the first part, and
each handler has one that says it establishes the second.

* `NothingUnreadIsLost` needs that a side's flag is lowered only by a request that shows
  it the messages there are at its commit.
* `SentOnce` is not that the inbox rows are as many as the campaign says: a deletion takes
  the leaver's rows and leaves the count. The invariant keeps, for each campaign that was
  sent, a set of accounts it reached (`Reached`), as large as the count, which no deletion
  shrinks; each of them has its one row or is deleted, and nobody else has one
  (`CampaignTrue`). A fan-out that overlaps a deletion still writes the row.
* `LeavesNothingOpen` is about requests in turn: what `delete_account` refuses and what the
  other handlers ask of an account that has left. It is not that nothing changes afterwards.
  Operators reach the rows of a deleted account, and such a row is excepted from then on
  (`operated`); and an order for a slot may come later to a store that closed without
  hours, where it stays PENDING. Everything else (orders, deliveries, withdrawals, the
  worker's minute) is shown to leave such an account alone.
* `ApprovalsMeanSomething` needs that a request which decides an application or an
  invitation holds its row, and gives it an account that was nobody's when the request
  read the users (`Decides`). The part about stores is of requests in turn: each
  application has a store of its own and waits only while that store is not on sale
  (`Waiting`).
* `TalliesAndListsAreTrue` needs that reports and removals of a post hold the post
  (`Moderates`), so that the count a flush writes is that of the rows there are
  (`Counted`). The rating, recomputed from all reviews without a lock, is true in turn
  (`Rated`).
* `OverIsOver` is an action property of three machines: every flush and every cascade
  after it leaves a decided row, a closed ticket's thread, a removed post and an ended
  campaign as they were (`HelpLasts`, `PubLasts`, `StoresKept`). An invitation that only
  expired may still become REVOKED. An ended campaign's counter may still grow, but only
  by a batch of events that read the clock before the end.
* `ScreensAgree` is about the moment when nothing is left to tell, so its invariant says of
  every other moment what is still on its way and who knows it already. Each stale screen
  has the news of the order's status in a task (`Telling`), each stale card an assignment
  or an end to come (`Moving`, `Assigning`), each map the dot of the rider who carries the
  order or a handover to come (`Mapping`), and when the tasks are done all are true (`Quiet`).
  That no screen shows a status the order never had holds however requests overlap,
  roll back and die: announcements are made after the commit, from a row in the history.
* `SignalsAreTrue` takes its dots from the same invariant. For the campaigns it needs that
  a token that works is of the account that registered its phone last, and that such a
  phone has one (`TokensTrue`), so that a campaign buzzes only phones of its audience, once
  at most, and tries each of them (`Reaches`). It does not say that a phone buzzes: pushes
  are best effort.
* `OneDefault`: two requests that both make a default meet the partial unique index at the
  second commit (`OneSize`), and addresses an index of the same kind (`OneAddress`). In
  turn each handler leaves a default wherever it leaves a row, also while the old default
  is down and the new one not yet up (`CatalogTrue`, `SizesBut`, `AddressBook`).
* `ChipKeepsItsPromise` compares four queries of one database. They agree because each
  section is filed under a category that exists or under none, an id is not 0 and a slug
  not NULL (`SectionsFiled`), which ON DELETE SET NULL restores at each commit.

**Only model-checked.** Liveness (`RequestsEnd`, `UnansweredIsDecided`), which this
prover does not reach, and what `BoardsAgree` says of buttons, which is about `ENABLED`
actions; the rest of `BoardsAgree` is `ScreensTrue`. `JobsWithinCap` where an operator
assigns or dispatches. `MenusSurvive`, whose part about spellings depends on how few names
a behaviour has: more of them can share a slug and take each other's place (see below).

## Where the code differs from what it says

Besides the two findings, modelling met these. Each is in the model as the code has it,
and each property above is stated so that it holds of the code.

* *Orders.* A delivered cash order that was refunded shows cash to collect again
  (`rider/jobs.py:55`). An order without `auto_decline_at` (a scheduled one) is never
  declined. `place_order` looks at `status` alone, so a suspended store sells
  (`customer/orders.py:217`), as do sold-out lines already in a cart. Overlapping
  requests can charge one cart twice, exceed a promo's limits, move an order back and
  burn fewer attempts than were made: `RiderFixedAtPickup`, `NoJumpBack`,
  `CodeBurnedAtPickup`, `MissesWithinBudget`, `ScheduledIsDecided` (`OrderLifecycle`) and
  `CartOrderedOnce`, `PromoWithinBudget`, `PromoWithinUserLimit`, `SoldOutNotOrdered`,
  `DoubleSubmitRefused` (`Placement`) state what breaks. To see one, name it in a
  copy of `customer_cancel_race.cfg`, or of `placement.cfg` with `Spec`.
* *Hours.* With two requests, or in the minute after migration 0013, a pass may reopen a
  deleted owner's store: a stale save leaves hours without an answer, and the pass's
  comparison with NULL matches (`business_hours.py:137`). The sheet for later offers
  slots after midnight of the last day, which checkout refuses, and not those after
  midnight that belong to last night's period.
* *Prices.* A FREE_DELIVERY promo waives nothing (`customer/promos.py:95`); an offer's list
  of dishes is never read; a dish that got its first size while in a cart is ordered at
  its display price (`customer/cart.py:142`).
* *Sign-in.* A rotation in flight during a reset leaves a live session
  (`token_service.py:127`); overlapping guesses are counted once (`otp_service.py:135`).
* *Menu.* `admin_update` with a new name and new aliases loses the old name
  (`category_service.py:497`); spellings that share a slug can take each other's place; a
  section can be deleted, or a category unlinked, under an item just added
  (`menu_service.py:330`). A new alias is compared with the names and the aliases of other
  categories and not with their slugs (`category_service.py:322`), so a link to a chip may
  list restaurants that only the other category counts, where `sells_under` (line 201)
  promises "exactly the restaurants the chip's count promised"; `Kept` (`Storefront`) says
  what holds then. Search finds dishes of a closed section, and `modify_item`
  accepts them.
* *Desks.* Verifying a pending application's store leaves the application queued
  (`vendor/applications.py:361`); a chat message sent while the thread is opened is
  marked read unseen; an offer card of a cancelled order stays up; a second default
  address is refused by the index its INSERT meets first (`customer/account.py:103`);
  ending a campaign that has not begun violates its window; two reviews at once leave the
  rating one behind; an ad counts a batch of events whose clock was read before the ad ended
  and whose UPDATE came after (`admin/ads.py:135`).
* *Those who left.* An operator may reopen a deleted payee's paid payout, and fail it, which
  gives a balance nobody can withdraw (`rider/earnings.py:287`, `vendor/finance.py:346`);
  grant a deleted rider an incentive and put them on shift (`rider/earnings.py:163`,
  `rider/roster.py:143`); and open a deleted vendor's store (`admin/vendors.py:410`), where
  `place_order` then sells, as it looks at `status` alone. A scheduled order is taken by
  a closed store whose hours the deletion cleared. A deletion leaves the `recipient_count` of
  the campaigns whose inbox rows it takes (`account_deletion.py:205`).
* *Notifications.* A logout leaves the device row active (`app/api/v1/endpoints/auth.py:104`):
  until the app unregisters it or somebody else registers the phone, campaigns buzz it for
  the account that signed out. A worker that dies between the pushes and its commit pushes
  again at the next sweep.

## What is left out

* **Insights, exports**: read-only aggregates. **Object storage**: signed uploads to an
  external service. **Admin panel**: a client of the API. **Schema and migrations**: the
  constraints are modelled where a table is used.
* Wording, formatting, ranking and pagination; pictures and descriptions; e-mail and
  Firebase themselves, whose calls are modelled and whose delivery is not promised.
* Rate limits and the signatures of tokens. Add-ons and notes of a cart line,
  which only its unique key reads. Editing the platform's settings.
* Online payment, which this code does not implement: `payment_status` becomes PAID by a
  cash delivery only.
* Two worker tasks that raise `NotImplementedError` (`recompute_restaurant_rating`,
  `flush_rider_trail`).
