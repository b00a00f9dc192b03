----------------------------- MODULE BackOffice -----------------------------
(***************************************************************************)
(* The machines built on Desk, one at a time: `desk` says which, and its   *)
(* scripts say which of its operations are called and whether they overlap. *)
(***************************************************************************)
EXTENDS Desk

CONSTANTS
    CatalogScripts, Restaurants, Near, Codes, Names, SlugOf, Labels,
    Sections, Items, Variants, AddOns, Categories, MaxOptions,
    OnboardingScripts, Emails, Rows,
    HelpdeskScripts, Tickets, Messages,
    LiveScripts, Riders, Tasks,
    CampaignsScripts, Users, RoleOf, Phones, Batch,
    PublishingScripts, Posted, Orders, Horizon,
    AccountsScripts, Customer, Rider, Vendor, Addresses

\* Ids stand for UUIDs: numbers, so that a new row may take the least one free.
ASSUME IdsAssumption ==
    /\ Variants \subseteq Nat /\ Rows \subseteq Nat /\ Posted \subseteq Nat /\ Addresses \subseteq Nat
    /\ Tickets \subseteq Nat /\ Messages \subseteq Nat /\ Orders \subseteq Nat
    /\ Tasks \subseteq Nat /\ \A x \in CampaignsScripts : x.ids \subseteq Nat

\* Three accounts, and a value that is none of them.
ASSUME PeopleAssumption == Customer # Rider /\ Customer # Vendor /\ Rider # Vendor /\ None # Rider

\* Who carries an order is somebody, and a step of it is something.
ASSUME LiveAssumption ==
    None \notin Riders \cup {"PREPARING", "READY", "PICKED_UP", "DELIVERED", "CANCELLED"}

\* Finitely many accounts, and a value for the phone no account registered.
ASSUME UsersAssumption == IsFiniteSet(Users) /\ None \notin Users

ASSUME HorizonAssumption == Horizon \in Nat

VARIABLE desk

Catalog == INSTANCE Storefront WITH Scripts <- CatalogScripts
Onboarding == INSTANCE Onboarding WITH Scripts <- OnboardingScripts, Ids <- Rows
Helpdesk == INSTANCE Helpdesk WITH Scripts <- HelpdeskScripts
Live == INSTANCE Live WITH Scripts <- LiveScripts
Campaigns == INSTANCE Campaigns WITH Scripts <- CampaignsScripts
Publishing == INSTANCE Publishing WITH Scripts <- PublishingScripts, Ids <- Posted
Accounts == INSTANCE Accounts WITH Scripts <- AccountsScripts, Ids <- Addresses

Init ==
    \/ desk = "catalog" /\ Catalog!Init
    \/ desk = "onboarding" /\ Onboarding!Init
    \/ desk = "helpdesk" /\ Helpdesk!Init
    \/ desk = "live" /\ Live!Init
    \/ desk = "campaigns" /\ Campaigns!Init
    \/ desk = "publishing" /\ Publishing!Init
    \/ desk = "accounts" /\ Accounts!Init

Next ==
    /\ UNCHANGED desk
    /\ \/ desk = "catalog" /\ Catalog!Browsing
       \/ desk = "onboarding" /\ Onboarding!Next
       \/ desk = "helpdesk" /\ Helpdesk!Next
       \/ desk = "live" /\ Live!Next
       \/ desk = "campaigns" /\ Campaigns!Next
       \/ desk = "publishing" /\ Publishing!Next
       \/ desk = "accounts" /\ Accounts!Next

Spec == Init /\ [][Next]_<<db, txn, script, desk>>

(***************************************************************************)
(* The machines' properties, each where its machine runs                   *)
(***************************************************************************)
\* An item never has two default sizes nor a customer two default addresses, and
\* in turn each has one as soon as it has any (_resolve_default, delete_address).
OneDefault ==
    /\ desk = "catalog" => Catalog!OneDefault
    /\ desk = "accounts" => Accounts!OneDefaultAddress

\* Chips, lists, dishes, pages and offers agree (customer/discovery.py).
ChipKeepsItsPromise == desk = "catalog" => Catalog!ChipKeepsItsPromise /\ Catalog!CardsOpen

\* Items, sections and spellings outlive what happens to their categories, in turn
\* (delete_category, admin_rename, admin_merge).
MenusSurvive == [][desk = "catalog" =>
    Catalog!NothingFallsOut /\ Catalog!SpellingsKeepTheirPlace]_db

\* What is over stays over: applications decided, invitations used or revoked, tickets
\* closed, chats of ended orders, posts removed and campaigns that ran out, which count
\* no event handled after their end.
OverIsOver == [][
    /\ desk = "onboarding" => Onboarding!DecisionsStand
    /\ desk = "helpdesk" => Helpdesk!ClosedIsOver
    /\ desk = "publishing" => Publishing!GoneForGood]_db

\* Every approval has an account of its own, and no store on sale waits for one.
ApprovalsMeanSomething ==
    desk = "onboarding" => Onboarding!AnAccountEach /\ Onboarding!NothingOnSaleWaits

\* A message nobody was shown is unread (support.py, customer/chat.py).
NothingUnreadIsLost == desk = "helpdesk" => Helpdesk!NothingUnreadIsLost

\* Screens show what the order was, then what it is; those who wait for it are told
\* of its end (realtime.py, order_push.py).
ScreensAgree == desk = "live" => Live!NoPhantoms /\ Live!ScreensAgree /\ Live!TheRestAreTold

\* A new dot on a map is of the rider who carries the order, and a campaign tries the
\* phones its audience registered last and buzzes no others (rider/tracking.py,
\* push_service.py).
SignalsAreTrue == [][
    /\ desk = "live" => Live!MapFollowsTheOrder
    /\ desk = "campaigns" => Campaigns!BuzzesItsAudience]_db

\* No campaign is sent twice, or sent and cancelled, and it reached whom it counts, as
\* far as they are still there (notifications.py, account_deletion.py).
SentOnce == desk = "campaigns" => Campaigns!SentOnce

\* Report counts and ratings are those of their rows, and the console and the apps
\* agree on which banners are live (community.py, reviews.py, banners.py).
TalliesAndListsAreTrue ==
    desk = "publishing" => Publishing!TalliesAreTrue /\ Publishing!EveryBannerInOneList

\* Who has left is on no order but one scheduled later, and is owed nothing and has
\* nothing open but by an operator's hand (account_deletion.py).
LeavesNothingOpen == desk = "accounts" => Accounts!LeavesNothingOpen

\* "Whoever cancelled already knows; everyone else still holding the order is told"
\* (order_push.py).
EveryoneHoldingItIsTold == desk = "live" => Live!EveryoneHoldingItIsTold
=============================================================================
