---------------------------- MODULE MCBackOffice ----------------------------
(* Two clerks, and few rows of each kind; each behaviour calls the operations  *)
(* of one script.                                                              *)
EXTENDS BackOfficeInvariants, TLC

CONSTANTS c1, c2, r1, r2, tacos, cafe, cafee, half, full, ann, bob, boss

TwoClerks == {c1, c2}
TwoStores == {r1, r2}
OneNear == {r1}
ThreeNames == {tacos, cafe, cafee}
SameSlug == [x \in ThreeNames |-> IF x = cafee THEN cafe ELSE x]
TwoLabels == {half, full}
TwoPeople == {ann, bob}
ThreePeople == {ann, bob, boss}
Roles == ann :> "CUSTOMER" @@ bob :> "RIDER" @@ boss :> "ADMIN"

Of(calls, overlap) == [calls |-> calls, overlap |-> overlap]
Menus(calls, overlap, restaurants, names) ==
    Of(calls, overlap) @@ [restaurants |-> restaurants, names |-> names]

SizeCalls == {"create_category", "create_item", "add_variant", "update_variant", "delete_variant"}

SomeCatalogScripts ==
    {Menus(SizeCalls \cup {"_sync_variants"}, FALSE, {r1}, {tacos}),
     Menus(SizeCalls, TRUE, {r1}, {tacos}),
     Menus({"create_category", "update_category", "unlink_category", "delete_category", "create_item",
            "update_item", "delete_item", "admin_review", "admin_delete"}, FALSE, {r1}, {tacos, cafe}),
     Menus({"create_category", "update_category", "create_item", "admin_review", "admin_rename",
            "admin_merge"}, FALSE, {r1, r2}, {tacos, cafe}),
     Menus({"create_category", "admin_create", "admin_rename", "admin_merge", "admin_alias",
            "admin_delete"}, FALSE, {r1}, {tacos, cafe, cafee}),
     Menus({"create_category", "create_item", "set_item_status", "add_add_on", "update_add_on",
            "delete_add_on", "_sync_add_ons"}, FALSE, {r1}, {tacos}),
     Menus({"create_category", "create_item", "admin_review", "admin_rename", "admin_merge"},
           TRUE, {r1, r2}, {tacos}),
     Menus({"create_category", "update_category", "admin_review", "create_item", "create_product",
            "update_product"}, FALSE, {r1}, {tacos, cafe}),
     Menus({"create_category", "create_item", "hide_item", "admin_review", "switch"},
           FALSE, {r1}, {tacos}),
     Menus({"switch", "promote"}, FALSE, {r1}, {})}

Vendors == {"sign_up", "register_vendor", "submit", "approve", "reject", "update_vendor", "create_vendor"}

SomeOnboardingScripts ==
    {Of(Vendors, FALSE), Of(Vendors \cup {"set_verified"}, FALSE),
     Of({"rider_submit", "rider_review", "create_rider"}, TRUE),
     Of({"invite", "accept", "sign_up", "expire"}, TRUE)}

SomeHelpdeskScripts == {Of({"ticket"}, TRUE), Of({"ticket"}, FALSE), Of({"chat"}, FALSE)}

SomeLiveScripts ==
    {Of({"move", "assign", "watch", "ping"}, FALSE), Of({"move"}, TRUE),
     Of({"assign", "ping", "shift", "dispatch"}, FALSE)}

\* One campaign for what the phones and the sweep do, two for who cancels which.
Sending(calls, overlap, ids) == Of(calls, overlap) @@ [ids |-> ids]

SomeCampaignsScripts ==
    {Sending({"create", "cancel", "send_due", "leave"}, TRUE, {1, 2}),
     Sending({"create", "send_due", "register", "unregister", "set_active", "leave"}, FALSE, {1}),
     Sending({"create", "mark_read"}, FALSE, {1, 2})}

SomePublishingScripts ==
    {Of({"post", "report", "remove"}, TRUE), Of({"review"}, FALSE), Of({"review"}, TRUE),
     Of({"reel"}, FALSE), Of({"banner"}, FALSE), Of({"promo"}, TRUE)}

SomeAccountsScripts ==
    {Of({"address"}, TRUE), Of({"address", "favorite", "delete"}, FALSE),
     Of({"order", "payout", "delete", "block", "hours"}, FALSE),
     Of({"order", "assign", "payout", "reopen", "delete"}, FALSE),
     Of({"order", "delete", "flags", "hours"}, FALSE)}
=============================================================================
