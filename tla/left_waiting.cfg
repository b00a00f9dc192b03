SPECIFICATION Spec
CONSTANTS
    c1 = c1
    c2 = c2
    r1 = r1
    r2 = r2
    tacos = tacos
    cafe = cafe
    cafee = cafee
    half = half
    full = full
    ann = ann
    bob = bob
    boss = boss
    None = None
    Clerks <- TwoClerks
    CatalogScripts <- SomeCatalogScripts
    Restaurants <- TwoStores
    Near <- OneNear
    Codes = {1, 2}
    Names <- ThreeNames
    SlugOf <- SameSlug
    Labels <- TwoLabels
    Sections = {1, 2}
    Items = {1}
    Variants = {1, 2, 3}
    AddOns = {1}
    Categories = {1, 2}
    MaxOptions = 2
    OnboardingScripts <- SomeOnboardingScripts
    Emails <- TwoPeople
    Rows = {1, 2}
    HelpdeskScripts <- SomeHelpdeskScripts
    Tickets = {1}
    Messages = {1, 2}
    LiveScripts <- SomeLiveScripts
    Riders <- TwoPeople
    Tasks = {1, 2}
    CampaignsScripts <- SomeCampaignsScripts
    Users <- ThreePeople
    RoleOf <- Roles
    Phones = {1, 2}
    Batch = 1
    PublishingScripts <- SomePublishingScripts
    Posted = {1}
    Orders = {1, 2}
    Horizon = 2
    AccountsScripts <- SomeAccountsScripts
    Customer = ann
    Rider = bob
    Vendor = boss
    Addresses = {1, 2, 3}
CHECK_DEADLOCK FALSE
INVARIANTS EveryoneHoldingItIsTold
