SPECIFICATION Spec
CONSTANTS
    NotSet = NotSet
    Lines <- SomeLines
    RestaurantRates <- SomeRates
    SettingsRows <- SomeRows
    ServerFees <- ServerConfig
    PlatformRate = 200
    FreeDeliveryOver = 5000
    MaxDistance = 8000
    Promos <- SomePromos
    Distances <- SomeDistances
    Tips = {0, 500}
    MaxLines = 2
CHECK_DEADLOCK FALSE
INVARIANTS
    BillIsFair
    FeeFollowsTheMetres
