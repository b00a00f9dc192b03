SPECIFICATION FairSpec
CONSTANTS
    None = None
    Sessions = {s1, s2}
    soup = soup
    cake = cake
    large = large
    here = here
    there = there
    Dishes = {soup, cake}
    Sizes = {large}
    Restaurants = {here, there}
    Seller <- TwoSellers
    SizedDish <- SoupSizes
    Hideable = {soup}
    MaxQuantity = 2
    MaxCarts = 2
    MaxLines = 3
CHECK_DEADLOCK FALSE
INVARIANTS
    CartIsWhole
PROPERTIES
    OrderedLinesLeave
    RequestsEnd
    KeepsBasket
