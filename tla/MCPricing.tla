----------------------------- MODULE MCPricing -----------------------------
(* Prices, rates, tariffs and distances that meet every rounding and bound. *)
EXTENDS Pricing

Dish(base, variant, addOn, n, quantity, product, category) ==
    [base |-> base, variant |-> variant, addOn |-> addOn, addOnCount |-> n,
     quantity |-> quantity, product |-> product, category |-> category]

\* 10 paisa at 15% is a paisa and a half.
SomeLines == {
    Dish(10, NotSet, 0, 0, 1, NotSet, NotSet),
    Dish(3, 33, 5, 2, 1, NotSet, 1250),
    Dish(0, NotSet, 0, 0, 1, 10000, 0),
    Dish(1999, 2499, 50, 1, 2, 333, 1250),
    Dish(25, NotSet, 7, 1, 3, 0, NotSet)}

SomeRates == {1500, 10000}

ServerConfig == [base |-> 1000, perKm |-> 800, priority |-> 2000]

Tariff(base, perKm, minimum, priority, rain, raining) ==
    [base |-> base, perKm |-> perKm, minimum |-> minimum,
     priority |-> priority, rain |-> rain, raining |-> raining]

SomeRows == {
    Tariff(NotSet, NotSet, NotSet, NotSet, 300, FALSE),
    Tariff(0, 3333, 1500, 0, 300, TRUE),
    Tariff(500, 0, 700, 100, 0, FALSE)}

Deal(kind, value, maxDiscount, minOrder, budgetLeft) ==
    [kind |-> kind, value |-> value, maxDiscount |-> maxDiscount,
     minOrder |-> minOrder, budgetLeft |-> budgetLeft]

SomePromos == {
    Deal("PERCENTAGE", 2000, NotSet, 0, NotSet),
    Deal("PERCENTAGE", 10000, 20, 30, NotSet),
    Deal("FIXED", 5000, NotSet, 0, 6000),
    Deal("FIXED", 40, NotSet, 0, 30),
    Deal("FREE_DELIVERY", 0, NotSet, 0, NotSet)}

\* The steps of rounding at 800 and at 3333 paisa a kilometre, and the limit.
SomeDistances == {0, 1, 624, 625, 999, 1000, 1430, 8000}
=============================================================================
