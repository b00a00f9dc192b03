------------------------------ MODULE Pricing ------------------------------
(***************************************************************************)
(* The bill of one order, as checkout and placement both compute it        *)
(* (services/customer/orders.py `_prepare`, services/pricing.py `quote`):  *)
(* the cart's lines are priced one by one, a promo is turned into a        *)
(* discount, and the quote adds the fees of the distance.  Money is paisa, *)
(* rates are basis points (a rate has four decimals, so this is exact),    *)
(* distances are metres.                                                   *)
(***************************************************************************)
EXTENDS Integers

CONSTANTS
    Lines,              \* priced cart lines
    RestaurantRates,    \* commission rates of the restaurant
    SettingsRows,       \* rows of platform_settings; rain stands for its three surcharges
    ServerFees,         \* the server's configuration: base, perKm, priority
    PlatformRate,       \* PLATFORM_FEE_BASIS_POINTS
    FreeDeliveryOver,   \* FREE_DELIVERY_THRESHOLD, 0 when off
    MaxDistance,        \* MAX_DELIVERY_DISTANCE_KM
    Promos, Distances, Tips,
    MaxLines,           \* bound: lines of the cart
    NotSet              \* NULL in a nullable column

Rate == 0..10000
OrNull(S) == S \cup {NotSet}

Line == [base : Nat, variant : OrNull(Nat), addOn : Nat, addOnCount : Nat,
         quantity : Nat \ {0}, product : OrNull(Rate), category : OrNull(Rate)]
SettingsRow == [base : OrNull(Nat), perKm : OrNull(Nat), minimum : OrNull(Nat),
                priority : OrNull(Nat), rain : Nat, raining : BOOLEAN]
Promo == [kind : {"PERCENTAGE", "FIXED", "FREE_DELIVERY"}, value : Nat,
          maxDiscount : OrNull(Nat), minOrder : Nat, budgetLeft : OrNull(Nat)]

ASSUME PricingAssumption ==
    /\ Lines \subseteq Line /\ RestaurantRates \subseteq Rate
    /\ SettingsRows \subseteq SettingsRow /\ Promos \subseteq Promo
    /\ ServerFees \in [base : Nat, perKm : Nat, priority : Nat]
    /\ PlatformRate \in Rate /\ FreeDeliveryOver \in Nat
    /\ MaxDistance \in Nat /\ MaxLines \in Nat
    /\ Distances \subseteq Nat /\ Tips \subseteq Nat

VARIABLES
    stage,              \* "lines" being priced, "promo" validated, "quoted"
    row, restaurantRate,
    count, itemTotal, commission,
    exact,              \* bookkeeping: the commission in hundredths of a percent of a paisa
    promo, discount, bill

vars == <<stage, row, restaurantRate, count, itemTotal, commission, exact,
          promo, discount, bill>>

Smaller(x, y) == IF x < y THEN x ELSE y
Larger(x, y) == IF x > y THEN x ELSE y
Else(x, default) == IF x = NotSet THEN default ELSE x

(***************************************************************************)
(* Rounding and lines                                                      *)
(***************************************************************************)
\* Mutant of PercentageOf: cuts the fraction off.
PercentageCut(minor, bps) == (minor * bps) \div 10000

\* Half a paisa and more rounds up.
PercentageOf(minor, bps) == (minor * bps + 5000) \div 10000

UnitPrice(l) == Else(l.variant, l.base)
LineTotal(l) == (UnitPrice(l) + l.addOn * l.addOnCount) * l.quantity

\* The product's rate, else its category's, else the restaurant's.
BasisPoints(l) == Else(Else(l.product, l.category), restaurantRate)

(***************************************************************************)
(* Delivery                                                                *)
(***************************************************************************)
Fees(r) == [base |-> Else(r.base, ServerFees.base),
            perKm |-> Else(r.perKm, ServerFees.perKm),
            minimum |-> Else(r.minimum, 0),
            surcharge |-> IF r.raining THEN r.rain ELSE 0,
            priority |-> Else(r.priority, ServerFees.priority)]

Waived(items) == FreeDeliveryOver > 0 /\ items >= FreeDeliveryOver

\* Mutant of DistanceFee: every started kilometre.
DistanceFeeStarted(metres, fees) == fees.base + fees.perKm * ((metres + 999) \div 1000)

DistanceFee(metres, fees) == fees.base + (fees.perKm * metres + 500) \div 1000

DeliveryFee(metres, items, fees) ==
    IF Waived(items) THEN 0
    ELSE Larger(DistanceFee(metres, fees), fees.minimum) + fees.surcharge

\* Whether the "max delivery fee" filter shows a restaurant this far away: the
\* distance against delivery_reach_km, without the division.
WithinReach(metres, budget, fees) ==
    LET headroom == budget - fees.surcharge
    IN /\ headroom >= Larger(fees.base, fees.minimum)
       /\ fees.perKm * metres <= 1000 * (headroom - fees.base)

(***************************************************************************)
(* The promo                                                               *)
(***************************************************************************)
\* FREE_DELIVERY falls in the last branch, where its value is 0.
Offer(p, items) ==
    IF p.kind = "PERCENTAGE"
    THEN Smaller(PercentageOf(items, p.value), Else(p.maxDiscount, PercentageOf(items, p.value)))
    ELSE p.value

Accepts(p, items) ==
    /\ items >= p.minOrder
    /\ p.budgetLeft # NotSet => Offer(p, items) <= p.budgetLeft

Discount(p, items) == Smaller(Offer(p, items), items)

(***************************************************************************)
(* The quote                                                               *)
(***************************************************************************)
\* Mutant of PriorityFee: charged on every order.
PriorityFeeAlways(type, fees) == fees.priority

PriorityFee(type, fees) == IF type = "PRIORITY" THEN fees.priority ELSE 0

Quote(metres, tip, type) ==
    LET fees == Fees(row)
        delivery == DeliveryFee(metres, itemTotal, fees)
        priority == PriorityFee(type, fees)
        platform == PercentageOf(itemTotal, PlatformRate)
        subtotal == itemTotal + delivery + priority + platform + tip
        off == Larger(0, Smaller(discount, subtotal))
    IN [items |-> itemTotal, delivery |-> delivery, type |-> type,
        priority |-> priority, platform |-> platform, discount |-> off, tip |-> tip,
        total |-> subtotal - off, commission |-> commission, metres |-> metres]

Bill == [items : Nat, delivery : Nat, type : {"STANDARD", "PRIORITY"},
         priority : Nat, platform : Nat, discount : Nat, tip : Nat, total : Nat,
         commission : Nat, metres : Nat]

TypeOK ==
    /\ stage \in {"lines", "promo", "quoted"}
    /\ row \in SettingsRow /\ restaurantRate \in Rate
    /\ count \in Nat /\ itemTotal \in Nat /\ commission \in Nat /\ exact \in Nat
    /\ promo \in OrNull(Promo) /\ discount \in Nat
    /\ bill \in OrNull(Bill) /\ (stage = "quoted" => bill \in Bill)

Init ==
    /\ stage = "lines"
    /\ row \in SettingsRows /\ restaurantRate \in RestaurantRates
    /\ count = 0 /\ itemTotal = 0 /\ commission = 0 /\ exact = 0
    /\ promo = NotSet /\ discount = 0 /\ bill = NotSet

PriceLine(l) ==
    /\ stage = "lines" /\ count < MaxLines
    /\ count' = count + 1
    /\ itemTotal' = itemTotal + LineTotal(l)
    /\ commission' = commission + PercentageOf(LineTotal(l), BasisPoints(l))
    /\ exact' = exact + LineTotal(l) * BasisPoints(l)
    /\ UNCHANGED <<stage, row, restaurantRate, promo, discount, bill>>

\* No code, or one that is refused: the bill goes on without it.
NoPromo ==
    /\ stage = "lines" /\ count > 0
    /\ stage' = "promo"
    /\ UNCHANGED <<row, restaurantRate, count, itemTotal, commission, exact,
                   promo, discount, bill>>

ApplyPromo(p) ==
    /\ stage = "lines" /\ count > 0
    /\ Accepts(p, itemTotal)
    /\ stage' = "promo"
    /\ promo' = p /\ discount' = Discount(p, itemTotal)
    /\ UNCHANGED <<row, restaurantRate, count, itemTotal, commission, exact, bill>>

MakeQuote(metres, tip, type) ==
    /\ stage = "promo" /\ metres <= MaxDistance
    /\ stage' = "quoted"
    /\ bill' = Quote(metres, tip, type)
    /\ UNCHANGED <<row, restaurantRate, count, itemTotal, commission, exact,
                   promo, discount>>

Next ==
    \/ \E l \in Lines : PriceLine(l)
    \/ NoPromo
    \/ \E p \in Promos : ApplyPromo(p)
    \/ \E metres \in Distances, tip \in Tips, type \in {"STANDARD", "PRIORITY"} :
            MakeQuote(metres, tip, type)

Spec == Init /\ [][Next]_vars

(***************************************************************************)
(* Properties                                                              *)
(***************************************************************************)
\* A bill is never one the CHECK constraints of `orders` refuse: the parts make
\* the total, commission is within the items, and only priority orders pay for
\* priority.
BillPassesChecks ==
    stage = "quoted" =>
        /\ bill.total = bill.items + bill.delivery + bill.priority + bill.platform
                            + bill.tip - bill.discount
        /\ bill.commission <= bill.items
        /\ bill.type = "PRIORITY" \/ bill.priority = 0
        /\ bill.total >= 0

\* Rounding each line's commission moves the sum by half a paisa a line at most.
CommissionIsFair ==
    /\ 2 * (10000 * commission - exact) <= 10000 * count
    /\ 2 * (exact - 10000 * commission) <= 10000 * count

\* What the customer pays covers the rider's fees and tip: a promo is paid from
\* the food and the platform, however generous.
PromoNeverPaysTheRider ==
    stage = "quoted" => bill.total >= bill.delivery + bill.priority + bill.tip

\* One metre more never lowers the delivery fee, and raises it by no more than
\* that metre's price, rounded up: no jumps at a kilometre.
FeeGrowsByTheMetre ==
    stage = "quoted" =>
        LET fees == Fees(row)
            more == DeliveryFee(bill.metres + 1, itemTotal, fees)
        IN /\ bill.delivery <= more
           /\ more <= bill.delivery + fees.perKm \div 1000 + 1

\* The fee filter shows exactly the restaurants whose fee fits the budget, up to
\* the half paisa that rounding forgives. The filter knows no cart, so a waived
\* fee is not compared.
ReachIsTheInverse ==
    stage = "quoted" /\ ~Waived(itemTotal) =>
        LET fees == Fees(row)
            budget == bill.delivery
        IN /\ \A metres \in Distances : WithinReach(metres, budget, fees) =>
                    DeliveryFee(metres, itemTotal, fees) <= budget
           /\ \A metres \in Distances : DeliveryFee(metres, itemTotal, fees) < budget =>
                    WithinReach(metres, budget, fees)

\* The bill adds up, its roundings are fair, and the rider's part of it is paid.
BillIsFair == BillPassesChecks /\ CommissionIsFair /\ PromoNeverPaysTheRider

\* The delivery fee has no jumps and the fee filter agrees with it.
FeeFollowsTheMetres == FeeGrowsByTheMetre /\ ReachIsTheInverse
=============================================================================
