--------------------------- MODULE PricingProofs ---------------------------
(***************************************************************************)
(* The bill adds up for every price, rate, tariff, promo and distance.     *)
(***************************************************************************)
EXTENDS Pricing, TLAPS

\* Rounding half up is within half a paisa of the exact share, and a share is
\* never more than the whole.
LEMMA RoundedShare ==
    ASSUME NEW minor \in Nat, NEW bps \in Rate
    PROVE  /\ PercentageOf(minor, bps) \in 0..minor
           /\ 2 * (10000 * PercentageOf(minor, bps) - minor * bps) <= 10000
           /\ 2 * (minor * bps - 10000 * PercentageOf(minor, bps)) <= 10000
<1> DEFINE x == minor * bps
<1>1. x \in Nat /\ x <= minor * 10000
    BY DEF Rate
<1>2. \A y \in Nat : /\ (y + 5000) \div 10000 \in Nat
                     /\ 2 * (10000 * ((y + 5000) \div 10000) - y) <= 10000
                     /\ 2 * (y - 10000 * ((y + 5000) \div 10000)) <= 10000
    OBVIOUS
<1>3. \A y \in Nat : y <= minor * 10000 => (y + 5000) \div 10000 <= minor
    OBVIOUS
<1> HIDE DEF x
<1>4. QED
    BY <1>1, <1>2, <1>3 DEF PercentageOf, x

\* A NULL column falls back to a value of the same kind.
LEMMA Fallback ==
    ASSUME NEW S, NEW x \in OrNull(S), NEW default \in S
    PROVE  Else(x, default) \in S
BY DEF Else, OrNull

LEMMA LineIsMoney ==
    ASSUME TypeOK, NEW l \in Line
    PROVE  LineTotal(l) \in Nat /\ BasisPoints(l) \in Rate
<1>1. UnitPrice(l) \in Nat
    BY Fallback DEF UnitPrice, Line
<1>2. l.addOn \in Nat /\ l.addOnCount \in Nat /\ l.quantity \in Nat
    BY DEF Line
<1>3. l.addOn * l.addOnCount \in Nat
    BY <1>2
<1>4. LineTotal(l) \in Nat
    BY <1>1, <1>2, <1>3 DEF LineTotal
<1>5. Else(l.category, restaurantRate) \in Rate
    BY Fallback DEF Line, TypeOK
<1>6. BasisPoints(l) \in Rate
    BY <1>5 DEF BasisPoints, Else, OrNull, Line, TypeOK
<1>7. QED
    BY <1>4, <1>6

LEMMA FeesAreMoney ==
    ASSUME TypeOK
    PROVE  Fees(row) \in [base : Nat, perKm : Nat, minimum : Nat, surcharge : Nat,
                          priority : Nat]
<1>1. /\ Else(row.base, ServerFees.base) \in Nat
      /\ Else(row.perKm, ServerFees.perKm) \in Nat
      /\ Else(row.minimum, 0) \in Nat
      /\ Else(row.priority, ServerFees.priority) \in Nat
    BY PricingAssumption, Fallback DEF SettingsRow, TypeOK
<1>2. (IF row.raining THEN row.rain ELSE 0) \in Nat
    BY DEF SettingsRow, TypeOK
<1>3. QED
    BY <1>1, <1>2 DEF Fees

LEMMA DistanceFeeIsMoney ==
    ASSUME NEW metres \in Nat, NEW items \in Nat,
           NEW fees \in [base : Nat, perKm : Nat, minimum : Nat, surcharge : Nat,
                         priority : Nat]
    PROVE  DistanceFee(metres, fees) \in Nat /\ DeliveryFee(metres, items, fees) \in Nat
<1>1. fees.perKm * metres \in Nat
    OBVIOUS
<1>2. \A y \in Nat : (y + 500) \div 1000 \in Nat
    OBVIOUS
<1>3. DistanceFee(metres, fees) \in Nat
    BY <1>1, <1>2 DEF DistanceFee
<1>4. QED
    BY <1>3 DEF DeliveryFee, Larger

\* The fee of one more metre.
LEMMA OneMetreMore ==
    ASSUME NEW metres \in Nat, NEW items \in Nat,
           NEW fees \in [base : Nat, perKm : Nat, minimum : Nat, surcharge : Nat,
                         priority : Nat]
    PROVE  /\ DeliveryFee(metres, items, fees) <= DeliveryFee(metres + 1, items, fees)
           /\ DeliveryFee(metres + 1, items, fees)
                <= DeliveryFee(metres, items, fees) + fees.perKm \div 1000 + 1
<1> DEFINE x == fees.perKm * metres
           k == fees.perKm
<1>1. x \in Nat /\ k \in Nat /\ fees.perKm * (metres + 1) = x + k
    OBVIOUS
<1>2. \A y, n \in Nat : /\ (y + 500) \div 1000 <= (y + n + 500) \div 1000
                        /\ (y + n + 500) \div 1000 <= (y + 500) \div 1000 + n \div 1000 + 1
    OBVIOUS
<1>3. k \div 1000 \in Nat
    BY <1>1
<1>4. /\ DistanceFee(metres, fees) <= DistanceFee(metres + 1, fees)
      /\ DistanceFee(metres + 1, fees) <= DistanceFee(metres, fees) + k \div 1000 + 1
    <2> DEFINE a == (x + 500) \div 1000
               b == (x + k + 500) \div 1000
    <2>1. a <= b /\ b <= a + k \div 1000 + 1 /\ a \in Int /\ b \in Int
        BY <1>1, <1>2
    <2>2. DistanceFee(metres, fees) = fees.base + a
        BY DEF DistanceFee
    <2>3. DistanceFee(metres + 1, fees) = fees.base + b
        BY <1>1 DEF DistanceFee
    <2> HIDE DEF a, b, x, k
    <2>4. QED
        BY <1>3, <2>1, <2>2, <2>3
<1>5. DistanceFee(metres, fees) \in Nat /\ DistanceFee(metres + 1, fees) \in Nat
    <2>1. metres + 1 \in Nat
        OBVIOUS
    <2>2. QED
        BY <2>1, DistanceFeeIsMoney
<1> HIDE DEF k, x
<1>6. QED
    BY <1>3, <1>4, <1>5 DEF DeliveryFee, Larger, k

\* A restaurant within reach charges no more than the budget, and one whose fee
\* is below the budget is within reach.
LEMMA ReachFits ==
    ASSUME NEW metres \in Nat, NEW items \in Nat, NEW budget \in Nat,
           NEW fees \in [base : Nat, perKm : Nat, minimum : Nat, surcharge : Nat,
                         priority : Nat],
           ~Waived(items)
    PROVE  /\ WithinReach(metres, budget, fees) => DeliveryFee(metres, items, fees) <= budget
           /\ DeliveryFee(metres, items, fees) < budget => WithinReach(metres, budget, fees)
<1> DEFINE x == fees.perKm * metres
           h == budget - fees.surcharge
           d == (x + 500) \div 1000
<1>1. x \in Nat /\ h \in Int /\ d \in Nat
    <2>1. \A y \in Nat : (y + 500) \div 1000 \in Nat
        OBVIOUS
    <2>2. x \in Nat
        OBVIOUS
    <2>3. QED
        BY <2>1, <2>2
<1>2. \A y \in Nat, n \in Int : /\ y <= 1000 * n => (y + 500) \div 1000 <= n
                                /\ (y + 500) \div 1000 < n => y <= 1000 * n
    OBVIOUS
<1>3. DeliveryFee(metres, items, fees) = Larger(fees.base + d, fees.minimum) + fees.surcharge
    BY DEF DeliveryFee, DistanceFee
<1>4. /\ x <= 1000 * (h - fees.base) => d <= h - fees.base
      /\ d < h - fees.base => x <= 1000 * (h - fees.base)
    BY <1>1, <1>2
<1>5. WithinReach(metres, budget, fees) <=>
            h >= Larger(fees.base, fees.minimum) /\ x <= 1000 * (h - fees.base)
    BY DEF WithinReach
<1> HIDE DEF x, d
<1>6. QED
    BY <1>1, <1>3, <1>4, <1>5 DEF Larger

(***************************************************************************)
(* The inductive invariant: what the running sums, the discount and the    *)
(* finished bill owe to each other.                                        *)
(***************************************************************************)
BillFits ==
    stage = "quoted" =>
        /\ bill.items = itemTotal /\ bill.commission = commission
        /\ bill.discount <= bill.items
        /\ bill.total = bill.items + bill.delivery + bill.priority + bill.platform
                            + bill.tip - bill.discount
        /\ bill.type = "PRIORITY" \/ bill.priority = 0
        /\ bill.delivery = DeliveryFee(bill.metres, itemTotal, Fees(row))

IInv ==
    /\ TypeOK
    /\ commission <= itemTotal
    /\ discount <= itemTotal
    /\ CommissionIsFair
    /\ BillFits

LEMMA InvInit == Init => IInv
<1> SUFFICES ASSUME Init PROVE IInv
    OBVIOUS
<1>1. TypeOK
    BY PricingAssumption DEF Init, TypeOK, OrNull
<1>2. QED
    BY <1>1 DEF Init, IInv, CommissionIsFair, BillFits

LEMMA PricingALine ==
    ASSUME IInv, NEW l \in Lines, PriceLine(l)
    PROVE  IInv'
<1> DEFINE t == LineTotal(l)
           b == BasisPoints(l)
           p == PercentageOf(t, b)
<1>1. t \in Nat /\ b \in Rate
    BY LineIsMoney, PricingAssumption DEF IInv
<1>2. /\ p \in 0..t
      /\ 2 * (10000 * p - t * b) <= 10000
      /\ 2 * (t * b - 10000 * p) <= 10000
    BY <1>1, RoundedShare
<1>3. t * b \in Nat
    <2> HIDE DEF t, b
    <2>1. b \in Nat
        BY <1>1 DEF Rate
    <2>2. QED
        BY <1>1, <2>1
<1>4. /\ count' = count + 1 /\ itemTotal' = itemTotal + t
      /\ commission' = commission + p /\ exact' = exact + t * b
      /\ stage = "lines" /\ UNCHANGED <<stage, row, restaurantRate, promo, discount, bill>>
    BY DEF PriceLine
<1> HIDE DEF t, b, p
<1> DEFINE e == t * b
<1>5. e \in Nat /\ exact' = exact + e
    BY <1>3, <1>4
<1>6. 2 * (10000 * p - e) <= 10000 /\ 2 * (e - 10000 * p) <= 10000
    BY <1>2
<1> HIDE DEF e
<1>7. TypeOK'
    BY <1>1, <1>2, <1>4, <1>5 DEF IInv, TypeOK
<1>8. commission' <= itemTotal' /\ discount' <= itemTotal'
    BY <1>1, <1>2, <1>4 DEF IInv, TypeOK
<1>9. CommissionIsFair'
    BY <1>1, <1>2, <1>4, <1>5, <1>6 DEF IInv, TypeOK, CommissionIsFair
<1>10. BillFits'
    BY <1>4 DEF BillFits
<1>11. QED
    BY <1>7, <1>8, <1>9, <1>10 DEF IInv

LEMMA TakingAPromo ==
    ASSUME IInv, NEW p \in Promos, ApplyPromo(p)
    PROVE  IInv'
<1>1. itemTotal \in Nat /\ p \in Promo
    BY PricingAssumption DEF IInv, TypeOK
<1>2. PercentageOf(itemTotal, p.value) \in Nat
    <2>1. itemTotal * p.value \in Nat
        BY <1>1 DEF Promo
    <2>2. \A y \in Nat : (y + 5000) \div 10000 \in Nat
        OBVIOUS
    <2>3. QED
        BY <2>1, <2>2 DEF PercentageOf
<1>3. Else(p.maxDiscount, PercentageOf(itemTotal, p.value)) \in Nat
    BY <1>1, <1>2, Fallback DEF Promo
<1>4. Offer(p, itemTotal) \in Nat
    BY <1>1, <1>2, <1>3 DEF Offer, Smaller, Promo
<1>5. Discount(p, itemTotal) \in 0..itemTotal
    BY <1>1, <1>4 DEF Discount, Smaller
<1>6. TypeOK'
    BY <1>1, <1>5 DEF IInv, TypeOK, OrNull, ApplyPromo
<1>7. QED
    BY <1>5, <1>6 DEF IInv, TypeOK, CommissionIsFair, BillFits, ApplyPromo

LEMMA Quoting ==
    ASSUME IInv, NEW metres \in Distances, NEW tip \in Tips,
           NEW type \in {"STANDARD", "PRIORITY"}, MakeQuote(metres, tip, type)
    PROVE  IInv'
<1> DEFINE fees == Fees(row)
           delivery == DeliveryFee(metres, itemTotal, fees)
           priority == PriorityFee(type, fees)
           platform == PercentageOf(itemTotal, PlatformRate)
           subtotal == itemTotal + delivery + priority + platform + tip
           off == Larger(0, Smaller(discount, subtotal))
<1>1. itemTotal \in Nat /\ discount \in Nat /\ metres \in Nat /\ tip \in Nat
      /\ discount <= itemTotal /\ commission \in Nat
    BY PricingAssumption DEF IInv, TypeOK
<1>2. fees \in [base : Nat, perKm : Nat, minimum : Nat, surcharge : Nat, priority : Nat]
    BY FeesAreMoney DEF IInv
<1>3. delivery \in Nat /\ priority \in Nat
    BY <1>1, <1>2, DistanceFeeIsMoney DEF PriorityFee
<1>4. platform \in Nat
    BY <1>1, PricingAssumption, RoundedShare
<1>5. type # "PRIORITY" => priority = 0
    BY DEF PriorityFee
<1>6. bill' = [items |-> itemTotal, delivery |-> delivery, type |-> type,
               priority |-> priority, platform |-> platform, discount |-> off,
               tip |-> tip, total |-> subtotal - off, commission |-> commission,
               metres |-> metres]
    BY DEF MakeQuote, Quote
<1>7. UNCHANGED <<row, restaurantRate, count, itemTotal, commission, exact, promo, discount>>
      /\ stage' = "quoted"
    BY DEF MakeQuote
<1>8. delivery = DeliveryFee(metres, itemTotal', Fees(row)')
    BY <1>7 DEF Fees
<1> HIDE DEF fees, delivery, priority, platform
<1>9. off = discount /\ subtotal - off \in Nat
    BY <1>1, <1>3, <1>4 DEF Larger, Smaller
<1>10. bill' \in Bill
    BY <1>1, <1>3, <1>4, <1>6, <1>9 DEF Bill
<1>11. TypeOK'
    BY <1>7, <1>10 DEF IInv, TypeOK, OrNull
<1>12. BillFits'
    <2>1. bill.delivery' = DeliveryFee(bill.metres, itemTotal, Fees(row))'
        BY <1>6, <1>8
    <2>2. QED
        BY <1>1, <1>3, <1>4, <1>5, <1>6, <1>7, <1>9, <2>1 DEF BillFits
<1>13. QED
    BY <1>7, <1>11, <1>12 DEF IInv, CommissionIsFair

LEMMA InvNext == IInv /\ [Next]_vars => IInv'
<1> SUFFICES ASSUME IInv, [Next]_vars PROVE IInv'
    OBVIOUS
<1>1. CASE \E l \in Lines : PriceLine(l)
    BY <1>1, PricingALine
<1>2. CASE NoPromo
    BY <1>2 DEF NoPromo, IInv, TypeOK, CommissionIsFair, BillFits
<1>3. CASE \E p \in Promos : ApplyPromo(p)
    BY <1>3, TakingAPromo
<1>4. CASE \E metres \in Distances, tip \in Tips, type \in {"STANDARD", "PRIORITY"} :
                MakeQuote(metres, tip, type)
    BY <1>4, Quoting
<1>5. CASE UNCHANGED vars
    <2>1. Fees(row)' = Fees(row)
        BY <1>5 DEF Fees, vars
    <2>2. QED
        BY <1>5, <2>1 DEF vars, IInv, TypeOK, CommissionIsFair, BillFits
<1>6. QED
    BY <1>1, <1>2, <1>3, <1>4, <1>5 DEF Next

LEMMA Invariant == Spec => []IInv
<1>1. QED
    BY InvInit, InvNext, PTL DEF Spec

\* Every bill is made of amounts of money, and so is every sum on the way to it.
THEOREM TypeCorrect == Spec => []TypeOK
<1>1. IInv => TypeOK
    BY DEF IInv
<1>2. QED
    BY <1>1, Invariant, PTL

\* No quote is refused by the CHECK constraints of `orders`.
THEOREM BillsPersist == Spec => []BillPassesChecks
<1>1. IInv => BillPassesChecks
    <2> SUFFICES ASSUME IInv, stage = "quoted" PROVE BillPassesChecks
        BY DEF BillPassesChecks
    <2>1. bill \in Bill
        BY DEF IInv, TypeOK
    <2>2. QED
        BY <2>1 DEF IInv, BillFits, BillPassesChecks, Bill
<1>2. QED
    BY <1>1, Invariant, PTL

\* Rounding the commission line by line costs half a paisa a line at most.
THEOREM FairCommission == Spec => []CommissionIsFair
<1>1. IInv => CommissionIsFair
    BY DEF IInv
<1>2. QED
    BY <1>1, Invariant, PTL

\* No promo eats into the rider's fees or tip.
THEOREM RidersArePaid == Spec => []PromoNeverPaysTheRider
<1>1. IInv => PromoNeverPaysTheRider
    <2> SUFFICES ASSUME IInv, stage = "quoted" PROVE PromoNeverPaysTheRider
        BY DEF PromoNeverPaysTheRider
    <2>1. bill \in Bill
        BY DEF IInv, TypeOK
    <2>2. QED
        BY <2>1 DEF IInv, BillFits, PromoNeverPaysTheRider, Bill
<1>2. QED
    BY <1>1, Invariant, PTL

\* The delivery fee has no jumps, whatever the tariff.
THEOREM NoJumps == Spec => []FeeGrowsByTheMetre
<1>1. IInv => FeeGrowsByTheMetre
    <2> SUFFICES ASSUME IInv, stage = "quoted" PROVE FeeGrowsByTheMetre
        BY DEF FeeGrowsByTheMetre
    <2>1. bill \in Bill /\ itemTotal \in Nat
        BY DEF IInv, TypeOK
    <2>2. bill.metres \in Nat
        BY <2>1 DEF Bill
    <2>3. Fees(row) \in [base : Nat, perKm : Nat, minimum : Nat, surcharge : Nat,
                         priority : Nat]
        BY FeesAreMoney DEF IInv
    <2>4. bill.delivery = DeliveryFee(bill.metres, itemTotal, Fees(row))
        BY DEF IInv, BillFits
    <2>5. QED
        BY <2>1, <2>2, <2>3, <2>4, OneMetreMore DEF FeeGrowsByTheMetre
<1>2. QED
    BY <1>1, Invariant, PTL

\* The fee filter is the inverse of the fee, whatever the tariff.
THEOREM FilterFits == Spec => []ReachIsTheInverse
<1>1. IInv => ReachIsTheInverse
    <2> SUFFICES ASSUME IInv, stage = "quoted", ~Waived(itemTotal) PROVE ReachIsTheInverse
        BY DEF ReachIsTheInverse
    <2>1. bill \in Bill /\ itemTotal \in Nat
        BY DEF IInv, TypeOK
    <2>2. bill.delivery \in Nat
        BY <2>1 DEF Bill
    <2>3. Fees(row) \in [base : Nat, perKm : Nat, minimum : Nat, surcharge : Nat,
                         priority : Nat]
        BY FeesAreMoney DEF IInv
    <2>4. QED
        BY <2>1, <2>2, <2>3, ReachFits, PricingAssumption DEF ReachIsTheInverse
<1>2. QED
    BY <1>1, Invariant, PTL

\* A bill the schema accepts, with fair roundings, that pays the rider.
THEOREM FairBills == Spec => []BillIsFair
BY BillsPersist, FairCommission, RidersArePaid, PTL DEF BillIsFair

\* The fee the customer pays and the filter the customer sets follow the distance.
THEOREM FeesFollow == Spec => []FeeFollowsTheMetres
BY NoJumps, FilterFits, PTL DEF FeeFollowsTheMetres
=============================================================================
