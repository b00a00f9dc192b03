------------------------------- MODULE Basket -------------------------------
(***************************************************************************)
(* What a customer is promised of the cart: how many of each choice it     *)
(* holds, all from one restaurant.                                         *)
(***************************************************************************)
EXTENDS Naturals

CONSTANTS Goods,            \* a dish with a size, or without one
          SellerOf,         \* the restaurant that sells a choice
          SizeIn, Sizes,    \* its size, of these, if it has one
          MaxQuantity

VARIABLE basket

Empty == [c \in Goods |-> 0]

Init == basket = Empty

\* One choice is set to a number; everything else stays.
Put(c, q) ==
    /\ q > 0 => \A d \in Goods :
            basket[d] > 0 => SellerOf[d] = SellerOf[c]
    /\ basket' = [basket EXCEPT ![c] = q]

\* The basket is ordered.
Order == basket # Empty /\ basket' = Empty

\* A size leaves the menu and every basket.
Withdraw(v) ==
    basket' = [c \in Goods |-> IF SizeIn[c] = v THEN 0 ELSE basket[c]]

Edit == \E c \in Goods, q \in 0..MaxQuantity : Put(c, q)

Next ==
    \/ Edit
    \/ Order
    \/ \E v \in Sizes : Withdraw(v)

Spec == Init /\ [][Next]_basket
=============================================================================
