------------------------------- MODULE MCCart -------------------------------
(* A dish that gets a size, and one sold elsewhere. *)
EXTENDS Cart

CONSTANTS soup, cake, large, here, there

TwoSellers == [d \in Dishes |-> IF d = cake THEN there ELSE here]
SoupSizes == [v \in Sizes |-> soup]
=============================================================================
