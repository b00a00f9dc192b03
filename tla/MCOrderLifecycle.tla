-------------------------- MODULE MCOrderLifecycle --------------------------
(* The constants of the OrderLifecycle runs. *)
EXTENDS Boards, TLC

CONSTANTS o1, o2, r1, r2, s1, s2

OneOrder == {o1}
TwoOrders == {o1, o2}
OneRider == {r1}
TwoRiders == {r1, r2}
TwoSessions == {s1, s2}
NoOrders == {}

SecondOrder == {o2}

AllHandlers == Handlers

\* Everything but wrong codes and dispatch, which assigns as an operator does.
SerialHandlers == Handlers \ {"miss", "dispatch"}

\* Who takes what, and what opens an order to offers or closes it.
OfferHandlers == {"accept", "reject", "ready", "claim", "shift"}

RaceSymmetry == Permutations(TwoRiders) \cup Permutations(TwoSessions)
=============================================================================
