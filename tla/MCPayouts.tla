------------------------------ MODULE MCPayouts ------------------------------
(* The constants of the Payouts run. *)
EXTENDS Payouts, TLC

CONSTANTS p1, p2, s1, s2

TwoPayees == {p1, p2}
TwoSessions == {s1, s2}

SessionSymmetry == Permutations(TwoSessions)
=============================================================================
