----------------------------- MODULE MCPlacement -----------------------------
(* The constants of the Placement runs. *)
EXTENDS Placement

CONSTANTS u1, k1, l1, l2, s1, s2

OneUser == {u1}
OneKey == {k1}
OneLine == {l1}
TwoLines == {l1, l2}
TwoSessions == {s1, s2}

\* One customer makes every key and adds every line.
OneOwner == [k \in Keys |-> u1]
OneEater == [l \in Lines |-> u1]
=============================================================================
