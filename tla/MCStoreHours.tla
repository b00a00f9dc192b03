----------------------------- MODULE MCStoreHours -----------------------------
(* The constants of the StoreHours runs: weeks of two days of three minutes. *)
EXTENDS StoreHours

CONSTANT s1

OneSession == {s1}

\* <<first day, second day>> as a schedule of a two-day week.
Week(first, second) == [d \in Weekdays |-> IF d = 0 THEN first ELSE second]

\* Trading past midnight into a day that opens before the first has closed.
Overlap == Week(<<2, 1>>, <<0, 2>>)
\* From the week's end into its first day.
RoundTheWeek == Week(Shut, <<2, 1>>)

TwoSchedules == {Overlap, RoundTheWeek}
=============================================================================
