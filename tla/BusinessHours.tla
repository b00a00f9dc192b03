---------------------------- MODULE BusinessHours ----------------------------
(***************************************************************************)
(* When a store's own weekly schedule says it is open, and when it next    *)
(* opens or closes (app/services/business_hours.py); which times it offers *)
(* for an order and takes (customer/account.py, customer/orders.py).       *)
(* Instants are whole minutes since some Monday's midnight on the business *)
(* clock; the day and the week have any length, so that TLC can use short  *)
(* ones.                                                                   *)
(***************************************************************************)
EXTENDS Integers

CONSTANTS
    DayLength, DaysPerWeek,
    LeadMinutes, DaysAhead  \* SCHEDULE_MIN_LEAD_MINUTES, SCHEDULE_MAX_DAYS_AHEAD

ASSUME CalendarAssumption ==
    /\ DayLength \in Nat \ {0} /\ DaysPerWeek \in Nat \ {0}
    /\ LeadMinutes \in Nat /\ DaysAhead \in Nat \ {0}

WeekLength == DayLength * DaysPerWeek
Weekdays == 0..(DaysPerWeek - 1)
Minutes == 0..(DayLength - 1)

\* A weekday the store does not trade.
Shut == <<>>
Never == -1

\* A schedule: <<opens, closes>> of each trading day, never equal.
Schedule == [Weekdays -> {Shut} \cup {p \in Minutes \X Minutes : p[1] # p[2]}]

\* The open period that begins on `day`; one that closes at or before it opens
\* runs past midnight.
SpanStarting(hours, day) ==
    LET entry == hours[day % DaysPerWeek] IN
    IF entry = Shut THEN {}
    ELSE {[start |-> day * DayLength + entry[1],
           end |-> (IF entry[2] <= entry[1] THEN day + 1 ELSE day) * DayLength + entry[2]]}

\* Mutant of IsOpenAt: last night's period is forgotten at midnight.
IsOpenToday(hours, at) ==
    \E span \in SpanStarting(hours, at \div DayLength) : span.start <= at /\ at < span.end

\* Today's period, and yesterday's in case it runs past midnight.
IsOpenAt(hours, at) ==
    \E day \in {at \div DayLength - 1, at \div DayLength} :
        \E span \in SpanStarting(hours, day) : span.start <= at /\ at < span.end

Moments(hours, at) ==
    UNION {{span.start, span.end} : span \in
        UNION {SpanStarting(hours, at \div DayLength + offset) : offset \in -1..DaysPerWeek}}

\* Mutant of NextChange: the first opening or closing time, whether or not the
\* store really changes then (a period may begin inside another).
NextMoment(hours, at) ==
    LET later == {m \in Moments(hours, at) : m > at}
    IN  IF later = {} THEN Never ELSE CHOOSE m \in later : \A n \in later : m <= n

\* The first moment after `at` at which the store is not as it is now.
NextChange(hours, at) ==
    LET flips == {m \in Moments(hours, at) :
                     m > at /\ IsOpenAt(hours, m) # IsOpenAt(hours, at)}
    IN  IF flips = {} THEN Never ELSE CHOOSE m \in flips : \A n \in flips : m <= n

(***************************************************************************)
(* Orders for later                                                        *)
(***************************************************************************)
\* The Schedule Order sheet, in slots of a minute: the periods that begin today and
\* on the days after it, and in them what is not too soon.
schedule_options(hours, at) ==
    {slot \in UNION {span.start..(span.end - 1) : span \in
                UNION {SpanStarting(hours, at \div DayLength + day) : day \in 0..(DaysAhead - 1)}} :
        slot >= at + LeadMinutes}

\* Mutant of _validate_schedule: the lead is to be exceeded.
ValidateStrictly(hours, at, slot) ==
    slot > at + LeadMinutes /\ slot <= at + DaysAhead * DayLength /\ IsOpenAt(hours, slot)

\* What place_order takes.
_validate_schedule(hours, at, slot) ==
    slot >= at + LeadMinutes /\ slot <= at + DaysAhead * DayLength /\ IsOpenAt(hours, slot)

(***************************************************************************)
(* Reference definitions: the same, minute by minute                       *)
(***************************************************************************)
\* Walk back minute by minute from `at` to the opening time that covers it.
OpenByTheClock(hours, at) == \E ago \in 0..(DayLength - 1) :
    LET opened == at - ago
        entry == hours[(opened \div DayLength) % DaysPerWeek]
    IN  /\ entry # Shut
        /\ opened % DayLength = entry[1]
        /\ ago < (entry[2] - entry[1]) % DayLength

\* Walk forward minute by minute to the first that differs from `at`.
ChangeByTheClock(hours, at) ==
    LET flips == {m \in (at + 1)..(at + WeekLength) :
                     OpenByTheClock(hours, m) # OpenByTheClock(hours, at)}
    IN  IF flips = {} THEN Never ELSE CHOOSE m \in flips : \A n \in flips : m <= n

\* The minutes of the week at which some schedule announces a wrong change.
WrongChange == {at \in 0..(WeekLength - 1) : \E hours \in Schedule :
    NextChange(hours, at) # ChangeByTheClock(hours, at)}
=============================================================================
