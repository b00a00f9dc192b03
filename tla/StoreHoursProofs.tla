--------------------------- MODULE StoreHoursProofs ---------------------------
(***************************************************************************)
(* What holds of a store's switch for every week's hours, length of week   *)
(* and number of sessions: the worker's pass leaves the store as its hours *)
(* say, and a toggle is not taken back.                                    *)
(***************************************************************************)
EXTENDS StoreHours, WellFoundedInduction, TLAPS

(***************************************************************************)
(* The schedule                                                            *)
(***************************************************************************)
\* Division with remainder, for every divisor.
LEMMA Divided ==
    ASSUME NEW D \in Nat \ {0}, NEW x \in Int
    PROVE  /\ x \div D \in Int /\ (x % D) \in 0..(D - 1)
           /\ x = (x \div D) * D + (x % D)
OBVIOUS

\* A multiple of a number is no smaller than it.
LEMMA Apart ==
    ASSUME NEW D \in Nat \ {0}, NEW d \in Int, d >= 1
    PROVE  d * D >= D
OBVIOUS

\* Quotient and remainder are what they are, and nothing else.
LEMMA Unique ==
    ASSUME NEW D \in Nat \ {0}, NEW q \in Int, NEW r \in 0..(D - 1)
    PROVE  (q * D + r) \div D = q /\ (q * D + r) % D = r
<1> DEFINE x == q * D + r
           k == x \div D
           m == x % D
<1>1. k \in Int /\ m \in 0..(D - 1) /\ x = k * D + m
  BY Divided
<1> HIDE DEF k, m
<1>2. (k - q) * D = r - m /\ (q - k) * D = m - r
  BY <1>1
<1>3. ~(k - q >= 1) /\ ~(q - k >= 1)
  BY <1>1, <1>2, Apart
<1>4. k = q
  BY <1>1, <1>3
<1>5. m = r
  BY <1>1, <1>4
<1> QED BY <1>4, <1>5 DEF k, m

\* The minutes from one time of day to another, through midnight if need be.
LEMMA Across ==
    ASSUME NEW D \in Nat \ {0}, NEW o \in 0..(D - 1), NEW c \in 0..(D - 1), o # c
    PROVE  (c - o) % D = IF c > o THEN c - o ELSE c - o + D
<1>1. CASE c > o
  <2>1. (0 * D + (c - o)) % D = c - o
    BY <1>1, Unique
  <2> QED BY <1>1, <2>1
<1>2. CASE c < o
  <2>1. (c - o) + D \in 0..(D - 1)
    BY <1>2
  <2>2. ((0 - 1) * D + (c - o + D)) % D = c - o + D
    BY <2>1, Unique
  <2>3. (0 - 1) * D + (c - o + D) = c - o
    OBVIOUS
  <2> QED BY <1>2, <2>2, <2>3
<1> QED BY <1>1, <1>2

\* What is_open_at works out from today's period and yesterday's is what a walk
\* back minute by minute finds, for every week of hours and every minute.
THEOREM ClockAgrees ==
    ASSUME CalendarAssumption, NEW hours \in Schedule, NEW at \in Int
    PROVE  IsOpenAt(hours, at) <=> OpenByTheClock(hours, at)
<1> DEFINE D == DayLength
           q == at \div D
           r == at % D
           entry(day) == hours[day % DaysPerWeek]
           Covers(day) == /\ entry(day) # Shut
                          /\ day * D + entry(day)[1] <= at
                          /\ at < (IF entry(day)[2] <= entry(day)[1] THEN day + 1 ELSE day) * D
                                  + entry(day)[2]
<1>1. D \in Nat \ {0}
  BY DEF CalendarAssumption
<1>2. q \in Int /\ r \in 0..(D - 1) /\ at = q * D + r
  BY <1>1, Divided
<1>3. ASSUME NEW day \in Int, entry(day) # Shut
      PROVE  /\ entry(day)[1] \in 0..(D - 1) /\ entry(day)[2] \in 0..(D - 1)
             /\ entry(day)[1] # entry(day)[2]
  <2>1. day % DaysPerWeek \in Weekdays
    BY Divided DEF CalendarAssumption, Weekdays
  <2>2. entry(day) \in Minutes \X Minutes /\ entry(day)[1] # entry(day)[2]
    BY <1>3, <2>1 DEF Schedule
  <2> QED BY <2>2 DEF Minutes
<1>4. IsOpenAt(hours, at) <=> Covers(q - 1) \/ Covers(q)
  <2>1. ASSUME NEW day
        PROVE  (\E span \in SpanStarting(hours, day) : span.start <= at /\ at < span.end)
                  <=> Covers(day)
    <3>1. CASE entry(day) = Shut
      BY <3>1 DEF SpanStarting
    <3>2. CASE entry(day) # Shut
      <4> DEFINE span == [start |-> day * D + entry(day)[1],
                          end |-> (IF entry(day)[2] <= entry(day)[1] THEN day + 1 ELSE day) * D
                                  + entry(day)[2]]
      <4>1. SpanStarting(hours, day) = {span}
        BY <3>2 DEF SpanStarting
      <4> QED BY <3>2, <4>1
    <3> QED BY <3>1, <3>2
  <2> QED BY <2>1 DEF IsOpenAt
<1>5. OpenByTheClock(hours, at) <=>
        \E ago \in 0..(D - 1) :
            /\ entry((at - ago) \div D) # Shut
            /\ (at - ago) % D = entry((at - ago) \div D)[1]
            /\ ago < (entry((at - ago) \div D)[2] - entry((at - ago) \div D)[1]) % D
  BY DEF OpenByTheClock
<1> HIDE DEF D, q, r, entry
<1>6. ASSUME NEW day \in {q - 1, q}, Covers(day)
      PROVE  OpenByTheClock(hours, at)
  <2> DEFINE o == entry(day)[1]
             c == entry(day)[2]
             ago == at - (day * D + o)
  <2>1. day \in Int /\ o \in 0..(D - 1) /\ c \in 0..(D - 1) /\ o # c /\ entry(day) # Shut
    BY <1>2, <1>3, <1>6
  <2>2. day * D + o <= at /\ at < (IF c <= o THEN day + 1 ELSE day) * D + c
    BY <1>6
  <2>3. at - ago = day * D + o
    BY <1>1, <1>2, <2>1
  <2>4. (at - ago) \div D = day /\ (at - ago) % D = o
    BY <1>1, <2>1, <2>3, Unique
  <2> HIDE DEF o, c
  <2>5. day * D = q * D \/ day * D = q * D - D
    BY <1>1, <1>2
  <2>6. (day + 1) * D = day * D + D
    BY <1>1, <2>1
  <2> DEFINE start == day * D
  <2>7. start \in Int /\ (start = q * D \/ start = q * D - D)
    BY <1>1, <2>1, <2>5
  <2>8. start + o <= at /\ at < start + c + (IF c <= o THEN D ELSE 0)
    BY <1>1, <2>1, <2>2, <2>6
  <2>9. ago = at - start - o
    BY <1>1, <1>2, <2>1
  <2> HIDE DEF start, ago
  <2>10. ago \in 0..(D - 1) /\ ago < (IF c > o THEN c - o ELSE c - o + D)
    BY <1>1, <1>2, <2>1, <2>7, <2>8, <2>9
  <2>11. ago < (c - o) % D
    BY <1>1, <2>1, <2>10, Across
  <2> QED BY <1>5, <2>1, <2>4, <2>10, <2>11 DEF o, c
<1>7. ASSUME NEW ago \in 0..(D - 1),
             entry((at - ago) \div D) # Shut,
             (at - ago) % D = entry((at - ago) \div D)[1],
             ago < (entry((at - ago) \div D)[2] - entry((at - ago) \div D)[1]) % D
      PROVE  Covers(q - 1) \/ Covers(q)
  <2> DEFINE day == (at - ago) \div D
             o == entry(day)[1]
             c == entry(day)[2]
  <2>1. at - ago \in Int /\ at \in Int
    BY <1>1
  <2>2. day \in Int /\ at - ago = day * D + o
    BY <1>1, <1>7, <2>1, Divided
  <2> HIDE DEF day
  <2>3. o \in 0..(D - 1) /\ c \in 0..(D - 1) /\ o # c /\ entry(day) # Shut
    BY <1>3, <1>7, <2>2 DEF day
  <2>4. ago < (IF c > o THEN c - o ELSE c - o + D)
    BY <1>1, <1>7, <2>3, Across DEF day
  <2> HIDE DEF o, c
  <2>5. day \in {q - 1, q}
    <3>1. (day - q) * D = r - o - ago /\ (q - 1 - day) * D = o + ago - r - D
      BY <1>1, <1>2, <2>1, <2>2, <2>3
    <3>2. ~(day - q >= 1) /\ ~(q - 1 - day >= 1)
      BY <1>1, <1>2, <2>2, <2>3, <3>1, Apart
    <3> QED BY <1>2, <2>2, <3>2
  <2>6. (day + 1) * D = day * D + D
    BY <1>1, <2>2
  <2> DEFINE start == day * D
  <2>7. start \in Int /\ at = start + o + ago /\ (day + 1) * D = start + D
    BY <1>1, <2>1, <2>2, <2>3, <2>6
  <2> HIDE DEF start
  <2>8. start + o <= at /\ (c > o => at < start + c) /\ (c <= o => at < start + D + c)
    BY <1>1, <2>3, <2>4, <2>7
  <2>9. Covers(day)
    BY <2>3, <2>7, <2>8 DEF o, c, start
  <2> QED BY <2>5, <2>9
<1> QED BY <1>4, <1>5, <1>6, <1>7

\* The period that begins on a day holds this minute.
Holds(hours, day, at) ==
    LET entry == hours[day % DaysPerWeek] IN
    /\ entry # Shut
    /\ day * DayLength + entry[1] <= at
    /\ at < (IF entry[2] <= entry[1] THEN day + 1 ELSE day) * DayLength + entry[2]

LEMMA Entries ==
    ASSUME CalendarAssumption, NEW hours \in Schedule, NEW day \in Int
    PROVE  hours[day % DaysPerWeek] # Shut =>
              \E o, c \in 0..(DayLength - 1) :
                  hours[day % DaysPerWeek] = <<o, c>> /\ o # c
<1>1. day % DaysPerWeek \in Weekdays
  BY Divided DEF CalendarAssumption, Weekdays
<1>2. hours[day % DaysPerWeek] # Shut =>
        /\ hours[day % DaysPerWeek] \in Minutes \X Minutes
        /\ hours[day % DaysPerWeek][1] # hours[day % DaysPerWeek][2]
  BY <1>1 DEF Schedule
<1> QED BY <1>2 DEF Minutes

\* A period as numbers: where its day starts, and how far into it the period goes.
LEMMA Period ==
    ASSUME CalendarAssumption, NEW hours \in Schedule, NEW day \in Int,
           hours[day % DaysPerWeek] # Shut
    PROVE  \E start, end \in Int :
              /\ day * DayLength <= start /\ start < (day + 1) * DayLength
              /\ start < end /\ end < (day + 2) * DayLength
              /\ SpanStarting(hours, day) = {[start |-> start, end |-> end]}
              /\ \A at \in Int : Holds(hours, day, at) <=> start <= at /\ at < end
<1>1. PICK o, c \in 0..(DayLength - 1) : hours[day % DaysPerWeek] = <<o, c>> /\ o # c
  BY Entries
<1>2. PICK base \in Int : base = day * DayLength
  BY DEF CalendarAssumption
<1>3. (day + 1) * DayLength = base + DayLength /\ (day + 2) * DayLength = base + 2 * DayLength
  BY <1>2 DEF CalendarAssumption
<1> DEFINE start == base + o
           end == (IF c <= o THEN base + DayLength ELSE base) + c
<1>4. start \in Int /\ end \in Int /\ DayLength \in Nat
  BY DEF CalendarAssumption
<1>5. /\ base <= start /\ start < base + DayLength
      /\ start < end /\ end < base + 2 * DayLength
  BY <1>1, <1>4
<1>6. (IF c <= o THEN day + 1 ELSE day) * DayLength + c = end
  BY <1>2, <1>3
<1>7. SpanStarting(hours, day) = {[start |-> start, end |-> end]}
  BY <1>1, <1>2, <1>6 DEF SpanStarting
<1>8. \A at \in Int : Holds(hours, day, at) <=> start <= at /\ at < end
  BY <1>1, <1>2, <1>6 DEF Holds
<1> HIDE DEF start, end
<1> QED BY <1>2, <1>3, <1>4, <1>5, <1>7, <1>8

\* The day of a later minute is no earlier one.
LEMMA Later ==
    ASSUME NEW D \in Nat \ {0}, NEW x \in Int, NEW y \in Int, x <= y
    PROVE  x \div D <= y \div D
<1>1. /\ x \div D \in Int /\ (x % D) \in 0..(D - 1) /\ x = (x \div D) * D + (x % D)
      /\ y \div D \in Int /\ (y % D) \in 0..(D - 1) /\ y = (y \div D) * D + (y % D)
  BY Divided
<1> DEFINE p == x \div D
           q == y \div D
<1> HIDE DEF p, q
<1>2. (p - q) * D <= D - 1
  <2>1. (p - q) * D = x - (x % D) - (y - (y % D))
    BY <1>1 DEF p, q
  <2> QED BY <1>1, <2>1
<1>3. ~(p - q >= 1)
  BY <1>1, <1>2, Apart DEF p, q
<1> QED BY <1>1, <1>3 DEF p, q

\* A store is open while the period of some day holds; that day is today or yesterday.
LEMMA OpenIsHeld ==
    ASSUME CalendarAssumption, NEW hours \in Schedule, NEW at \in Int
    PROVE  /\ IsOpenAt(hours, at) <=> \E day \in Int : Holds(hours, day, at)
           /\ \A day \in Int : Holds(hours, day, at) =>
                 day \in {at \div DayLength - 1, at \div DayLength}
<1> DEFINE q == at \div DayLength
<1>1. q \in Int /\ DayLength \in Nat \ {0} /\ at = q * DayLength + (at % DayLength)
      /\ at % DayLength \in 0..(DayLength - 1)
  BY Divided DEF CalendarAssumption
<1>2. ASSUME NEW day \in Int
      PROVE  (\E span \in SpanStarting(hours, day) : span.start <= at /\ at < span.end)
                <=> Holds(hours, day, at)
  <2>1. CASE hours[day % DaysPerWeek] = Shut
    BY <2>1 DEF SpanStarting, Holds
  <2>2. CASE hours[day % DaysPerWeek] # Shut
    <3>1. PICK start, end \in Int :
              /\ SpanStarting(hours, day) = {[start |-> start, end |-> end]}
              /\ \A x \in Int : Holds(hours, day, x) <=> start <= x /\ x < end
      BY <2>2, Period
    <3> QED BY <3>1
  <2> QED BY <2>1, <2>2
<1>3. ASSUME NEW day \in Int, Holds(hours, day, at) PROVE day \in {q - 1, q}
  <2>1. hours[day % DaysPerWeek] # Shut
    BY <1>3 DEF Holds
  <2>2. PICK start, end \in Int :
              /\ day * DayLength <= start /\ start < (day + 1) * DayLength
              /\ start < end /\ end < (day + 2) * DayLength
              /\ SpanStarting(hours, day) = {[start |-> start, end |-> end]}
              /\ \A x \in Int : Holds(hours, day, x) <=> start <= x /\ x < end
    BY <2>1, Period
  <2>3. start <= at /\ at < end
    BY <1>3, <2>2
  <2>4. PICK base \in Int : base = day * DayLength
    BY <1>1
  <2>5. (day + 2) * DayLength = base + 2 * DayLength
    BY <1>1, <2>4
  <2>6. base <= at /\ at < base + 2 * DayLength
    BY <1>1, <2>2, <2>3, <2>4, <2>5
  <2>7. /\ (day - q) * DayLength = base - (at - (at % DayLength))
        /\ (q - 1 - day) * DayLength = at - (at % DayLength) - DayLength - base
    BY <1>1, <2>4
  <2>8. (day - q) * DayLength < DayLength /\ (q - 1 - day) * DayLength < DayLength
    BY <1>1, <2>4, <2>6, <2>7
  <2>9. ~(day - q >= 1) /\ ~(q - 1 - day >= 1)
    <3>1. (day - q) * DayLength \in Int /\ (q - 1 - day) * DayLength \in Int
      BY <1>1
    <3> QED BY <1>1, <2>8, <3>1, Apart
  <2> QED BY <1>1, <2>9
<1>4. IsOpenAt(hours, at) <=> Holds(hours, q - 1, at) \/ Holds(hours, q, at)
  BY <1>1, <1>2 DEF IsOpenAt
<1> HIDE DEF q
<1>5. IsOpenAt(hours, at) <=> \E day \in Int : Holds(hours, day, at)
  BY <1>1, <1>3, <1>4
<1> QED BY <1>3, <1>5 DEF q

\* Whole weeks on, the store is as it was.
LEMMA Weekly ==
    ASSUME CalendarAssumption, NEW hours \in Schedule, NEW at \in Int, NEW k \in Int
    PROVE  IsOpenAt(hours, at + k * WeekLength) <=> IsOpenAt(hours, at)
<1> DEFINE p == k * DaysPerWeek
<1>1. /\ DayLength \in Nat \ {0} /\ DaysPerWeek \in Nat \ {0} /\ p \in Int
      /\ k * WeekLength = p * DayLength
  BY DEF CalendarAssumption, WeekLength
<1>2. ASSUME NEW day \in Int PROVE (day + p) % DaysPerWeek = day % DaysPerWeek
  <2>1. /\ day \div DaysPerWeek \in Int /\ day % DaysPerWeek \in 0..(DaysPerWeek - 1)
        /\ day = (day \div DaysPerWeek) * DaysPerWeek + (day % DaysPerWeek)
    BY <1>1, Divided
  <2>2. PICK a \in Int, b \in 0..(DaysPerWeek - 1) :
            a = day \div DaysPerWeek /\ b = day % DaysPerWeek
    BY <2>1
  <2>3. PICK c \in Int : c = a + k
    OBVIOUS
  <2>4. day + p = c * DaysPerWeek + b /\ (c * DaysPerWeek + b) % DaysPerWeek = b
    <3>1. (c * DaysPerWeek + b) % DaysPerWeek = b
      BY <1>1, <2>2, Unique
    <3> QED BY <1>1, <2>1, <2>2, <2>3, <3>1
  <2> QED BY <2>2, <2>4
<1> HIDE DEF p
<1>3. ASSUME NEW day \in Int
      PROVE  Holds(hours, day + p, at + p * DayLength) <=> Holds(hours, day, at)
  <2>1. hours[(day + p) % DaysPerWeek] = hours[day % DaysPerWeek]
    BY <1>2
  <2>2. PICK move \in Int : move = p * DayLength
    BY <1>1
  <2>3. PICK base \in Int : base = day * DayLength
    BY <1>1
  <2>4. /\ (day + p) * DayLength = base + move
        /\ (day + p + 1) * DayLength = base + move + DayLength
        /\ (day + 1) * DayLength = base + DayLength
    BY <1>1, <2>2, <2>3
  <2>5. CASE hours[day % DaysPerWeek] = Shut
    BY <2>1, <2>5 DEF Holds
  <2>6. CASE hours[day % DaysPerWeek] # Shut
    <3>1. PICK o, c \in 0..(DayLength - 1) : hours[day % DaysPerWeek] = <<o, c>> /\ o # c
      BY <2>6, Entries
    <3>2. Holds(hours, day, at) <=>
            base + o <= at /\ at < (IF c <= o THEN base + DayLength ELSE base) + c
      <4>1. (IF c <= o THEN day + 1 ELSE day) * DayLength =
                IF c <= o THEN base + DayLength ELSE base
        BY <2>3, <2>4
      <4>2. Holds(hours, day, at) <=>
                /\ day * DayLength + o <= at
                /\ at < (IF c <= o THEN day + 1 ELSE day) * DayLength + c
        BY <2>6, <3>1 DEF Holds
      <4> QED BY <2>3, <4>1, <4>2
    <3>3. Holds(hours, day + p, at + move) <=>
            /\ base + move + o <= at + move
            /\ at + move < (IF c <= o THEN base + move + DayLength ELSE base + move) + c
      <4>1. (IF c <= o THEN day + p + 1 ELSE day + p) * DayLength =
                IF c <= o THEN base + move + DayLength ELSE base + move
        BY <2>4
      <4>2. Holds(hours, day + p, at + move) <=>
                /\ (day + p) * DayLength + o <= at + move
                /\ at + move < (IF c <= o THEN day + p + 1 ELSE day + p) * DayLength + c
        BY <2>1, <2>6, <3>1 DEF Holds
      <4> QED BY <2>4, <4>1, <4>2
    <3> QED BY <1>1, <2>2, <3>1, <3>2, <3>3
  <2> QED BY <2>5, <2>6
<1>4. at + p * DayLength \in Int
  BY <1>1
<1>5. (\E day \in Int : Holds(hours, day, at + p * DayLength)) <=>
        \E day \in Int : Holds(hours, day, at)
  <2>1. ASSUME NEW day \in Int, Holds(hours, day, at + p * DayLength)
        PROVE  \E d \in Int : Holds(hours, d, at)
    <3>1. day - p \in Int /\ (day - p) + p = day
      BY <1>1
    <3> QED BY <1>3, <2>1, <3>1
  <2>2. ASSUME NEW day \in Int, Holds(hours, day, at)
        PROVE  \E d \in Int : Holds(hours, d, at + p * DayLength)
    <3>1. day + p \in Int
      BY <1>1
    <3> QED BY <1>3, <2>2, <3>1
  <2> QED BY <2>1, <2>2
<1> QED BY <1>1, <1>4, <1>5, OpenIsHeld

\* A store changes only where a period begins or ends, and within a week those are the
\* moments next_change looks at.
LEMMA ChangesAtMoments ==
    ASSUME CalendarAssumption, NEW hours \in Schedule, NEW at \in Int,
           NEW m \in (at + 1)..(at + WeekLength),
           ~(IsOpenAt(hours, m) <=> IsOpenAt(hours, m - 1))
    PROVE  m \in Moments(hours, at)
<1> DEFINE d == at \div DayLength
<1>1. /\ DayLength \in Nat \ {0} /\ DaysPerWeek \in Nat \ {0} /\ d \in Int
      /\ WeekLength \in Int /\ m \in Int /\ m - 1 \in Int /\ at <= m - 1 /\ m <= at + WeekLength
  BY Divided DEF CalendarAssumption, WeekLength
<1>2. (at + WeekLength) \div DayLength = d + DaysPerWeek
  <2>1. at = d * DayLength + (at % DayLength) /\ at % DayLength \in 0..(DayLength - 1)
    BY <1>1, Divided
  <2>2. PICK q \in Int, r \in 0..(DayLength - 1) : q = d + DaysPerWeek /\ r = at % DayLength
    BY <1>1, <2>1
  <2>3. at + WeekLength = q * DayLength + r
    BY <1>1, <2>1, <2>2 DEF WeekLength
  <2> QED BY <1>1, <2>2, <2>3, Unique
<1>3. /\ d <= (m - 1) \div DayLength /\ (m - 1) \div DayLength \in Int
      /\ d <= m \div DayLength /\ m \div DayLength \in Int
      /\ (m - 1) \div DayLength <= d + DaysPerWeek /\ m \div DayLength <= d + DaysPerWeek
  <2> DEFINE z == at + WeekLength
  <2>1. z \in Int /\ at <= m /\ m - 1 <= z /\ m <= z /\ z \div DayLength = d + DaysPerWeek
    BY <1>1, <1>2
  <2> HIDE DEF z
  <2>2. (m - 1) \div DayLength \in Int /\ m \div DayLength \in Int
    BY <1>1, Divided
  <2>3. d <= (m - 1) \div DayLength /\ d <= m \div DayLength
    BY <1>1, <2>1, Later
  <2>4. (m - 1) \div DayLength <= z \div DayLength /\ m \div DayLength <= z \div DayLength
    BY <1>1, <2>1, Later
  <2> QED BY <2>1, <2>2, <2>3, <2>4
<1>4. PICK day \in Int :
        ~(Holds(hours, day, m) <=> Holds(hours, day, m - 1))
  BY <1>1, OpenIsHeld
<1>5. day \in (d - 1)..(d + DaysPerWeek)
  <2>1. Holds(hours, day, m) \/ Holds(hours, day, m - 1)
    BY <1>4
  <2>2. \/ day \in {m \div DayLength - 1, m \div DayLength}
        \/ day \in {(m - 1) \div DayLength - 1, (m - 1) \div DayLength}
    BY <1>1, <2>1, OpenIsHeld
  <2> HIDE DEF d
  <2> QED BY <1>1, <1>3, <2>2
<1>6. hours[day % DaysPerWeek] # Shut
  BY <1>4 DEF Holds
<1>7. PICK start, end \in Int :
              /\ start < end
              /\ SpanStarting(hours, day) = {[start |-> start, end |-> end]}
              /\ \A x \in Int : Holds(hours, day, x) <=> start <= x /\ x < end
  BY <1>6, Period
<1>8. m = start \/ m = end
  BY <1>1, <1>4, <1>7
<1>9. m \in {start, end} /\ [start |-> start, end |-> end] \in SpanStarting(hours, day)
  BY <1>7, <1>8
<1>10. day - d \in -1..DaysPerWeek /\ d + (day - d) = day
  BY <1>1, <1>5
<1> QED BY <1>9, <1>10 DEF Moments

\* A set of later minutes has an earliest.
LEMMA Earliest ==
    ASSUME NEW at \in Int, NEW S, \A m \in S : m \in Int /\ m > at, NEW x \in S
    PROVE  \E m \in S : \A n \in S : m <= n
<1> DEFINE T == {m - at : m \in S}
<1>1. T \subseteq Nat /\ T # {}
  OBVIOUS
<1> HIDE DEF T
<1>2. PICK t \in T : \A u \in T : <<u, t>> \notin OpToRel(<, Nat)
  BY <1>1, WFMin, NatLessThanWellFounded, Zenon
<1>3. \A u \in T : ~(u < t)
  BY <1>1, <1>2, Zenon DEF OpToRel
<1>4. PICK m \in S : t = m - at
  BY DEF T
<1>5. ASSUME NEW n \in S PROVE m <= n
  <2>1. n - at \in T
    BY DEF T
  <2>2. ~(n - at < m - at)
    BY <1>3, <1>4, <2>1
  <2> QED BY <2>2
<1> QED BY <1>5

\* The next change that is announced is the first there is, for every week of hours and
\* every minute.
THEOREM ChangeAgrees ==
    ASSUME CalendarAssumption, NEW hours \in Schedule, NEW at \in Int
    PROVE  NextChange(hours, at) = ChangeByTheClock(hours, at)
<1> DEFINE Differs(m) == IsOpenAt(hours, m) # IsOpenAt(hours, at)
           F == {m \in Moments(hours, at) : m > at /\ Differs(m)}
           G == {m \in (at + 1)..(at + WeekLength) : Differs(m)}
<1>1. WeekLength \in Nat \ {0} /\ at + WeekLength \in Int
  BY DEF CalendarAssumption, WeekLength
<1>2. Moments(hours, at) \subseteq Int
  <2>1. ASSUME NEW day \in Int PROVE \A span \in SpanStarting(hours, day) :
                                        span.start \in Int /\ span.end \in Int
    <3>1. CASE hours[day % DaysPerWeek] = Shut
      BY <3>1 DEF SpanStarting
    <3>2. CASE hours[day % DaysPerWeek] # Shut
      BY <3>2, Period
    <3> QED BY <3>1, <3>2
  <2>2. \A offset \in -1..DaysPerWeek : at \div DayLength + offset \in Int
    <3>1. at \div DayLength \in Int
      BY Divided DEF CalendarAssumption
    <3> QED BY <3>1
  <2> QED BY <2>1, <2>2 DEF Moments
<1>3. G = {m \in (at + 1)..(at + WeekLength) : OpenByTheClock(hours, m) # OpenByTheClock(hours, at)}
  <2>1. \A m \in Int : IsOpenAt(hours, m) = OpenByTheClock(hours, m)
    <3>1. \A m \in Int : IsOpenAt(hours, m) <=> OpenByTheClock(hours, m)
      BY ClockAgrees
    <3> QED BY <3>1 DEF IsOpenAt, OpenByTheClock
  <2> QED BY <1>1, <2>1
<1>4. ASSUME NEW f \in F PROVE \E g \in G : g <= f
  <2>1. f \in Int /\ f > at /\ Differs(f)
    BY <1>2
  <2> DEFINE k == (f - at - 1) \div WeekLength
             r == (f - at - 1) % WeekLength
             g == at + 1 + r
  <2>2. k \in Int /\ r \in 0..(WeekLength - 1) /\ f - at - 1 = k * WeekLength + r
    BY <1>1, <2>1, Divided
  <2> HIDE DEF k, r
  <2>3. k >= 0
    <3>1. ~((0 - k) >= 1)
      <4>1. (0 - k) * WeekLength = r - (f - at - 1)
        BY <1>1, <2>1, <2>2
      <4>2. (0 - k) * WeekLength < WeekLength
        BY <1>1, <2>1, <2>2, <4>1
      <4>3. (0 - k) * WeekLength \in Int
        BY <1>1, <2>2
      <4> QED BY <1>1, <2>2, <4>2, <4>3, Apart
    <3> QED BY <2>2, <3>1
  <2>4. g \in (at + 1)..(at + WeekLength) /\ g \in Int /\ f = g + k * WeekLength
    BY <1>1, <2>1, <2>2
  <2>5. IsOpenAt(hours, f) <=> IsOpenAt(hours, g)
    BY <2>2, <2>4, Weekly
  <2>6. Differs(g)
    BY <2>1, <2>5 DEF IsOpenAt
  <2>7. g <= f
    <3>1. k * WeekLength \in Nat
      BY <1>1, <2>2, <2>3
    <3> QED BY <2>4, <3>1
  <2> QED BY <2>4, <2>6, <2>7
<1>5. ASSUME NEW g \in G, \A n \in G : g <= n PROVE g \in F
  <2>1. g \in (at + 1)..(at + WeekLength) /\ Differs(g) /\ g - 1 \in Int
    BY <1>1
  <2>2. ~Differs(g - 1)
    <3>1. CASE g = at + 1
      BY <3>1
    <3>2. CASE g # at + 1
      <4>1. g - 1 \in (at + 1)..(at + WeekLength) /\ ~(g <= g - 1)
        BY <1>1, <2>1, <3>2
      <4> QED BY <1>5, <4>1
    <3> QED BY <3>1, <3>2
  <2>3. g \in Moments(hours, at)
    <3>1. ~(IsOpenAt(hours, g) <=> IsOpenAt(hours, g - 1))
      BY <2>1, <2>2 DEF IsOpenAt
    <3> QED BY <2>1, <3>1, ChangesAtMoments
  <2> QED BY <1>1, <2>1, <2>3
<1>6. \A g \in G : g \in Int /\ g > at
  BY <1>1
<1>7. \A f \in F : f \in Int
  BY <1>2
<1>8. NextChange(hours, at) = IF F = {} THEN Never ELSE CHOOSE m \in F : \A n \in F : m <= n
  BY DEF NextChange
<1>9. ChangeByTheClock(hours, at) = IF G = {} THEN Never ELSE CHOOSE m \in G : \A n \in G : m <= n
  <2>1. PICK H : H = {m \in (at + 1)..(at + WeekLength) :
                         OpenByTheClock(hours, m) # OpenByTheClock(hours, at)}
    OBVIOUS
  <2>2. ChangeByTheClock(hours, at) =
            IF H = {} THEN Never ELSE CHOOSE m \in H : \A n \in H : m <= n
    BY <2>1 DEF ChangeByTheClock
  <2>3. H = G
    BY <1>3, <2>1
  <2> HIDE DEF G
  <2> QED BY <2>2, <2>3
<1> HIDE DEF F, G
<1>10. CASE G = {}
  BY <1>4, <1>8, <1>9, <1>10
<1>11. CASE G # {}
  <2>1. PICK g \in G : \A n \in G : g <= n
    BY <1>6, <1>11, Earliest
  <2>2. g \in F
    BY <1>5, <2>1
  <2>3. \A n \in F : g <= n
    <3>1. ASSUME NEW n \in F PROVE g <= n
      <4>1. PICK h \in G : h <= n
        BY <1>4
      <4>2. g \in Int /\ h \in Int /\ n \in Int /\ g <= h
        BY <1>6, <1>7, <2>1
      <4> QED BY <4>1, <4>2
    <3> QED BY <3>1
  <2>4. (CHOOSE m \in G : \A n \in G : m <= n) = g
    <3>1. \A m \in G : (\A n \in G : m <= n) => m = g
      BY <1>6, <2>1
    <3> QED BY <2>1, <3>1
  <2>5. (CHOOSE m \in F : \A n \in F : m <= n) = g
    <3>1. \A m \in F : (\A n \in F : m <= n) => m = g
      BY <1>7, <2>2, <2>3
    <3> QED BY <2>2, <2>3, <3>1
  <2> QED BY <1>8, <1>9, <1>11, <2>2, <2>4, <2>5
<1> QED BY <1>10, <1>11

\* Every time the sheet offers within the days ahead is one place_order takes.
LEMMA OffersAreTaken ==
    ASSUME CalendarAssumption, NEW hours \in Schedule, NEW at \in Int,
           NEW slot \in schedule_options(hours, at), slot <= at + DaysAhead * DayLength
    PROVE  _validate_schedule(hours, at, slot)
<1>1. PICK offset \in 0..(DaysAhead - 1) :
          /\ \E span \in SpanStarting(hours, at \div DayLength + offset) :
                slot \in span.start..(span.end - 1)
          /\ slot >= at + LeadMinutes
  BY DEF schedule_options
<1>2. PICK day \in Int : day = at \div DayLength + offset
  <2>1. at \div DayLength \in Int
    BY Divided DEF CalendarAssumption
  <2> QED BY <1>1, <2>1 DEF CalendarAssumption
<1>3. hours[day % DaysPerWeek] # Shut
  BY <1>1, <1>2 DEF SpanStarting
<1>4. PICK start, end \in Int :
              /\ SpanStarting(hours, day) = {[start |-> start, end |-> end]}
              /\ \A x \in Int : Holds(hours, day, x) <=> start <= x /\ x < end
  BY <1>3, Period
<1>5. slot \in start..(end - 1)
  BY <1>1, <1>2, <1>4
<1>6. slot \in Int /\ Holds(hours, day, slot)
  BY <1>4, <1>5
<1>7. IsOpenAt(hours, slot)
  BY <1>6, OpenIsHeld
<1> QED BY <1>1, <1>7 DEF _validate_schedule

(***************************************************************************)
(* The inductive invariant                                                 *)
(***************************************************************************)
\* What a toggle and an operator's (de)activation write.
Narrow(t) ==
    /\ t.kind \in {"toggle", "activate"} =>
          t.new.hours = t.snap.hours /\ t.new.scheduled = t.snap.scheduled
    /\ t.kind = "activate" => t.new.status = t.snap.status

\* A toggle that counts was made with no pass under way and none to come before
\* the hours next change.
Toggled == word # None =>
    store.status = word /\ sweep = None /\ store.hours # None /\ Synced(store)

\* A pass that nothing has overlapped is about the store as it is.
Told ==
    /\ swept => sweep = None /\ Synced(store)
    /\ sweep # None /\ sweep.alone =>
          sweep.answer = Answer(store) /\ sweep.last = store.scheduled

IInv ==
    /\ TypeOK
    /\ \A s \in Sessions : req[s] # None => Narrow(req[s])
    /\ Toggled
    /\ Told

\* A request reads the row and leaves everything else alone.
LEMMA StartStep ==
    ASSUME IInv, NEW s \in Sessions, NEW kind \in Kinds, NEW new \in Store,
           Start(s, kind, new), Narrow([kind |-> kind, snap |-> store, new |-> new])
    PROVE  IInv'
<1> DEFINE t == [kind |-> kind, snap |-> store, new |-> new]
<1>1. t \in Request
  BY DEF IInv, TypeOK, Request
<1>2. req' = [req EXCEPT ![s] = t] /\ UNCHANGED <<now, store, gone, sweep, swept, word>>
  BY DEF Start
<1>3. Narrow(t)
  OBVIOUS
<1> HIDE DEF t
<1>4. TypeOK'
  BY <1>1, <1>2 DEF IInv, TypeOK
<1>5. \A q \in Sessions : req'[q] # None => Narrow(req'[q])
  BY <1>2, <1>3 DEF IInv, TypeOK
<1>6. Toggled' /\ Told'
  BY <1>2 DEF IInv, Toggled, Told, Synced, Answer
<1> QED BY <1>4, <1>5, <1>6 DEF IInv

\* Every handler that moves the switch, as it reads and computes.
LEMMA HandlerStep ==
    ASSUME IInv, StoreAssumption, NEW s \in Sessions,
           \/ \E status \in Switch : SetStoreStatus(s, status)
           \/ \E hours \in Schedules : SetHours(s, hours)
           \/ \E on \in BOOLEAN : SetVerified(s, on) \/ SetActive(s, on)
           \/ CloseStore(s)
    PROVE  IInv'
<1>0. store \in Store
  BY DEF IInv, TypeOK
<1>1. ASSUME NEW status \in Switch, SetStoreStatus(s, status) PROVE IInv'
  <2> DEFINE new == [store EXCEPT !.status = status]
  <2>1. new \in Store /\ new.hours = store.hours /\ new.scheduled = store.scheduled
    BY <1>0 DEF Store
  <2> HIDE DEF new
  <2>2. Start(s, "toggle", new)
    BY <1>1 DEF SetStoreStatus, new
  <2> QED BY <2>1, <2>2, StartStep DEF Narrow, Kinds
<1>2. ASSUME NEW hours \in Schedules, SetHours(s, hours) PROVE IInv'
  <2> DEFINE open == IsOpenAt(hours, now)
             new == [store EXCEPT !.hours = hours, !.scheduled = open,
                                  !.status = IF open THEN "OPEN" ELSE "CLOSED"]
  <2>1. open \in BOOLEAN
    BY DEF IsOpenAt
  <2>2. Start(s, "hours", new)
    BY <1>2 DEF SetHours
  <2> HIDE DEF open
  <2>3. new \in Store
    BY <1>0, <2>1 DEF Store, Switch
  <2> HIDE DEF new
  <2> QED BY <2>2, <2>3, StartStep DEF Narrow, Kinds
<1>3. ASSUME NEW on \in BOOLEAN, SetVerified(s, on) PROVE IInv'
  <2> DEFINE new == [store EXCEPT !.verified = on, !.status = IF on THEN @ ELSE "CLOSED"]
  <2>1. new \in Store
    BY <1>0 DEF Store, Switch
  <2>2. Start(s, "verify", new)
    BY <1>3 DEF SetVerified
  <2> HIDE DEF new
  <2> QED BY <2>1, <2>2, StartStep DEF Narrow, Kinds
<1>4. ASSUME NEW on \in BOOLEAN, SetActive(s, on) PROVE IInv'
  <2> DEFINE new == [store EXCEPT !.active = on]
  <2>1. new \in Store /\ new.hours = store.hours /\ new.scheduled = store.scheduled
        /\ new.status = store.status
    BY <1>0 DEF Store
  <2>2. Start(s, "activate", new)
    BY <1>4 DEF SetActive
  <2> HIDE DEF new
  <2> QED BY <2>1, <2>2, StartStep DEF Narrow, Kinds
<1>5. ASSUME CloseStore(s) PROVE IInv'
  <2> DEFINE new == [store EXCEPT !.active = FALSE, !.status = "CLOSED",
                                  !.hours = None, !.scheduled = None]
  <2>1. new \in Store
    BY <1>0 DEF Store, Switch
  <2>2. Start(s, "close", new)
    BY <1>5 DEF CloseStore
  <2> HIDE DEF new
  <2> QED BY <2>1, <2>2, StartStep DEF Narrow, Kinds
<1> QED BY <1>1, <1>2, <1>3, <1>4, <1>5

\* What a flush leaves of the row, column by column.
LEMMA FlushedRow ==
    ASSUME store \in Store, NEW t \in Request
    PROVE  /\ Flushed(t) \in Store
           /\ Flushed(t).hours = IF t.new.hours # t.snap.hours THEN t.new.hours ELSE store.hours
           /\ Flushed(t).scheduled = IF t.new.scheduled # t.snap.scheduled
                                     THEN t.new.scheduled ELSE store.scheduled
           /\ Flushed(t).status = IF t.new.status # t.snap.status
                                  THEN t.new.status ELSE store.status
<1>1. DOMAIN store = {"hours", "scheduled", "status", "verified", "active"}
  BY DEF Store
<1>2. t.new \in Store /\ t.snap \in Store
  BY DEF Request
<1> QED BY <1>1, <1>2 DEF Flushed, Store

\* A commit overlaps the pass under way, and ends what the vendor said last
\* unless it is a toggle of its own or writes neither hours nor switch.
LEMMA CommitStep ==
    ASSUME IInv, NEW s \in Sessions, Commit(s)
    PROVE  IInv'
<1> DEFINE t == req[s]
<1>1. /\ t \in Request /\ Narrow(t) /\ store \in Store
      /\ store' = Flushed(t) /\ swept' = FALSE /\ sweep' = Disturbed /\ now' = now
      /\ gone' \in BOOLEAN
      /\ req' = [req EXCEPT ![s] = None]
      /\ word' = CASE t.kind = "toggle" /\ Caught(t) -> t.new.status
                   [] t.kind = "activate" -> word
                   [] OTHER -> None
  BY DEF Commit, IInv, TypeOK
<1> HIDE DEF t
<1>2. /\ store' \in Store
      /\ store'.hours = IF t.new.hours # t.snap.hours THEN t.new.hours ELSE store.hours
      /\ store'.scheduled = IF t.new.scheduled # t.snap.scheduled
                            THEN t.new.scheduled ELSE store.scheduled
      /\ store'.status = IF t.new.status # t.snap.status THEN t.new.status ELSE store.status
  BY <1>1, FlushedRow
<1>3. sweep = None => sweep' = None
  BY <1>1 DEF Disturbed
<1>4. sweep' # None => ~sweep'.alone
  BY <1>1 DEF Disturbed, IInv, TypeOK
<1>5. Told'
  BY <1>1, <1>4 DEF Told
<1>6. t.new.status \in Switch
  BY <1>1 DEF Request, Store
<1>7. TypeOK'
  <2>1. sweep' \in Pass \cup {None}
    BY <1>1 DEF Disturbed, IInv, TypeOK, Pass
  <2>2. word' \in Switch \cup {None}
    BY <1>1, <1>6 DEF IInv, TypeOK
  <2> QED BY <1>1, <1>2, <2>1, <2>2 DEF IInv, TypeOK
<1>8. Toggled'
  <2>1. CASE t.kind = "toggle" /\ Caught(t)
    <3>1. store'.status = t.new.status /\ store'.hours = store.hours
          /\ store'.scheduled = store.scheduled
      BY <1>1, <1>2, <2>1 DEF Caught, Narrow
    <3> QED BY <1>1, <1>3, <2>1, <3>1 DEF Caught, Toggled, Synced, Answer
  <2>2. CASE t.kind = "activate"
    <3>1. store'.status = store.status /\ store'.hours = store.hours
          /\ store'.scheduled = store.scheduled /\ word' = word
      BY <1>1, <1>2, <2>2 DEF Narrow
    <3> QED BY <1>1, <1>3, <3>1 DEF IInv, Toggled, Synced, Answer
  <2>3. CASE ~(t.kind = "toggle" /\ Caught(t)) /\ t.kind # "activate"
    BY <1>1, <2>3 DEF Toggled
  <2> QED BY <2>1, <2>2, <2>3
<1>9. \A q \in Sessions : req'[q] # None => Narrow(req'[q])
  BY <1>1 DEF IInv, TypeOK
<1> QED BY <1>5, <1>7, <1>8, <1>9 DEF IInv

\* The worker's pass, from its read to its one conditional UPDATE.
LEMMA SweepStep ==
    ASSUME IInv, SweepRead \/ SweepWrite \/ SweepLost
    PROVE  IInv'
<1>0. store \in Store /\ Answer(store) \in BOOLEAN
  BY DEF IInv, TypeOK, Answer
<1>1. ASSUME SweepRead PROVE IInv'
  <2> DEFINE pass == [hours |-> store.hours, last |-> store.scheduled,
                      answer |-> Answer(store), alone |-> TRUE]
  <2>1. pass \in Pass
        /\ pass.answer = Answer(store) /\ pass.last = store.scheduled
    BY <1>0 DEF Store, Pass
  <2>2. /\ sweep = None /\ ~swept /\ UNCHANGED <<now, store, gone, req, word>>
        /\ \/ Synced(store) /\ swept' = TRUE /\ sweep' = sweep
           \/ ~Synced(store) /\ sweep' = pass /\ swept' = swept
    BY <1>1 DEF SweepRead
  <2> HIDE DEF pass
  <2>3. Synced(store)' = Synced(store) /\ Answer(store)' = Answer(store)
    BY <2>2 DEF Synced, Answer
  <2>4. TypeOK'
    BY <2>1, <2>2 DEF IInv, TypeOK
  <2>5. Toggled'
    BY <2>2, <2>3 DEF IInv, Toggled
  <2>6. Told'
    BY <2>1, <2>2, <2>3 DEF IInv, TypeOK, Told
  <2> QED BY <2>2, <2>4, <2>5, <2>6 DEF IInv
<1>2. ASSUME SweepWrite PROVE IInv'
  <2>1. /\ sweep # None /\ sweep' = None /\ swept' = sweep.alone
        /\ store' = IF store.scheduled = sweep.last THEN Applied ELSE store
        /\ UNCHANGED <<now, gone, req, word>>
    BY <1>2 DEF SweepWrite
  <2>2. sweep.answer \in BOOLEAN /\ sweep.alone \in BOOLEAN
    BY <2>1 DEF IInv, TypeOK, Pass
  <2>3. Applied \in Store /\ Applied.hours = store.hours /\ Applied.scheduled = sweep.answer
    BY <1>0, <2>2 DEF Applied, Store, Switch
  <2>4. sweep.alone => Synced(store)'
    BY <1>0, <2>1, <2>3 DEF IInv, Told, Synced, Answer
  <2>5. word' = None
    BY <2>1 DEF IInv, Toggled
  <2> QED BY <1>0, <2>1, <2>2, <2>3, <2>4, <2>5 DEF IInv, TypeOK, Toggled, Told
<1>3. ASSUME SweepLost PROVE IInv'
  BY <1>3 DEF SweepLost, IInv, TypeOK, Toggled, Told
<1> QED BY <1>1, <1>2, <1>3

\* A minute passes: what was said counts no more once the hours have their turn.
LEMMA TickStep == ASSUME IInv, CalendarAssumption, Tick PROVE IInv'
<1>1. now' \in 0..(WeekLength - 1)
  <2>1. WeekLength \in Nat \ {0}
    BY DEF WeekLength, CalendarAssumption
  <2> QED BY <2>1 DEF Tick, IInv, TypeOK
<1>2. swept' = FALSE /\ sweep' = Disturbed /\ UNCHANGED <<store, gone, req>>
  BY DEF Tick
<1>3. sweep' # None => ~sweep'.alone
  BY <1>2 DEF Disturbed, IInv, TypeOK
<1>4. sweep = None => sweep' = None
  BY <1>2 DEF Disturbed
<1>5. TypeOK'
  <2>1. word' \in Switch \cup {None}
    BY DEF Tick, IInv, TypeOK
  <2>2. sweep' \in Pass \cup {None}
    BY <1>2 DEF Disturbed, IInv, TypeOK, Pass
  <2> QED BY <1>1, <1>2, <2>1, <2>2 DEF IInv, TypeOK
<1>6. Toggled'
  <2> SUFFICES ASSUME word' # None PROVE Toggled'
    BY DEF Toggled
  <2>1. word' = word /\ (store.hours # None => (IsOpenAt(store.hours, now') <=> Answer(store)))
    BY DEF Tick, Answer, IsOpenAt
  <2>2. /\ store.status = word /\ sweep = None /\ store.hours # None
        /\ store.scheduled = Answer(store)
    BY <2>1 DEF IInv, Toggled, Synced
  <2>3. Answer(store)' <=> Answer(store)
    BY <1>2, <2>1, <2>2 DEF Answer
  <2>4. Answer(store)' = Answer(store)
    BY <2>3 DEF Answer
  <2> QED BY <1>2, <1>4, <2>1, <2>2, <2>4 DEF Toggled, Synced
<1> QED BY <1>2, <1>3, <1>5, <1>6 DEF IInv, Told

\* Every step keeps the invariant.
LEMMA Inductive == ASSUME IInv, StoreAssumption, CalendarAssumption, [Next]_vars PROVE IInv'
<1>1. ASSUME NEW s \in Sessions, Abort(s) PROVE IInv'
  BY <1>1 DEF Abort, IInv, TypeOK, Toggled, Told, Synced, Answer
<1>2. CASE UNCHANGED vars
  BY <1>2 DEF vars, IInv, TypeOK, Toggled, Told, Synced, Answer
<1> QED BY <1>1, <1>2, HandlerStep, CommitStep, SweepStep, TickStep DEF Next

\* A store without hours, or with hours from before scheduled_open existed.
LEMMA Initially == ASSUME CalendarAssumption, Init PROVE IInv
<1>1. WeekLength \in Nat \ {0}
  BY DEF WeekLength, CalendarAssumption
<1>2. TypeOK
  <2>1. now \in 0..(WeekLength - 1)
    BY <1>1 DEF Init
  <2>2. /\ store \in Store /\ gone \in BOOLEAN /\ swept \in BOOLEAN
        /\ req \in [Sessions -> Request \cup {None}] /\ sweep = None /\ word = None
    BY DEF Init
  <2> QED BY <2>1, <2>2 DEF TypeOK
<1>3. \A s \in Sessions : req[s] = None
  BY DEF Init
<1>4. Toggled /\ Told
  BY DEF Init, Toggled, Told
<1> QED BY <1>2, <1>3, <1>4 DEF IInv

(***************************************************************************)
(* What follows                                                            *)
(***************************************************************************)
\* The row, the requests and the pass hold values of their kinds.
THEOREM TypeCorrect == Spec => []TypeOK
<1>1. Init => IInv
  BY Initially, CalendarAssumption
<1>2. IInv /\ [Next]_vars => IInv'
  BY Inductive, StoreAssumption, CalendarAssumption
<1>3. IInv => TypeOK
  BY DEF IInv
<1> QED BY <1>1, <1>2, <1>3, PTL DEF Spec

\* What a customer is told of later is so: the next change is the first there is, for
\* every week's hours (business_hours.next_change), and place_order takes each time
\* within the days ahead that the Schedule Order sheet offers.
THEOREM TimesAreReal == Spec => []TimesShownAreReal
<1>1. TypeOK => TimesShownAreReal
  <2> SUFFICES ASSUME TypeOK PROVE TimesShownAreReal
    OBVIOUS
  <2>1. WeekLength \in Nat
    BY CalendarAssumption DEF WeekLength
  <2>2. now \in Int
    BY <2>1 DEF TypeOK
  <2>3. now \notin WrongChange
    <3>1. \A at \in 0..(WeekLength - 1), hours \in Schedule :
              NextChange(hours, at) = ChangeByTheClock(hours, at)
      BY <2>1, ChangeAgrees, CalendarAssumption
    <3> QED BY <3>1 DEF WrongChange
  <2>4. store.hours # None => store.hours \in Schedule
    BY StoreAssumption DEF TypeOK, Store
  <2>5. PICK hours, at : hours = store.hours /\ at = now
    OBVIOUS
  <2>6. ASSUME hours # None, NEW slot \in schedule_options(hours, at),
               slot <= at + DaysAhead * DayLength
        PROVE  _validate_schedule(hours, at, slot)
    BY <2>2, <2>4, <2>5, <2>6, OffersAreTaken, CalendarAssumption
  <2> QED BY <2>3, <2>5, <2>6 DEF TimesShownAreReal
<1> QED BY <1>1, TypeCorrect, PTL

\* A toggle made once the worker has caught up holds until the hours next open or
\* close the store, whatever requests and passes run meanwhile.
THEOREM ToggleKept == Spec => []ToggleHolds
<1>1. Init => IInv
  BY Initially, CalendarAssumption
<1>2. IInv /\ [Next]_vars => IInv'
  BY Inductive, StoreAssumption, CalendarAssumption
<1>3. IInv => ToggleHolds
  BY DEF IInv, Toggled, ToggleHolds
<1> QED BY <1>1, <1>2, <1>3, PTL DEF Spec

\* After a pass of the worker that nothing overlapped the store has been told what
\* its hours say at this very minute, whatever was missed or raced before it.
THEOREM SweptCurrent == Spec => []SweptIsCurrent
<1>1. Init => IInv
  BY Initially, CalendarAssumption
<1>2. IInv /\ [Next]_vars => IInv'
  BY Inductive, StoreAssumption, CalendarAssumption
<1>3. IInv => SweptIsCurrent
  <2> SUFFICES ASSUME IInv, swept, store.hours # None
               PROVE  store.scheduled = OpenByTheClock(store.hours, now)
    BY DEF SweptIsCurrent
  <2>1. store.hours \in Schedule
    BY StoreAssumption DEF IInv, TypeOK, Store
  <2>2. now \in Int
    <3>1. WeekLength \in Nat
      BY CalendarAssumption DEF WeekLength
    <3> QED BY <3>1 DEF IInv, TypeOK
  <2>3. IsOpenAt(store.hours, now) <=> OpenByTheClock(store.hours, now)
    BY <2>1, <2>2, ClockAgrees, CalendarAssumption
  <2>4. IsOpenAt(store.hours, now) = OpenByTheClock(store.hours, now)
    BY <2>3 DEF IsOpenAt, OpenByTheClock
  <2>5. store.scheduled = Answer(store)
    BY DEF IInv, Told, Synced
  <2>6. Answer(store) = IsOpenAt(store.hours, now)
    BY DEF Answer, IsOpenAt
  <2> QED BY <2>4, <2>5, <2>6
<1> QED BY <1>1, <1>2, <1>3, PTL DEF Spec

(***************************************************************************)
(* One request at a time, and no hours from before scheduled_open          *)
(***************************************************************************)
\* Hours and the answer last told come and go together.
Paired(row) == row.hours = None <=> row.scheduled = None

PInv ==
    /\ IInv
    /\ Paired(store)
    /\ \A s \in Sessions : req[s] # None =>
          /\ Paired(req[s].snap) /\ Paired(req[s].new)
          /\ req[s].snap.hours = store.hours
    /\ sweep # None => sweep.last # None

\* Every step of the only session, and of the worker beside it, keeps them paired.
LEMMA PairedStep ==
    ASSUME PInv, StoreAssumption, CalendarAssumption, [Next]_vars,
           \A s, q \in Sessions : s = q
    PROVE  PInv'
<1>0. IInv' /\ store \in Store /\ req \in [Sessions -> Request \cup {None}]
  BY Inductive DEF PInv, IInv, TypeOK
<1>1. ASSUME NEW s \in Sessions, NEW kind, NEW new, Start(s, kind, new), Paired(new)
      PROVE  PInv'
  <2> DEFINE t == [kind |-> kind, snap |-> store, new |-> new]
  <2>1. t.snap = store /\ t.new = new
    OBVIOUS
  <2>2. req' = [req EXCEPT ![s] = t] /\ UNCHANGED <<store, sweep>>
    BY <1>1 DEF Start
  <2> HIDE DEF t
  <2>3. \A q \in Sessions : req'[q] = t
    BY <1>0, <2>2
  <2> QED BY <1>0, <1>1, <2>1, <2>2, <2>3 DEF PInv, Paired
<1>2. ASSUME NEW s \in Sessions,
             \/ \E status \in Switch : SetStoreStatus(s, status)
             \/ \E hours \in Schedules : SetHours(s, hours)
             \/ \E on \in BOOLEAN : SetVerified(s, on) \/ SetActive(s, on)
             \/ CloseStore(s)
      PROVE  PInv'
  <2>1. ASSUME NEW status, NEW on
        PROVE  /\ Paired([store EXCEPT !.status = status])
               /\ Paired([store EXCEPT !.verified = on, !.status = status])
               /\ Paired([store EXCEPT !.active = on])
               /\ Paired([store EXCEPT !.active = FALSE, !.status = "CLOSED",
                                       !.hours = None, !.scheduled = None])
    BY <1>0 DEF PInv, Paired, Store
  <2>2. ASSUME NEW hours \in Schedules, NEW open \in BOOLEAN, NEW status
        PROVE  Paired([store EXCEPT !.hours = hours, !.scheduled = open, !.status = status])
    BY <1>0, <2>2, StoreAssumption DEF Paired, Store
  <2>3. ASSUME NEW status \in Switch, SetStoreStatus(s, status) PROVE PInv'
    BY <1>1, <2>1, <2>3 DEF SetStoreStatus
  <2>4. ASSUME NEW hours \in Schedules, SetHours(s, hours) PROVE PInv'
    <3> DEFINE open == IsOpenAt(hours, now)
    <3>1. open \in BOOLEAN
      BY DEF IsOpenAt
    <3> HIDE DEF open
    <3>2. Start(s, "hours", [store EXCEPT !.hours = hours, !.scheduled = open,
                                          !.status = IF open THEN "OPEN" ELSE "CLOSED"])
      BY <2>4 DEF SetHours, open
    <3> QED BY <1>1, <2>2, <3>1, <3>2
  <2>5. ASSUME NEW on \in BOOLEAN, SetVerified(s, on) PROVE PInv'
    <3> DEFINE st == IF on THEN store.status ELSE "CLOSED"
    <3>1. Start(s, "verify", [store EXCEPT !.verified = on, !.status = st])
      BY <2>5 DEF SetVerified
    <3> HIDE DEF st
    <3> QED BY <1>1, <2>1, <3>1
  <2>6. ASSUME NEW on \in BOOLEAN, SetActive(s, on) PROVE PInv'
    BY <1>1, <2>1, <2>6 DEF SetActive
  <2>7. ASSUME CloseStore(s) PROVE PInv'
    BY <1>1, <2>1, <2>7 DEF CloseStore
  <2> QED BY <1>2, <2>3, <2>4, <2>5, <2>6, <2>7
<1>3. ASSUME NEW s \in Sessions, Commit(s) PROVE PInv'
  <2> DEFINE t == req[s]
  <2>1. /\ t # None /\ t \in Request /\ store' = Flushed(t) /\ sweep' = Disturbed
        /\ req' = [req EXCEPT ![s] = None]
    BY <1>0, <1>3 DEF Commit
  <2>2. /\ Paired(t.snap) /\ Paired(t.new) /\ t.snap.hours = store.hours /\ Paired(store)
    BY <2>1 DEF PInv
  <2> HIDE DEF t
  <2>3. Paired(store')
    BY <1>0, <2>1, <2>2, FlushedRow DEF Paired
  <2>4. sweep' # None => sweep # None /\ sweep'.last = sweep.last
    BY <2>1 DEF Disturbed, PInv, IInv, TypeOK
  <2>5. \A q \in Sessions : req'[q] = None
    BY <1>0, <2>1
  <2> QED BY <1>0, <2>3, <2>4, <2>5 DEF PInv, Paired
<1>4. ASSUME SweepRead \/ SweepWrite \/ SweepLost PROVE PInv'
  <2>1. ASSUME SweepRead PROVE PInv'
    <3>1. UNCHANGED <<store, req>>
      BY <2>1 DEF SweepRead
    <3>2. sweep' # None => store.hours # None /\ sweep'.last = store.scheduled
      BY <2>1 DEF SweepRead, Synced
    <3> QED BY <1>0, <3>1, <3>2 DEF PInv, Paired
  <2>2. ASSUME SweepWrite PROVE PInv'
    <3>1. /\ sweep # None /\ sweep' = None /\ UNCHANGED req
          /\ store' = IF store.scheduled = sweep.last THEN Applied ELSE store
      BY <2>2 DEF SweepWrite
    <3>2. sweep.answer \in BOOLEAN /\ sweep.last # None
      BY <3>1 DEF PInv, IInv, TypeOK, Pass
    <3>3. store'.hours = store.hours /\ Paired(store')
      BY <1>0, <3>1, <3>2, StoreAssumption DEF PInv, Applied, Store, Paired
    <3> QED BY <1>0, <3>1, <3>3 DEF PInv, Paired
  <2>3. ASSUME SweepLost PROVE PInv'
    BY <1>0, <2>3 DEF SweepLost, PInv, Paired
  <2> QED BY <1>4, <2>1, <2>2, <2>3
<1>5. ASSUME Tick PROVE PInv'
  <2>1. UNCHANGED <<store, req>> /\ sweep' = Disturbed
    BY <1>5 DEF Tick
  <2>2. sweep' # None => sweep # None /\ sweep'.last = sweep.last
    BY <2>1 DEF Disturbed, PInv, IInv, TypeOK
  <2> QED BY <1>0, <2>1, <2>2 DEF PInv, Paired
<1>6. ASSUME NEW s \in Sessions, Abort(s) PROVE PInv'
  <2>1. UNCHANGED <<store, sweep>> /\ \A q \in Sessions : req'[q] = None
    BY <1>0, <1>6 DEF Abort
  <2> QED BY <1>0, <2>1 DEF PInv, Paired
<1>7. CASE UNCHANGED vars
  BY <1>0, <1>7 DEF vars, PInv, Paired
<1> QED BY <1>2, <1>3, <1>4, <1>5, <1>6, <1>7 DEF Next

\* A pass that read the store before its owner deleted the account does not open
\* it afterwards, when requests come one at a time: the deletion clears the very
\* column the pass's UPDATE compares, so long as it was set.
THEOREM NotReopened ==
    ASSUME ~Migrated, \A s, q \in Sessions : s = q
    PROVE  Spec => DeletedNotReopened
<1>1. Init => PInv
  BY Initially, CalendarAssumption DEF Init, PInv, Paired
<1>2. PInv /\ [Next]_vars => PInv'
  BY PairedStep, StoreAssumption, CalendarAssumption
<1>3. PInv /\ [Next]_vars =>
        (gone /\ store.hours = None /\ sweep # None /\ sweep' = None =>
            store'.status = store.status)
  <2> SUFFICES ASSUME PInv, [Next]_vars, store.hours = None, sweep # None, sweep' = None
               PROVE  store' = store
    OBVIOUS
  <2>1. store.scheduled # sweep.last
    BY DEF PInv, Paired
  <2>2. Disturbed \in Pass /\ Disturbed # None
    BY StoreAssumption DEF Disturbed, PInv, IInv, TypeOK, Pass
  <2>3. ASSUME NEW s \in Sessions, Commit(s) \/ Abort(s) PROVE FALSE
    BY <2>2, <2>3 DEF Commit, Abort
  <2> QED BY <2>1, <2>2, <2>3 DEF Next, SetStoreStatus, SetHours, SetVerified, SetActive, CloseStore,
             Start, SweepRead, SweepWrite, SweepLost, Tick, vars
<1>4. PInv /\ [Next]_vars =>
        [gone /\ store.hours = None /\ sweep # None /\ sweep' = None =>
            store'.status = store.status]_vars
  BY <1>3
<1> QED BY <1>1, <1>2, <1>4, PTL DEF Spec, DeletedNotReopened
=============================================================================
