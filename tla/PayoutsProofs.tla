---------------------------- MODULE PayoutsProofs ----------------------------
(***************************************************************************)
(* The rows keep the promise of the ledger, for any payees, amounts and    *)
(* sessions.                                                               *)
(***************************************************************************)
EXTENDS Payouts, FiniteSetTheorems, TLAPS

(***************************************************************************)
(* Sums over rows, as the cardinality of a set of coins                    *)
(***************************************************************************)
\* The sum of the amounts of the rows S of a table Q, and one coin for each unit of it.
Sum(Q, S) == MapThenSumSet(LAMBDA i : Q[i].amount, S)
Coins(Q, S) == {c \in S \X Amounts : c[2] <= Q[c[1]].amount}

Priced(Q, S) == IsFiniteSet(S) /\ MaxEarned \in Nat /\ \A i \in S : Q[i].amount \in Amounts

LEMMA CoinsOfOneMore ==
    ASSUME NEW Q, NEW S, Priced(Q, S), NEW x \in S
    PROVE  /\ IsFiniteSet(Coins(Q, S)) /\ Cardinality(Coins(Q, S)) \in Nat
           /\ Cardinality(Coins(Q, S \ {x})) \in Nat
           /\ Cardinality(Coins(Q, S)) = Q[x].amount + Cardinality(Coins(Q, S \ {x}))
<1> DEFINE R == S \ {x}
           X == {x} \X (1..Q[x].amount)
<1>1. Q[x].amount \in Nat /\ 1..Q[x].amount \subseteq Amounts /\ MaxEarned \in Nat
  BY DEF Priced, Amounts
<1>2. IsFiniteSet(X) /\ Cardinality(X) = Q[x].amount
  <2>1. IsFiniteSet(1..Q[x].amount) /\ Cardinality(1..Q[x].amount) = Q[x].amount
    <3>1. PICK n \in Nat : n = Q[x].amount
      BY <1>1
    <3>2. IsFiniteSet(1..n) /\ Cardinality(1..n) = IF 1 > n THEN 0 ELSE n - 1 + 1
      BY FS_Interval
    <3> QED BY <3>1, <3>2
  <2>2. IsFiniteSet({x}) /\ Cardinality({x}) = 1
    BY FS_Singleton
  <2>3. PICK A, B : A = {x} /\ B = 1..Q[x].amount
    OBVIOUS
  <2>4. IsFiniteSet(A \X B) /\ Cardinality(A \X B) = Cardinality(A) * Cardinality(B)
    <3>1. IsFiniteSet(A) /\ IsFiniteSet(B)
      BY <2>1, <2>2, <2>3
    <3> QED BY <3>1, FS_Product
  <2>5. Cardinality(X) = 1 * Q[x].amount /\ IsFiniteSet(X)
    BY <2>1, <2>2, <2>3, <2>4
  <2> QED BY <1>1, <2>5
<1>3. IsFiniteSet(S \X Amounts)
  <2>1. IsFiniteSet(Amounts)
    <3>1. PICK n \in Int : n = MaxEarned
      BY <1>1
    <3>2. IsFiniteSet(1..n)
      BY FS_Interval
    <3> QED BY <3>1, <3>2 DEF Amounts
  <2> QED BY <2>1, FS_Product DEF Priced
<1>4. /\ IsFiniteSet(Coins(Q, S)) /\ IsFiniteSet(Coins(Q, R))
      /\ Cardinality(Coins(Q, S)) \in Nat /\ Cardinality(Coins(Q, R)) \in Nat
  <2>1. Coins(Q, S) \subseteq S \X Amounts /\ Coins(Q, R) \subseteq S \X Amounts
    BY DEF Coins
  <2> QED BY <1>3, <2>1, FS_Subset, FS_CardinalityType
<1>5. Coins(Q, S) = Coins(Q, R) \cup X
  BY <1>1 DEF Coins, Amounts
<1>6. Coins(Q, R) \cap X = {}
  BY DEF Coins
<1>7. Cardinality(Coins(Q, S)) = Cardinality(Coins(Q, R)) + Q[x].amount - 0
  <2> HIDE DEF R, X
  <2> QED BY <1>2, <1>4, <1>5, <1>6, FS_Union, FS_EmptySet
<1> QED BY <1>1, <1>4, <1>7

LEMMA CoinsOfNone ==
    ASSUME NEW Q
    PROVE  Cardinality(Coins(Q, {})) = 0 /\ IsFiniteSet(Coins(Q, {}))
<1>1. Coins(Q, {}) = {}
  BY DEF Coins
<1> QED BY <1>1, FS_EmptySet

\* The fold adds the rows up one by one; a least set of rows on which it went wrong would
\* not be the least.
LEMMA SumIsCoins ==
    ASSUME NEW Q, NEW S, Priced(Q, S)
    PROVE  Sum(Q, S) = Cardinality(Coins(Q, S))
<1> DEFINE F(f) == f = [s \in SUBSET S |->
                IF s = {} THEN 0
                ELSE LET x == CHOOSE x \in s : TRUE IN Q[x].amount + f[s \ {x}]]
           it == CHOOSE f : F(f)
           g == [s \in SUBSET S |-> Cardinality(Coins(Q, s))]
           h == [s \in SUBSET S |->
                IF s = {} THEN 0
                ELSE LET x == CHOOSE x \in s : TRUE IN Q[x].amount + g[s \ {x}]]
           Wrong == {s \in SUBSET S : it[s] # g[s]}
<1>1. \A s \in SUBSET S : IsFiniteSet(s) /\ Priced(Q, s)
  BY FS_Subset DEF Priced
<1>2. ASSUME NEW s \in SUBSET S, s # {}
      PROVE  \E x \in s : /\ x = CHOOSE y \in s : TRUE
                          /\ g[s] = Q[x].amount + g[s \ {x}]
  <2>1. PICK x \in s : x = CHOOSE y \in s : TRUE
    BY <1>2
  <2>2. Cardinality(Coins(Q, s)) = Q[x].amount + Cardinality(Coins(Q, s \ {x}))
    BY <1>1, CoinsOfOneMore
  <2>3. s \ {x} \in SUBSET S
    OBVIOUS
  <2> QED BY <2>1, <2>2, <2>3
<1>3. g[{}] = 0
  BY CoinsOfNone
<1>4. F(g)
  <2>1. \A s \in SUBSET S : g[s] = h[s]
    <3> HIDE DEF g
    <3> QED BY <1>2, <1>3
  <2>2. g = h
    BY <2>1
  <2> QED BY <2>2
<1>5. F(it)
  <2> HIDE DEF F
  <2> QED BY <1>4
<1>6. it[S] = g[S]
  <2> SUFFICES ASSUME it[S] # g[S] PROVE FALSE
    OBVIOUS
  <2>1. Wrong \subseteq FiniteSubsetsOf(S) /\ Wrong # {}
    <3> HIDE DEF it, g
    <3> QED BY <1>1 DEF FiniteSubsetsOf
  <2> HIDE DEF it, g
  <2>2. IsWellFoundedOn(StrictSubsetOrdering(S), FiniteSubsetsOf(S))
    BY FS_StrictSubsetOrderingWellFounded
  <2>3. PICK s \in Wrong : \A r \in Wrong : <<r, s>> \notin StrictSubsetOrdering(S)
    <3> HIDE DEF Wrong
    <3> QED BY <2>1, <2>2, WFMin
  <2>4. s \in SUBSET S /\ it[s] # g[s]
    BY <2>3
  <2>5. it[{}] = 0
    BY <1>5
  <2>6. s # {}
    BY <1>3, <2>4, <2>5
  <2>7. PICK x \in s : x = (CHOOSE y \in s : TRUE) /\ g[s] = Q[x].amount + g[s \ {x}]
    BY <1>2, <2>4, <2>6
  <2>8. it[s] = Q[x].amount + it[s \ {x}]
    BY <1>5, <2>4, <2>6, <2>7
  <2>9. s \ {x} \in Wrong
    BY <2>4, <2>7, <2>8
  <2> QED BY <2>3, <2>4, <2>7, <2>9 DEF StrictSubsetOrdering
<1> QED BY <1>6 DEF Sum, MapThenSumSet, MapThenFoldSet

\* What the ledger's steps need of a sum.
LEMMA SumOfOneMore ==
    ASSUME NEW Q, NEW S, Priced(Q, S), NEW x \in S
    PROVE  /\ Sum(Q, S) \in Nat /\ Sum(Q, S \ {x}) \in Nat
           /\ Sum(Q, S) = Q[x].amount + Sum(Q, S \ {x})
<1>1. Priced(Q, S \ {x})
  BY FS_Subset DEF Priced
<1>2. Sum(Q, S) = Cardinality(Coins(Q, S)) /\ Sum(Q, S \ {x}) = Cardinality(Coins(Q, S \ {x}))
  BY <1>1, SumIsCoins
<1> QED BY <1>2, CoinsOfOneMore

LEMMA SumIsNatural ==
    ASSUME NEW Q, NEW S, Priced(Q, S)
    PROVE  Sum(Q, S) \in Nat
<1>1. CASE S = {}
  BY <1>1, SumIsCoins, CoinsOfNone
<1>2. CASE \E x : x \in S
  BY <1>2, SumOfOneMore
<1> QED BY <1>1, <1>2

SameAmounts(Q, R, S) == \A i \in S : Q[i].amount = R[i].amount

LEMMA SumDepends ==
    ASSUME NEW Q, NEW R, NEW S, Priced(Q, S), SameAmounts(Q, R, S)
    PROVE  Priced(R, S) /\ Sum(Q, S) = Sum(R, S)
<1>1. Coins(Q, S) = Coins(R, S) /\ Priced(R, S)
  BY DEF Coins, SameAmounts, Priced
<1> QED BY <1>1, SumIsCoins

(***************************************************************************)
(* The totals of a payee                                                   *)
(***************************************************************************)
Rows(Q, p, status) == {i \in DOMAIN Q : Q[i].payee = p /\ Q[i].status = status}
TotalOf(Q, p, status) == Sum(Q, Rows(Q, p, status))

LEMMA TotalIs ==
    ASSUME NEW p, NEW status
    PROVE  \E Q : Q = payouts /\ Total(p, status) = TotalOf(Q, p, status)
<1>1. PICK Q : Q = payouts
  OBVIOUS
<1> QED BY <1>1 DEF Total, TotalOf, Sum, Rows, MapThenSumSet, MapThenFoldSet

LEMMA RowsArePriced ==
    ASSUME PayoutsAssumption, NEW Q \in Seq(Payout), NEW p, NEW status
    PROVE  Priced(Q, Rows(Q, p, status)) /\ TotalOf(Q, p, status) \in Nat
<1>1. Rows(Q, p, status) \subseteq 1..Len(Q) /\ IsFiniteSet(1..Len(Q))
  BY FS_Interval DEF Rows
<1>2. IsFiniteSet(Rows(Q, p, status))
  BY <1>1, FS_Subset
<1>3. \A i \in Rows(Q, p, status) : Q[i].amount \in Amounts
  <2>1. \A i \in 1..Len(Q) : Q[i] \in Payout
    OBVIOUS
  <2> QED BY <1>1, <2>1 DEF Payout
<1>4. Priced(Q, Rows(Q, p, status))
  BY <1>2, <1>3 DEF Priced, PayoutsAssumption
<1> QED BY <1>4, SumIsNatural DEF TotalOf

Appends(Q, row, R) == R = Append(Q, row)
Decides(Q, i, to, R) == R = [Q EXCEPT ![i].status = to]

\* A new row adds its amount to its own total.
LEMMA AppendTotals ==
    ASSUME PayoutsAssumption, NEW Q \in Seq(Payout), NEW row \in Payout,
           NEW R, Appends(Q, row, R), NEW p, NEW status
    PROVE  TotalOf(R, p, status) = TotalOf(Q, p, status)
              + IF row.payee = p /\ row.status = status THEN row.amount ELSE 0
<1> DEFINE n == Len(Q) + 1
           S == Rows(Q, p, status)
           T == Rows(R, p, status)
<1>1. /\ R \in Seq(Payout) /\ DOMAIN R = 1..n /\ DOMAIN Q = 1..Len(Q) /\ Len(Q) \in Nat
      /\ R[n] = row /\ \A i \in DOMAIN Q : R[i] = Q[i] /\ i # n
  BY DEF Appends
<1>2. Priced(Q, S) /\ Priced(R, T) /\ Sum(Q, S) \in Nat
  BY <1>1, RowsArePriced DEF TotalOf
<1>3. T = S \cup IF row.payee = p /\ row.status = status THEN {n} ELSE {}
  <2>1. DOMAIN R = DOMAIN Q \cup {n}
    BY <1>1
  <2> QED BY <1>1, <2>1 DEF Rows
<1>4. n \notin S /\ SameAmounts(Q, R, S)
  BY <1>1 DEF Rows, SameAmounts
<1> HIDE DEF S, T, n
<1>5. Priced(R, S) /\ Sum(Q, S) = Sum(R, S)
  BY <1>2, <1>4, SumDepends
<1>6. CASE row.payee = p /\ row.status = status
  <2>1. n \in T /\ T \ {n} = S
    BY <1>3, <1>4, <1>6
  <2>2. Sum(R, T) = R[n].amount + Sum(R, T \ {n})
    BY <1>2, <2>1, SumOfOneMore
  <2>3. row.amount \in Nat
    BY DEF Payout, Amounts, PayoutsAssumption
  <2>4. Sum(R, T) = Sum(Q, S) + row.amount
    <3>1. R[n].amount = row.amount
      BY <1>1
    <3>2. Sum(R, T) = row.amount + Sum(Q, S) /\ Sum(Q, S) \in Nat
      BY <1>2, <1>5, <2>1, <2>2, <3>1
    <3> QED BY <2>3, <3>2
  <2> QED BY <1>6, <2>4 DEF TotalOf, S, T
<1>7. CASE ~(row.payee = p /\ row.status = status)
  <2>1. T = S
    BY <1>3, <1>7
  <2>2. Sum(R, T) = Sum(Q, S)
    BY <1>5, <2>1
  <2> QED BY <1>2, <1>7, <2>2 DEF TotalOf, S, T
<1> QED BY <1>6, <1>7

\* A decision moves the amount of its row from one total to another.
Moves(Q, i, to, R, p) ==
    /\ p # Q[i].payee => \A status : TotalOf(R, p, status) = TotalOf(Q, p, status)
    /\ p = Q[i].payee =>
         /\ TotalOf(Q, p, Q[i].status) = Q[i].amount + TotalOf(R, p, Q[i].status)
         /\ TotalOf(R, p, to) = Q[i].amount + TotalOf(Q, p, to)
         /\ \A status : status # to /\ status # Q[i].status =>
               TotalOf(R, p, status) = TotalOf(Q, p, status)

LEMMA DecideTotals ==
    ASSUME PayoutsAssumption, NEW Q \in Seq(Payout), NEW i \in DOMAIN Q, NEW to \in Statuses,
           Q[i].status # to, NEW R, Decides(Q, i, to, R), NEW p
    PROVE  /\ R \in Seq(Payout) /\ Len(R) = Len(Q)
           /\ Moves(Q, i, to, R, p)
<1>1. /\ \A k \in 1..Len(Q) : Q[k] \in Payout
      /\ DOMAIN Q = 1..Len(Q) /\ Len(Q) \in Nat
  OBVIOUS
<1>2. /\ DOMAIN R = DOMAIN Q /\ \A k \in DOMAIN Q : k # i => R[k] = Q[k]
      /\ R[i] = [Q[i] EXCEPT !.status = to]
  BY DEF Decides
<1>3. /\ R[i].payee = Q[i].payee /\ R[i].amount = Q[i].amount /\ R[i].status = to
      /\ R[i] \in Payout
  BY <1>1, <1>2 DEF Payout
<1>4. R \in Seq(Payout) /\ Len(R) = Len(Q)
  <2>1. R \in [1..Len(Q) -> Payout]
    BY <1>1, <1>2, <1>3 DEF Decides
  <2> QED BY <1>1, <2>1 DEF Decides
<1>5. \A k \in DOMAIN Q : R[k].payee = Q[k].payee /\ R[k].amount = Q[k].amount
  BY <1>2, <1>3
<1>6. \A q, status : Priced(Q, Rows(Q, q, status)) /\ Priced(R, Rows(R, q, status))
  BY <1>4, RowsArePriced
<1>7. ASSUME NEW S, S \subseteq DOMAIN Q, Priced(Q, S) PROVE Sum(Q, S) = Sum(R, S) /\ Priced(R, S)
  <2>1. SameAmounts(Q, R, S)
    BY <1>5, <1>7 DEF SameAmounts
  <2> QED BY <1>7, <2>1, SumDepends
<1>8. ASSUME NEW status, p # Q[i].payee \/ (status # to /\ status # Q[i].status)
      PROVE  TotalOf(R, p, status) = TotalOf(Q, p, status)
  <2>1. Rows(R, p, status) = Rows(Q, p, status) /\ Rows(Q, p, status) \subseteq DOMAIN Q
    <3>1. \A k : k \in Rows(R, p, status) <=>
             k \in DOMAIN Q /\ R[k].payee = p /\ R[k].status = status
      BY <1>2 DEF Rows
    <3>2. \A k : k \in Rows(Q, p, status) <=>
             k \in DOMAIN Q /\ Q[k].payee = p /\ Q[k].status = status
      BY DEF Rows
    <3>3. \A k \in DOMAIN Q : k # i => R[k] = Q[k]
      BY <1>2
    <3>4. \A k \in DOMAIN Q : k \in Rows(R, p, status) <=> k \in Rows(Q, p, status)
      BY <1>3, <1>8, <3>1, <3>2, <3>3
    <3> QED BY <3>1, <3>2, <3>4
  <2> QED BY <1>6, <1>7, <2>1 DEF TotalOf
<1>9. ASSUME p = Q[i].payee
      PROVE  TotalOf(Q, p, Q[i].status) = Q[i].amount + TotalOf(R, p, Q[i].status)
  <2>1. PICK S : S = Rows(Q, p, Q[i].status)
    OBVIOUS
  <2>2. i \in S /\ S \ {i} = Rows(R, p, Q[i].status) /\ S \subseteq DOMAIN Q
    <3>1. \A k : k \in S <=> k \in DOMAIN Q /\ Q[k].payee = p /\ Q[k].status = Q[i].status
      BY <2>1 DEF Rows
    <3>2. \A k : k \in Rows(R, p, Q[i].status) <=>
             k \in DOMAIN Q /\ R[k].payee = p /\ R[k].status = Q[i].status
      BY <1>2 DEF Rows
    <3>3. \A k \in DOMAIN Q : k # i => R[k] = Q[k]
      BY <1>2
    <3> QED BY <1>3, <1>9, <3>1, <3>2, <3>3
  <2>3. Sum(Q, S) = Q[i].amount + Sum(Q, S \ {i}) /\ Priced(Q, S \ {i})
    BY <1>6, <2>1, <2>2, SumOfOneMore, FS_Subset DEF Priced
  <2>4. Sum(Q, S \ {i}) = Sum(R, S \ {i})
    BY <1>7, <2>2, <2>3
  <2> QED BY <2>1, <2>2, <2>3, <2>4 DEF TotalOf
<1>10. ASSUME p = Q[i].payee
       PROVE  TotalOf(R, p, to) = Q[i].amount + TotalOf(Q, p, to)
  <2>1. PICK S : S = Rows(R, p, to)
    OBVIOUS
  <2>2. i \in S /\ S \ {i} = Rows(Q, p, to) /\ S \ {i} \subseteq DOMAIN Q
    <3>1. \A k : k \in S <=> k \in DOMAIN Q /\ R[k].payee = p /\ R[k].status = to
      BY <1>2, <2>1 DEF Rows
    <3>2. \A k : k \in Rows(Q, p, to) <=>
             k \in DOMAIN Q /\ Q[k].payee = p /\ Q[k].status = to
      BY DEF Rows
    <3>3. \A k \in DOMAIN Q : k # i => R[k] = Q[k]
      BY <1>2
    <3> QED BY <1>3, <1>10, <3>1, <3>2, <3>3
  <2>3. Sum(R, S) = R[i].amount + Sum(R, S \ {i})
    <3>1. Priced(R, S)
      BY <1>6, <2>1
    <3> QED BY <2>2, <3>1, SumOfOneMore
  <2>4. Sum(Q, S \ {i}) = Sum(R, S \ {i})
    BY <1>6, <1>7, <2>2
  <2> QED BY <1>3, <2>1, <2>2, <2>3, <2>4 DEF TotalOf
<1> QED BY <1>4, <1>8, <1>9, <1>10 DEF Moves

(***************************************************************************)
(* What open withdrawals know                                              *)
(***************************************************************************)
\* The earnings an open withdrawal read have only grown since, and the payouts it
\* summed have not, because it holds its payee's row.
OpenSound ==
    \A s \in Sessions : req[s] # None =>
        /\ Minimum <= req[s].amount
        /\ req[s].stage # "locked" => req[s].earned <= earned[req[s].payee]
        /\ req[s].stage = "summed" => Taken(req[s].payee) <= req[s].taken

OneLock ==
    \A s, u \in Sessions : req[s] # None /\ req[u] # None /\ s # u => req[s].payee # req[u].payee

NotOverpaid == \A p \in Payees : Taken(p) <= earned[p]

PInv == TypeOK /\ OpenSound /\ OneLock /\ NotOverpaid

(***************************************************************************)
(* Its steps                                                               *)
(***************************************************************************)
LEMMA TotalsAre ==
    \E Q, R : /\ Q = payouts /\ R = payouts'
              /\ \A p, status : /\ Total(p, status) = TotalOf(Q, p, status)
                                /\ Total(p, status)' = TotalOf(R, p, status)
<1>1. PICK Q, R : Q = payouts /\ R = payouts'
  OBVIOUS
<1>2. ASSUME NEW p, NEW status
      PROVE  Total(p, status) = TotalOf(Q, p, status) /\ Total(p, status)' = TotalOf(R, p, status)
  BY <1>1 DEF Total, TotalOf, Sum, Rows, MapThenSumSet, MapThenFoldSet
<1> QED BY <1>1, <1>2

\* The totals before and after, as numbers.
LEMMA TotalsAreNatural ==
    ASSUME PayoutsAssumption, TypeOK
    PROVE  \A p, status : Total(p, status) \in Nat
<1>1. PICK Q : Q = payouts
  OBVIOUS
<1>2. Q \in Seq(Payout)
  BY <1>1 DEF TypeOK
<1>3. ASSUME NEW p, NEW status PROVE Total(p, status) \in Nat
  <2>1. Total(p, status) = TotalOf(Q, p, status)
    BY <1>1, TotalsAre
  <2> QED BY <1>2, <2>1, RowsArePriced
<1> QED BY <1>3

LEMMA TotalsStayNatural ==
    ASSUME PayoutsAssumption, payouts' \in Seq(Payout)
    PROVE  \A p, status : Total(p, status)' \in Nat
<1>1. PICK R : R = payouts' /\ R \in Seq(Payout)
  OBVIOUS
<1>2. ASSUME NEW p, NEW status PROVE Total(p, status)' \in Nat
  <2>1. Total(p, status)' = TotalOf(R, p, status)
    BY <1>1, TotalsAre
  <2> QED BY <1>1, <2>1, RowsArePriced
<1> QED BY <1>2

\* The rows stay: so does every total.
LEMMA RowsStay ==
    ASSUME UNCHANGED payouts
    PROVE  /\ \A p, status : Total(p, status)' = Total(p, status)
           /\ \A p : Taken(p)' = Taken(p)
<1>1. \A p, status : Total(p, status)' = Total(p, status)
  BY TotalsAre
<1> QED BY <1>1 DEF Taken

LEMMA RequestPayoutStep ==
    ASSUME PayoutsAssumption, NoneAssumption, PInv, NEW s \in Sessions, NEW p \in Payees,
           NEW amount \in Amounts, RequestPayout(s, p, amount)
    PROVE  PInv'
<1> DEFINE w == [payee |-> p, amount |-> amount, stage |-> "locked", earned |-> 0, taken |-> 0]
<1>1. /\ w \in Withdrawal /\ w # None /\ w.payee = p /\ w.amount = amount /\ w.stage = "locked"
  BY DEF Withdrawal, NoneAssumption
<1>2. \A u \in Sessions : req'[u] = IF u = s THEN w ELSE req[u]
  BY DEF RequestPayout, PInv, TypeOK
<1>3. earned' = earned /\ payouts' = payouts /\ amount >= Minimum
  BY DEF RequestPayout
<1>4. \A q : Taken(q)' = Taken(q)
  BY <1>3, RowsStay
<1>5. TypeOK'
  BY <1>1, <1>3 DEF PInv, TypeOK, RequestPayout
<1>6. Minimum <= amount
  BY <1>3 DEF PayoutsAssumption, Amounts
<1> HIDE DEF w
<1>7. OpenSound'
  BY <1>1, <1>2, <1>3, <1>4, <1>6 DEF PInv, OpenSound
<1>8. OneLock'
  BY <1>1, <1>2 DEF PInv, OneLock, RequestPayout, Locked
<1>9. NotOverpaid'
  BY <1>3, <1>4 DEF PInv, NotOverpaid
<1> QED BY <1>5, <1>7, <1>8, <1>9 DEF PInv

\* A read keeps what the request had, and adds one figure that is current.
LEMMA ReadStep ==
    ASSUME PayoutsAssumption, NoneAssumption, PInv, NEW s \in Sessions,
           ReadEarned(s) \/ ReadPayouts(s)
    PROVE  PInv'
<1>1. PICK t : t = req[s] /\ t \in Withdrawal /\ req[s] # None
  BY DEF ReadEarned, ReadPayouts, At, PInv, TypeOK
<1>2. PICK w : /\ req' = [req EXCEPT ![s] = w]
               /\ \/ /\ t.stage = "locked"
                     /\ w = [t EXCEPT !.stage = "earned", !.earned = earned[t.payee]]
                  \/ /\ t.stage = "earned"
                     /\ w = [t EXCEPT !.stage = "summed", !.taken = Taken(t.payee)]
  <2>1. CASE ReadEarned(s)
    BY <1>1, <2>1 DEF ReadEarned, At
  <2>2. CASE ReadPayouts(s)
    BY <1>1, <2>2 DEF ReadPayouts, At
  <2> QED BY <2>1, <2>2
<1>3. earned[t.payee] \in Nat /\ Taken(t.payee) \in Nat /\ t.payee \in Payees
  <2>1. t.payee \in Payees
    BY <1>1 DEF Withdrawal
  <2>2. earned[t.payee] \in 0..MaxEarned
    BY <2>1 DEF PInv, TypeOK
  <2> QED BY <2>1, <2>2, TotalsAreNatural DEF Taken, PInv, PayoutsAssumption
<1>4. w \in Withdrawal /\ w # None
  <2>1. w \in Withdrawal
    BY <1>1, <1>2, <1>3 DEF Withdrawal
  <2> QED BY <2>1 DEF NoneAssumption
<1>5. /\ w.payee = t.payee /\ w.amount = t.amount /\ w.stage # "locked"
      /\ w.earned = earned[t.payee] \/ (w.earned = t.earned /\ t.stage = "earned")
      /\ w.stage = "summed" => w.taken = Taken(t.payee)
  BY <1>1, <1>2 DEF Withdrawal
<1>6. \A u \in Sessions : req'[u] = IF u = s THEN w ELSE req[u]
  BY <1>2 DEF PInv, TypeOK
<1>7. earned' = earned /\ payouts' = payouts
  BY DEF ReadEarned, ReadPayouts
<1>8. \A q : Taken(q)' = Taken(q)
  BY <1>7, RowsStay
<1>9. TypeOK'
  BY <1>2, <1>4, <1>7 DEF PInv, TypeOK
<1>10. OpenSound'
  <2>1. /\ Minimum <= w.amount /\ w.earned <= earned[w.payee]
        /\ w.stage = "summed" => Taken(w.payee) <= w.taken
    BY <1>1, <1>3, <1>5 DEF PInv, OpenSound
  <2> QED BY <1>4, <1>6, <1>7, <1>8, <2>1 DEF PInv, OpenSound
<1>11. OneLock'
  BY <1>1, <1>5, <1>6 DEF PInv, OneLock
<1>12. NotOverpaid'
  BY <1>7, <1>8 DEF PInv, NotOverpaid
<1> QED BY <1>9, <1>10, <1>11, <1>12 DEF PInv

LEMMA AbortStep ==
    ASSUME PayoutsAssumption, NoneAssumption, PInv, NEW s \in Sessions, Abort(s)
    PROVE  PInv'
<1>1. \A u \in Sessions : req'[u] = IF u = s THEN None ELSE req[u]
  BY DEF Abort, PInv, TypeOK
<1>2. earned' = earned /\ payouts' = payouts /\ \A q : Taken(q)' = Taken(q)
  BY RowsStay DEF Abort
<1>3. TypeOK'
  BY <1>2 DEF Abort, PInv, TypeOK
<1> QED BY <1>1, <1>2, <1>3 DEF PInv, OpenSound, OneLock, NotOverpaid

\* Earnings grow under the withdrawals that read them.
LEMMA EarnStep ==
    ASSUME PayoutsAssumption, NoneAssumption, PInv, NEW p \in Payees, NEW amount \in Amounts,
           Earn(p, amount)
    PROVE  PInv'
<1>1. /\ req' = req /\ payouts' = payouts /\ \A q : Taken(q)' = Taken(q)
      /\ amount \in Nat /\ MaxEarned \in Nat
  BY RowsStay DEF Earn, Amounts, PayoutsAssumption
<1>2. \A q \in Payees : /\ earned[q] \in Nat /\ earned'[q] \in 0..MaxEarned
                        /\ earned[q] <= earned'[q]
  BY <1>1 DEF Earn, PInv, TypeOK
<1>3. TypeOK'
  BY <1>1, <1>2 DEF Earn, PInv, TypeOK
<1>4. OpenSound'
  <2> SUFFICES ASSUME NEW s \in Sessions, req[s] # None
               PROVE  /\ Minimum <= req[s].amount
                      /\ req[s].stage # "locked" => req[s].earned <= earned'[req[s].payee]
                      /\ req[s].stage = "summed" => Taken(req[s].payee) <= req[s].taken
    BY <1>1 DEF OpenSound
  <2>1. req[s].payee \in Payees /\ req[s].earned \in Nat
    BY DEF PInv, TypeOK, Withdrawal
  <2> QED BY <1>2, <2>1 DEF PInv, OpenSound
<1>5. NotOverpaid'
  <2>1. \A q : Taken(q) \in Nat
    BY TotalsAreNatural DEF Taken, PInv
  <2>2. ASSUME NEW q \in Payees PROVE Taken(q) <= earned'[q]
    <3>1. Taken(q) \in Nat /\ Taken(q) <= earned[q] /\ earned'[q] \in Nat
      BY <1>2, <2>1 DEF PInv, NotOverpaid
    <3> QED BY <1>2, <3>1
  <2> QED BY <1>1, <2>2 DEF NotOverpaid
<1>6. OneLock'
  BY <1>1 DEF PInv, OneLock
<1> QED BY <1>3, <1>4, <1>5, <1>6 DEF PInv

\* The insertion, as the totals see it.
LEMMA InsertTotals ==
    ASSUME PayoutsAssumption, PInv, NEW s \in Sessions, InsertPayout(s)
    PROVE  \E t \in Withdrawal :
              /\ t = req[s] /\ t # None /\ t.stage = "summed" /\ t.payee \in Payees
              /\ t.amount \in Amounts /\ t.amount <= t.earned - t.taken
              /\ payouts' \in Seq(Payout) /\ Len(payouts') <= MaxPayouts
              /\ \A p, status : Total(p, status)' =
                    Total(p, status) + IF p = t.payee /\ status = "PROCESSING" THEN t.amount ELSE 0
<1>1. PICK t \in Withdrawal : t = req[s] /\ t # None /\ t.stage = "summed"
  BY DEF InsertPayout, At, PInv, TypeOK
<1>2. t.payee \in Payees /\ t.amount \in Amounts
  BY DEF Withdrawal
<1>3. PICK row : row = [payee |-> t.payee, amount |-> t.amount, status |-> "PROCESSING"]
  OBVIOUS
<1>4. /\ row \in Payout /\ row.payee = t.payee /\ row.amount = t.amount
      /\ row.status = "PROCESSING"
  BY <1>2, <1>3 DEF Payout, Statuses
<1>5. PICK Q, R : /\ Q = payouts /\ R = payouts'
                  /\ \A p, status : /\ Total(p, status) = TotalOf(Q, p, status)
                                    /\ Total(p, status)' = TotalOf(R, p, status)
  BY TotalsAre
<1>6. Q \in Seq(Payout) /\ Appends(Q, row, R) /\ Len(Q) < MaxPayouts
  BY <1>1, <1>3, <1>5 DEF InsertPayout, PInv, TypeOK, Appends
<1>7. R \in Seq(Payout) /\ Len(R) <= MaxPayouts
  BY <1>4, <1>6 DEF Appends, PayoutsAssumption
<1>8. ASSUME NEW p, NEW status
      PROVE  Total(p, status)' =
                Total(p, status) + IF p = t.payee /\ status = "PROCESSING" THEN t.amount ELSE 0
  <2>1. TotalOf(R, p, status) = TotalOf(Q, p, status)
              + IF row.payee = p /\ row.status = status THEN row.amount ELSE 0
    BY <1>4, <1>6, AppendTotals
  <2> QED BY <1>4, <1>5, <2>1
<1>9. t.amount <= t.earned - t.taken
  BY <1>1 DEF InsertPayout
<1> QED BY <1>1, <1>2, <1>5, <1>7, <1>8, <1>9

LEMMA InsertPayoutStep ==
    ASSUME PayoutsAssumption, NoneAssumption, PInv, NEW s \in Sessions, InsertPayout(s)
    PROVE  PInv'
<1>1. PICK t \in Withdrawal :
              /\ t = req[s] /\ t # None /\ t.stage = "summed" /\ t.payee \in Payees
              /\ t.amount \in Amounts /\ t.amount <= t.earned - t.taken
              /\ payouts' \in Seq(Payout) /\ Len(payouts') <= MaxPayouts
              /\ \A p, status : Total(p, status)' =
                    Total(p, status) + IF p = t.payee /\ status = "PROCESSING" THEN t.amount ELSE 0
  BY InsertTotals
<1>2. earned' = earned /\ \A u \in Sessions : req'[u] = IF u = s THEN None ELSE req[u]
  BY DEF InsertPayout, PInv, TypeOK
<1>3. /\ \A p : p # t.payee => Taken(p)' = Taken(p)
      /\ Taken(t.payee)' = Taken(t.payee) + t.amount /\ \A p : Taken(p) \in Nat
  <2>1. \A p, status : Total(p, status) \in Nat
    BY TotalsAreNatural DEF PInv
  <2>2. t.amount \in Nat
    BY <1>1 DEF Amounts
  <2>3. \A p : p # t.payee => Taken(p)' = Taken(p)
    BY <1>1, <2>1 DEF Taken
  <2>4. Taken(t.payee)' = Taken(t.payee) + t.amount
    BY <1>1, <2>1, <2>2 DEF Taken
  <2> QED BY <2>1, <2>3, <2>4 DEF Taken
<1>4. TypeOK'
  BY <1>1, <1>2 DEF InsertPayout, PInv, TypeOK
<1>5. OneLock'
  BY <1>2 DEF PInv, OneLock
<1>6. OpenSound'
  <2> SUFFICES ASSUME NEW u \in Sessions, u # s, req[u] # None, NEW q, q = req[u].payee
               PROVE  /\ Minimum <= req[u].amount
                      /\ req[u].stage # "locked" => req[u].earned <= earned[q]
                      /\ req[u].stage = "summed" => Taken(q)' <= req[u].taken
    BY <1>2 DEF OpenSound
  <2>1. q # t.payee
    BY <1>1 DEF PInv, OneLock
  <2>2. Taken(q)' = Taken(q)
    BY <1>3, <2>1
  <2> QED BY <2>2 DEF PInv, OpenSound
<1>7. NotOverpaid'
  <2>1. Taken(t.payee) <= t.taken /\ t.earned <= earned[t.payee]
    BY <1>1 DEF PInv, OpenSound
  <2>2. /\ t.taken \in Nat /\ t.earned \in Nat /\ t.amount \in Nat
        /\ earned[t.payee] \in Nat /\ Taken(t.payee) \in Nat
    BY <1>1, <1>3 DEF PInv, TypeOK, Withdrawal, Amounts, PayoutsAssumption
  <2>3. Taken(t.payee) + t.amount <= earned[t.payee]
    BY <1>1, <2>1, <2>2
  <2> QED BY <1>2, <1>3, <2>3 DEF PInv, NotOverpaid
<1> QED BY <1>4, <1>5, <1>6, <1>7 DEF PInv

\* A decision, as the totals see it.
LEMMA DecideMoves ==
    ASSUME PayoutsAssumption, PInv, NEW i \in DOMAIN payouts, NEW from \in Statuses,
           NEW to \in Statuses, from # to, Decide(i, from, to)
    PROVE  \E row \in Payout :
              /\ row.payee \in Payees /\ row.amount \in Amounts
              /\ payouts' \in Seq(Payout) /\ Len(payouts') = Len(payouts)
              /\ \A p, status : p # row.payee => Total(p, status)' = Total(p, status)
              /\ Total(row.payee, from) = row.amount + Total(row.payee, from)'
              /\ Total(row.payee, to)' = row.amount + Total(row.payee, to)
              /\ \A status : status # from /\ status # to =>
                    Total(row.payee, status)' = Total(row.payee, status)
<1>1. PICK Q, R : /\ Q = payouts /\ R = payouts'
                  /\ \A p, status : /\ Total(p, status) = TotalOf(Q, p, status)
                                    /\ Total(p, status)' = TotalOf(R, p, status)
  BY TotalsAre
<1>2. /\ Q \in Seq(Payout) /\ i \in DOMAIN Q /\ Q[i].status = from /\ Q[i].status # to
      /\ Decides(Q, i, to, R)
  BY <1>1 DEF Decide, Decides, PInv, TypeOK
<1>3. PICK row \in Payout : row = Q[i]
  BY <1>2
<1>4. row.payee \in Payees /\ row.amount \in Amounts
  BY DEF Payout
<1>5. R \in Seq(Payout) /\ Len(R) = Len(Q)
  BY <1>2, DecideTotals
<1>6. ASSUME NEW p PROVE Moves(Q, i, to, R, p)
  BY <1>2, DecideTotals
<1>7. /\ \A p, status : p # row.payee => TotalOf(R, p, status) = TotalOf(Q, p, status)
      /\ TotalOf(Q, row.payee, from) = row.amount + TotalOf(R, row.payee, from)
      /\ TotalOf(R, row.payee, to) = row.amount + TotalOf(Q, row.payee, to)
      /\ \A status : status # from /\ status # to =>
            TotalOf(R, row.payee, status) = TotalOf(Q, row.payee, status)
  BY <1>2, <1>3, <1>6 DEF Moves
<1> QED BY <1>1, <1>4, <1>5, <1>7

LEMMA DecideStep ==
    ASSUME PayoutsAssumption, NoneAssumption, PInv, NEW i \in DOMAIN payouts,
           AdminComplete(i) \/ AdminFail(i) \/ AdminReopen(i)
    PROVE  PInv'
<1>1. PICK from, to : /\ Decide(i, from, to) /\ from # to
                      /\ <<from, to>> \in {<<"PROCESSING", "COMPLETED">>, <<"PROCESSING", "FAILED">>,
                                           <<"COMPLETED", "PROCESSING">>}
  BY DEF AdminComplete, AdminFail, AdminReopen
<1>2. from \in Statuses /\ to \in Statuses
  BY <1>1 DEF Statuses
<1>3. PICK row \in Payout :
              /\ row.payee \in Payees /\ row.amount \in Amounts
              /\ payouts' \in Seq(Payout) /\ Len(payouts') = Len(payouts)
              /\ \A p, status : p # row.payee => Total(p, status)' = Total(p, status)
              /\ Total(row.payee, from) = row.amount + Total(row.payee, from)'
              /\ Total(row.payee, to)' = row.amount + Total(row.payee, to)
              /\ \A status : status # from /\ status # to =>
                    Total(row.payee, status)' = Total(row.payee, status)
  BY <1>1, <1>2, DecideMoves
<1>4. earned' = earned /\ req' = req
  BY <1>1 DEF Decide
<1>5. TypeOK'
  BY <1>3, <1>4 DEF PInv, TypeOK
<1>6. \A p, status : Total(p, status) \in Nat /\ Total(p, status)' \in Nat
  BY <1>3, TotalsStayNatural, TotalsAreNatural DEF PInv
<1>7. \A p : Taken(p)' \in Nat /\ Taken(p) \in Nat /\ Taken(p)' <= Taken(p)
  <2> SUFFICES ASSUME NEW p PROVE Taken(p)' \in Nat /\ Taken(p) \in Nat /\ Taken(p)' <= Taken(p)
    OBVIOUS
  <2>1. PICK amount \in Nat : amount = row.amount
    BY <1>3 DEF Amounts
  <2>2. CASE p # row.payee
    BY <1>3, <1>6, <2>2 DEF Taken
  <2>3. CASE p = row.payee
    <3>1. Taken(p) = Total(p, "COMPLETED") + Total(p, "PROCESSING")
      BY DEF Taken
    <3>2. Taken(p)' = Total(p, "COMPLETED")' + Total(p, "PROCESSING")'
      BY DEF Taken
    <3>3. CASE from = "PROCESSING" /\ to = "COMPLETED"
      <4>1. Total(p, "COMPLETED")' = amount + Total(p, "COMPLETED")
        BY <1>3, <2>1, <2>3, <3>3
      <4>2. Total(p, "PROCESSING") = amount + Total(p, "PROCESSING")'
        BY <1>3, <2>1, <2>3, <3>3
      <4> QED BY <1>6, <2>1, <3>1, <3>2, <4>1, <4>2
    <3>4. CASE from = "PROCESSING" /\ to = "FAILED"
      <4>1. Total(p, "COMPLETED")' = Total(p, "COMPLETED")
        BY <1>3, <2>3, <3>4
      <4>2. Total(p, "PROCESSING") = amount + Total(p, "PROCESSING")'
        BY <1>3, <2>1, <2>3, <3>4
      <4> QED BY <1>6, <2>1, <3>1, <3>2, <4>1, <4>2
    <3>5. CASE from = "COMPLETED" /\ to = "PROCESSING"
      <4>1. Total(p, "COMPLETED") = amount + Total(p, "COMPLETED")'
        BY <1>3, <2>1, <2>3, <3>5
      <4>2. Total(p, "PROCESSING")' = amount + Total(p, "PROCESSING")
        BY <1>3, <2>1, <2>3, <3>5
      <4> QED BY <1>6, <2>1, <3>1, <3>2, <4>1, <4>2
    <3> QED BY <1>1, <3>3, <3>4, <3>5
  <2> QED BY <2>2, <2>3
<1>8. OpenSound'
  <2> SUFFICES ASSUME NEW u \in Sessions, req[u] # None, NEW p, p = req[u].payee
               PROVE  /\ Minimum <= req[u].amount
                      /\ req[u].stage # "locked" => req[u].earned <= earned[p]
                      /\ req[u].stage = "summed" => Taken(p)' <= req[u].taken
    BY <1>4 DEF OpenSound
  <2>1. req[u].taken \in Nat
    BY DEF PInv, TypeOK, Withdrawal
  <2>3. Taken(p)' \in Nat /\ Taken(p) \in Nat /\ Taken(p)' <= Taken(p)
    BY <1>7
  <2>4. req[u].stage = "summed" => Taken(p) <= req[u].taken
    BY DEF PInv, OpenSound
  <2>5. req[u].stage = "summed" => Taken(p)' <= req[u].taken
    BY <2>1, <2>3, <2>4
  <2> QED BY <2>5 DEF PInv, OpenSound
<1>9. NotOverpaid'
  <2> SUFFICES ASSUME NEW p \in Payees PROVE Taken(p)' <= earned[p]
    BY <1>4 DEF NotOverpaid
  <2>1. earned[p] \in Nat /\ Taken(p) <= earned[p]
    BY DEF PInv, TypeOK, NotOverpaid, PayoutsAssumption
  <2> QED BY <1>7, <2>1
<1>10. OneLock'
  BY <1>4 DEF PInv, OneLock
<1> QED BY <1>5, <1>8, <1>9, <1>10 DEF PInv

(***************************************************************************)
(* The invariant                                                           *)
(***************************************************************************)
\* No rows, no totals.
LEMMA NothingTaken ==
    ASSUME PayoutsAssumption, payouts = <<>>
    PROVE  \A p, status : Total(p, status) = 0
<1>1. PICK Q : Q = payouts
  OBVIOUS
<1>2. ASSUME NEW p, NEW status PROVE Total(p, status) = 0
  <2>1. Rows(Q, p, status) = {}
    BY <1>1 DEF Rows
  <2>2. Priced(Q, {})
    BY FS_EmptySet DEF Priced, PayoutsAssumption
  <2>3. Total(p, status) = Sum(Q, {})
    BY <1>1, <2>1, TotalsAre DEF TotalOf
  <2> QED BY <2>2, <2>3, SumIsCoins, CoinsOfNone
<1> QED BY <1>2

LEMMA InitInv ==
    ASSUME PayoutsAssumption, NoneAssumption, Init
    PROVE  PInv
<1>1. \A p : Taken(p) = 0
  BY NothingTaken DEF Init, Taken
<1>2. TypeOK
  BY DEF Init, TypeOK, PayoutsAssumption
<1>3. OpenSound /\ OneLock
  BY DEF Init, OpenSound, OneLock
<1>4. NotOverpaid
  BY <1>1 DEF Init, NotOverpaid
<1> QED BY <1>2, <1>3, <1>4 DEF PInv

LEMMA StepInv ==
    ASSUME PayoutsAssumption, NoneAssumption, PInv, [Next]_vars
    PROVE  PInv'
<1>1. CASE UNCHANGED vars
  <2>1. earned' = earned /\ payouts' = payouts /\ req' = req /\ \A q : Taken(q)' = Taken(q)
    BY <1>1, RowsStay DEF vars
  <2> QED BY <2>1 DEF PInv, TypeOK, OpenSound, OneLock, NotOverpaid
<1>2. ASSUME NEW s \in Sessions,
             \/ \E p \in Payees, amount \in Amounts : RequestPayout(s, p, amount)
             \/ ReadEarned(s) \/ ReadPayouts(s) \/ InsertPayout(s) \/ Abort(s)
      PROVE  PInv'
  BY <1>2, RequestPayoutStep, ReadStep, InsertPayoutStep, AbortStep
<1>3. ASSUME NEW i \in DOMAIN payouts, AdminComplete(i) \/ AdminFail(i) \/ AdminReopen(i)
      PROVE  PInv'
  BY <1>3, DecideStep
<1>4. ASSUME NEW p \in Payees, NEW amount \in Amounts, Earn(p, amount)
      PROVE  PInv'
  BY <1>4, EarnStep
<1> QED BY <1>1, <1>2, <1>3, <1>4 DEF Next

LEMMA Invariance == Spec => []PInv
<1>1. Init => PInv
  BY PayoutsAssumption, NoneAssumption, InitInv
<1>2. PInv /\ [Next]_vars => PInv'
  BY PayoutsAssumption, NoneAssumption, StepInv
<1> QED BY <1>1, <1>2, PTL DEF Spec

\* services/vendor/finance.py and services/rider/earnings.py: earnings, payouts and open
\* requests hold values of their kind, and amounts never run below zero, however many
\* requests are open at once.
THEOREM TypeCorrect == Spec => []TypeOK
<1>1. PInv => TypeOK
  BY DEF PInv
<1> QED BY <1>1, Invariance, PTL

\* request_payout and the finance desk: what a payee was paid and is about to be paid
\* never exceeds what the payee earned, whatever interleaves with the two reads.
THEOREM NobodyOverpaid == Spec => []NotOverpaid
<1>1. PInv => NotOverpaid
  BY DEF PInv
<1> QED BY <1>1, Invariance, PTL

(***************************************************************************)
(* The rows implement the ledger                                           *)
(***************************************************************************)
Column(status) == [p \in Payees |-> Total(p, status)]

\* An insertion is a withdrawal of the ledger: what the request summed is not less than
\* what is taken now, and what it saw earned is still there.
LEMMA InsertWithdraws ==
    ASSUME PayoutsAssumption, NoneAssumption, PInv, NEW s \in Sessions, InsertPayout(s)
    PROVE  \E p \in Payees, amount \in Amounts : Promise!Withdraw(p, amount)
<1>1. PICK t \in Withdrawal :
              /\ t = req[s] /\ t # None /\ t.stage = "summed" /\ t.payee \in Payees
              /\ t.amount \in Amounts /\ t.amount <= t.earned - t.taken
              /\ payouts' \in Seq(Payout) /\ Len(payouts') <= MaxPayouts
              /\ \A p, status : Total(p, status)' =
                    Total(p, status) + IF p = t.payee /\ status = "PROCESSING" THEN t.amount ELSE 0
  BY InsertTotals
<1>2. /\ Minimum <= t.amount /\ t.earned <= earned[t.payee] /\ Taken(t.payee) <= t.taken
      /\ earned' = earned
  BY <1>1 DEF PInv, OpenSound, InsertPayout
<1>3. \A p, status : Total(p, status) \in Nat
  BY TotalsAreNatural DEF PInv
<1>4. /\ t.taken \in Nat /\ t.earned \in Nat /\ t.amount \in Nat /\ earned[t.payee] \in Nat
  BY <1>1 DEF PInv, TypeOK, Withdrawal, Amounts, PayoutsAssumption
<1>5. t.amount <= earned[t.payee] - Total(t.payee, "COMPLETED") - Total(t.payee, "PROCESSING")
  <2>1. PICK done, open : /\ done = Total(t.payee, "COMPLETED") /\ done \in Nat
                          /\ open = Total(t.payee, "PROCESSING") /\ open \in Nat
    BY <1>3
  <2>2. PICK all : all = earned[t.payee] /\ all \in Nat
    BY <1>4
  <2>3. done + open <= t.taken /\ t.earned <= all /\ t.amount <= t.earned - t.taken
    BY <1>1, <1>2, <2>1, <2>2 DEF Taken
  <2>4. t.amount <= all - done - open
    BY <1>4, <2>1, <2>2, <2>3
  <2> QED BY <2>1, <2>2, <2>4
<1>6. Column("COMPLETED")' = Column("COMPLETED")
  <2>1. \A p : Total(p, "COMPLETED")' = Total(p, "COMPLETED")
    BY <1>1, <1>3
  <2> QED BY <2>1 DEF Column
<1>7. Column("PROCESSING")' = [Column("PROCESSING") EXCEPT ![t.payee] = @ + t.amount]
  <2>1. \A p : Total(p, "PROCESSING")' =
                  Total(p, "PROCESSING") + IF p = t.payee THEN t.amount ELSE 0
    BY <1>1
  <2>2. \A p \in Payees : Total(p, "PROCESSING")' =
                  IF p = t.payee THEN Total(p, "PROCESSING") + t.amount ELSE Total(p, "PROCESSING")
    BY <1>3, <1>4, <2>1
  <2> QED BY <2>2 DEF Column
<1>8. Promise!Withdraw(t.payee, t.amount)
  BY <1>1, <1>2, <1>5, <1>6, <1>7 DEF Column, Promise!Withdraw, Promise!Available
<1> QED BY <1>1, <1>8

\* A decision moves one amount between the columns of one payee, or out of them.
LEMMA DecisionMoves ==
    ASSUME PayoutsAssumption, NoneAssumption, PInv, NEW i \in DOMAIN payouts,
           AdminComplete(i) \/ AdminFail(i) \/ AdminReopen(i)
    PROVE  \E p \in Payees, amount \in Amounts :
              Promise!Pay(p, amount) \/ Promise!Bounce(p, amount) \/ Promise!Reopen(p, amount)
<1>1. PICK from, to : /\ Decide(i, from, to) /\ from # to
                      /\ <<from, to>> \in {<<"PROCESSING", "COMPLETED">>, <<"PROCESSING", "FAILED">>,
                                           <<"COMPLETED", "PROCESSING">>}
  BY DEF AdminComplete, AdminFail, AdminReopen
<1>2. from \in Statuses /\ to \in Statuses
  BY <1>1 DEF Statuses
<1>3. PICK row \in Payout :
              /\ row.payee \in Payees /\ row.amount \in Amounts
              /\ payouts' \in Seq(Payout) /\ Len(payouts') = Len(payouts)
              /\ \A p, status : p # row.payee => Total(p, status)' = Total(p, status)
              /\ Total(row.payee, from) = row.amount + Total(row.payee, from)'
              /\ Total(row.payee, to)' = row.amount + Total(row.payee, to)
              /\ \A status : status # from /\ status # to =>
                    Total(row.payee, status)' = Total(row.payee, status)
  BY <1>1, <1>2, DecideMoves
<1>4. PICK p \in Payees, amount \in Amounts : p = row.payee /\ amount = row.amount
  BY <1>3
<1>5. earned' = earned /\ amount \in Nat
  BY <1>1 DEF Decide, Amounts
<1>6. \A q, status : Total(q, status) \in Nat /\ Total(q, status)' \in Nat
  BY <1>3, TotalsStayNatural, TotalsAreNatural DEF PInv
<1>7. /\ Column(from)' = [Column(from) EXCEPT ![p] = @ - amount] /\ amount <= Column(from)[p]
      /\ Column(to)' = [Column(to) EXCEPT ![p] = @ + amount]
      /\ \A status : status # from /\ status # to => Column(status)' = Column(status)
  <2>1. /\ \A q \in Payees : Total(q, from)' = IF q = p THEN Total(q, from) - amount ELSE Total(q, from)
        /\ \A q \in Payees : Total(q, to)' = IF q = p THEN Total(q, to) + amount ELSE Total(q, to)
        /\ amount <= Total(p, from)
    <3>1. /\ Total(p, from) = amount + Total(p, from)'
          /\ Total(p, to)' = amount + Total(p, to)
      BY <1>3, <1>4
    <3>2. \A q \in Payees : q # p => Total(q, from)' = Total(q, from) /\ Total(q, to)' = Total(q, to)
      BY <1>3, <1>4
    <3>3. /\ Total(p, from) \in Nat /\ Total(p, from)' \in Nat
          /\ Total(p, to) \in Nat /\ Total(p, to)' \in Nat
      BY <1>6
    <3>4. /\ Total(p, from)' = Total(p, from) - amount /\ Total(p, to)' = Total(p, to) + amount
          /\ amount <= Total(p, from)
      BY <1>5, <3>1, <3>3
    <3> QED BY <3>2, <3>4
  <2>2. \A status : status # from /\ status # to =>
            \A q \in Payees : Total(q, status)' = Total(q, status)
    BY <1>3, <1>4
  <2> QED BY <2>1, <2>2 DEF Column
<1>8. CASE from = "PROCESSING" /\ to = "COMPLETED"
  <2>1. Promise!Pay(p, amount)
    BY <1>5, <1>7, <1>8 DEF Column, Promise!Pay
  <2> QED BY <2>1
<1>9. CASE from = "PROCESSING" /\ to = "FAILED"
  <2>1. Promise!Bounce(p, amount)
    BY <1>5, <1>7, <1>9 DEF Column, Promise!Bounce
  <2> QED BY <2>1
<1>10. CASE from = "COMPLETED" /\ to = "PROCESSING"
  <2>1. Promise!Reopen(p, amount)
    BY <1>5, <1>7, <1>10 DEF Column, Promise!Reopen
  <2> QED BY <2>1
<1> QED BY <1>1, <1>8, <1>9, <1>10

\* Steps that leave the rows alone leave the columns alone.
LEMMA ColumnsStay ==
    ASSUME UNCHANGED payouts
    PROVE  \A status : Column(status)' = Column(status)
BY RowsStay DEF Column

LEMMA StepKeepsLedger ==
    ASSUME PayoutsAssumption, NoneAssumption, PInv, [Next]_vars
    PROVE  [Promise!Next]_(Promise!ledger)
<1>1. CASE UNCHANGED <<earned, payouts>>
  <2>1. /\ earned' = earned /\ Column("COMPLETED")' = Column("COMPLETED")
        /\ Column("PROCESSING")' = Column("PROCESSING")
    BY <1>1, ColumnsStay
  <2> QED BY <2>1 DEF Column, Promise!ledger
<1>2. ASSUME NEW s \in Sessions, InsertPayout(s)
      PROVE  Promise!Next
  BY <1>2, InsertWithdraws DEF Promise!Next
<1>3. ASSUME NEW i \in DOMAIN payouts, AdminComplete(i) \/ AdminFail(i) \/ AdminReopen(i)
      PROVE  Promise!Next
  BY <1>3, DecisionMoves DEF Promise!Next
<1>4. ASSUME NEW p \in Payees, NEW amount \in Amounts, Earn(p, amount)
      PROVE  Promise!Next
  <2>1. /\ earned' = [earned EXCEPT ![p] = @ + amount]
        /\ Column("COMPLETED")' = Column("COMPLETED")
        /\ Column("PROCESSING")' = Column("PROCESSING")
    BY <1>4, ColumnsStay DEF Earn
  <2>2. Promise!Earn(p, amount)
    BY <2>1 DEF Column, Promise!Earn
  <2> QED BY <2>2 DEF Promise!Next
<1>5. UNCHANGED vars => UNCHANGED <<earned, payouts>>
  BY DEF vars
<1>6. ASSUME NEW s \in Sessions,
             \/ \E p \in Payees, amount \in Amounts : RequestPayout(s, p, amount)
             \/ ReadEarned(s) \/ ReadPayouts(s) \/ Abort(s)
      PROVE  UNCHANGED <<earned, payouts>>
  BY <1>6 DEF RequestPayout, ReadEarned, ReadPayouts, Abort
<1> QED BY <1>1, <1>2, <1>3, <1>4, <1>5, <1>6 DEF Next

LEMMA InitKeepsLedger ==
    ASSUME PayoutsAssumption, Init
    PROVE  Promise!Init
<1>1. \A status : Column(status) = [p \in Payees |-> 0]
  BY NothingTaken DEF Init, Column
<1> QED BY <1>1 DEF Init, Column, Promise!Init

\* vendor/finance.py and rider/earnings.py: the rows, with withdrawals and decisions
\* interleaved in every way, take only the steps the ledger allows; each withdrawal is
\* within what is available at the moment it is inserted.
THEOREM LedgerKept == Spec => KeepsLedger
<1>1. Init => Promise!Init
  BY PayoutsAssumption, InitKeepsLedger
<1>2. PInv /\ [Next]_vars => [Promise!Next]_(Promise!ledger)
  BY PayoutsAssumption, NoneAssumption, StepKeepsLedger
<1> QED BY <1>1, <1>2, Invariance, PTL DEF Spec, KeepsLedger, Promise!Spec

(***************************************************************************)
(* The ledger itself, over any columns and any sums of money               *)
(***************************************************************************)
CONSTANT Sums
VARIABLES completed, processing

Books == INSTANCE Ledger WITH Amounts <- Sums

BInv == Books!TypeOK /\ Books!Solvent

LEMMA BooksStep ==
    ASSUME BInv, NEW p \in Payees, NEW amount \in Nat,
           \/ Books!Earn(p, amount) \/ Books!Withdraw(p, amount)
           \/ Books!Pay(p, amount) \/ Books!Bounce(p, amount) \/ Books!Reopen(p, amount)
    PROVE  BInv'
<1> USE DEF BInv, Books!TypeOK, Books!Solvent
<1>1. CASE Books!Earn(p, amount)
  BY <1>1 DEF Books!Earn
\* The guard of a withdrawal is what keeps the ledger solvent.
<1>2. CASE Books!Withdraw(p, amount)
  <2>1. /\ processing[p] \in Nat /\ earned[p] \in Nat /\ completed[p] \in Nat
        /\ amount <= earned[p] - completed[p] - processing[p]
    BY <1>2 DEF Books!Withdraw, Books!Available
  <2>2. completed[p] + (processing[p] + amount) <= earned[p]
    BY <2>1
  <2> QED BY <1>2, <2>1, <2>2 DEF Books!Withdraw
<1>3. CASE Books!Pay(p, amount)
  BY <1>3 DEF Books!Pay
<1>4. CASE Books!Bounce(p, amount)
  BY <1>4 DEF Books!Bounce
<1>5. CASE Books!Reopen(p, amount)
  BY <1>5 DEF Books!Reopen
<1> QED BY <1>1, <1>2, <1>3, <1>4, <1>5

\* services/vendor/finance.py, request_payout and admin_reopen: whatever is
\* withdrawn, bounced, paid and reopened, in whichever order, completed and
\* processing withdrawals never exceed the earnings.
THEOREM LedgerSolvent ==
    ASSUME Sums \subseteq Nat
    PROVE  Books!Spec => [](Books!TypeOK /\ Books!Solvent)
<1>1. Books!Init => BInv
  BY DEF Books!Init, BInv, Books!TypeOK, Books!Solvent
<1>2. BInv /\ [Books!Next]_(Books!ledger) => BInv'
  <2> SUFFICES ASSUME BInv, [Books!Next]_(Books!ledger) PROVE BInv'
    OBVIOUS
  <2>1. CASE UNCHANGED Books!ledger
    BY <2>1 DEF Books!ledger, BInv, Books!TypeOK, Books!Solvent
  <2>2. CASE Books!Next
    <3>1. PICK p \in Payees, amount \in Sums :
              \/ Books!Earn(p, amount) \/ Books!Withdraw(p, amount)
              \/ Books!Pay(p, amount) \/ Books!Bounce(p, amount) \/ Books!Reopen(p, amount)
      BY <2>2 DEF Books!Next
    <3>2. amount \in Nat
      OBVIOUS
    <3> QED BY <3>1, <3>2, BooksStep
  <2> QED BY <2>1, <2>2
<1> QED BY <1>1, <1>2, PTL DEF Books!Spec, BInv
=============================================================================
