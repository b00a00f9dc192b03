------------------------------- MODULE Payouts -------------------------------
(***************************************************************************)
(* Withdrawals: the Withdraw Money buttons (vendor/finance.request_payout, *)
(* rider/earnings.request_payout), the finance desk's decisions on them    *)
(* (admin_complete, admin_fail, admin_reopen of both) and the earnings     *)
(* they draw on.                                                           *)
(*                                                                         *)
(* A withdrawal locks its payee's row, reads the earnings in one statement *)
(* and the payouts so far in another, each seeing what is committed when   *)
(* it runs, and inserts its own payout at its commit.                      *)
(***************************************************************************)
EXTENDS Integers, FiniteSets, Sequences, FiniteSetsExt

CONSTANTS
    Payees, Minimum,
    Sessions,    \* database sessions that may be open at the same time
    MaxEarned,   \* bound: what one payee ever earns
    MaxPayouts,  \* bound: payouts ever requested
    None

ASSUME PayoutsAssumption ==
    /\ Minimum \in Nat \ {0}
    /\ MaxEarned \in Nat /\ MaxPayouts \in Nat

Statuses == {"PROCESSING", "COMPLETED", "FAILED"}
Amounts == 1..MaxEarned

Payout == [payee : Payees, amount : Amounts, status : Statuses]

\* An open withdrawal: stage is the last thing it did.
Withdrawal == [payee : Payees, amount : Amounts, stage : {"locked", "earned", "summed"},
               earned : Nat, taken : Nat]

\* A request is not the absence of one.
ASSUME NoneAssumption == None \notin Withdrawal

VARIABLES
    earned,   \* delivered orders' credits and incentives, summed
    payouts,  \* vendor_payouts and rider_payouts, oldest first
    req       \* the open withdrawal of each session

vars == <<earned, payouts, req>>

Init ==
    /\ earned = [p \in Payees |-> 0]
    /\ payouts = <<>>
    /\ req = [s \in Sessions |-> None]

\* SUM(amount) ... GROUP BY status.
Total(p, status) ==
    MapThenSumSet(LAMBDA i : payouts[i].amount,
                  {i \in DOMAIN payouts : payouts[i].payee = p /\ payouts[i].status = status})

Taken(p) == Total(p, "COMPLETED") + Total(p, "PROCESSING")

(***************************************************************************)
(* request_payout                                                          *)
(***************************************************************************)
\* Mutant of Locked: the payee's row is read without FOR UPDATE.
NeverLocked(p, s) == FALSE

Locked(p, s) == \E x \in Sessions \ {s} : req[x] # None /\ req[x].payee = p

RequestPayout(s, p, amount) ==
    /\ req[s] = None
    /\ amount >= Minimum
    /\ ~Locked(p, s)
    /\ req' = [req EXCEPT ![s] = [payee |-> p, amount |-> amount, stage |-> "locked",
                                  earned |-> 0, taken |-> 0]]
    /\ UNCHANGED <<earned, payouts>>

At(s, stage) == req[s] # None /\ req[s].stage = stage

ReadEarned(s) ==
    /\ At(s, "locked")
    /\ req' = [req EXCEPT ![s].stage = "earned", ![s].earned = earned[req[s].payee]]
    /\ UNCHANGED <<earned, payouts>>

ReadPayouts(s) ==
    /\ At(s, "earned")
    /\ req' = [req EXCEPT ![s].stage = "summed", ![s].taken = Taken(req[s].payee)]
    /\ UNCHANGED <<earned, payouts>>

InsertPayout(s) ==
    LET t == req[s] IN
    /\ At(s, "summed")
    /\ t.amount <= t.earned - t.taken
    /\ Len(payouts) < MaxPayouts
    /\ payouts' = Append(payouts, [payee |-> t.payee, amount |-> t.amount,
                                   status |-> "PROCESSING"])
    /\ req' = [req EXCEPT ![s] = None]
    /\ UNCHANGED earned

\* An insufficient balance, an exception or a lost connection.
Abort(s) ==
    /\ req[s] # None
    /\ req' = [req EXCEPT ![s] = None]
    /\ UNCHANGED <<earned, payouts>>

(***************************************************************************)
(* The finance desk, under FOR UPDATE of the payout, and the earnings      *)
(***************************************************************************)
Decide(i, from, to) ==
    /\ payouts[i].status = from
    /\ payouts' = [payouts EXCEPT ![i].status = to]
    /\ UNCHANGED <<earned, req>>

AdminComplete(i) == Decide(i, "PROCESSING", "COMPLETED")
AdminFail(i) == Decide(i, "PROCESSING", "FAILED")

\* Mutant of AdminReopen: any payout that was decided goes back in the queue.
ReopenDecided(i) ==
    \/ Decide(i, "COMPLETED", "PROCESSING")
    \/ Decide(i, "FAILED", "PROCESSING")

AdminReopen(i) == Decide(i, "COMPLETED", "PROCESSING")

\* An order is delivered, or an operator grants an incentive.
Earn(p, amount) ==
    /\ earned[p] + amount <= MaxEarned
    /\ earned' = [earned EXCEPT ![p] = @ + amount]
    /\ UNCHANGED <<payouts, req>>

Next ==
    \/ \E s \in Sessions :
          \/ \E p \in Payees, amount \in Amounts : RequestPayout(s, p, amount)
          \/ ReadEarned(s) \/ ReadPayouts(s) \/ InsertPayout(s)
          \/ Abort(s)
    \/ \E i \in DOMAIN payouts : AdminComplete(i) \/ AdminFail(i) \/ AdminReopen(i)
    \/ \E p \in Payees, amount \in Amounts : Earn(p, amount)

Spec == Init /\ [][Next]_vars

(***************************************************************************)
(* Properties                                                              *)
(***************************************************************************)
\* Every variable holds a value of its kind.
TypeOK ==
    /\ earned \in [Payees -> 0..MaxEarned]
    /\ payouts \in Seq(Payout) /\ Len(payouts) <= MaxPayouts
    /\ req \in [Sessions -> Withdrawal \cup {None}]

Promise == INSTANCE Ledger WITH
    completed <- [p \in Payees |-> Total(p, "COMPLETED")],
    processing <- [p \in Payees |-> Total(p, "PROCESSING")]

\* Two withdrawals at once, decisions made between a withdrawal's two reads, and
\* reopened payouts included, the rows keep the promise of the ledger: a
\* withdrawal is within what is available when it is inserted. The ledger never pays
\* more than was earned, so neither do the rows (PayoutsProofs).
KeepsLedger == Promise!Spec
=============================================================================
