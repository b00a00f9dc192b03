-------------------------------- MODULE Ledger --------------------------------
(***************************************************************************)
(* What the platform promises about the money it owes a vendor or a rider  *)
(* (vendor/finance.py and rider/earnings.py keep the same ledger rules):   *)
(* the balance is derived, never stored; a withdrawal is deducted while it *)
(* is PROCESSING and stays deducted when COMPLETED; a FAILED one is        *)
(* withdrawable again; a reopened one moves nothing.                       *)
(***************************************************************************)
EXTENDS Integers

CONSTANTS
    Payees,   \* the stores and the riders
    Amounts,  \* sums of money, in paisa
    Minimum   \* settings.PAYOUT_MIN_AMOUNT

VARIABLES earned, completed, processing

ledger == <<earned, completed, processing>>

Init ==
    /\ earned = [p \in Payees |-> 0]
    /\ completed = [p \in Payees |-> 0]
    /\ processing = [p \in Payees |-> 0]

Available(p) == earned[p] - completed[p] - processing[p]

\* A delivered order's credit, or an incentive.
Earn(p, amount) ==
    /\ earned' = [earned EXCEPT ![p] = @ + amount]
    /\ UNCHANGED <<completed, processing>>

Withdraw(p, amount) ==
    /\ Minimum <= amount /\ amount <= Available(p)
    /\ processing' = [processing EXCEPT ![p] = @ + amount]
    /\ UNCHANGED <<earned, completed>>

Pay(p, amount) ==
    /\ amount <= processing[p]
    /\ processing' = [processing EXCEPT ![p] = @ - amount]
    /\ completed' = [completed EXCEPT ![p] = @ + amount]
    /\ UNCHANGED earned

Bounce(p, amount) ==
    /\ amount <= processing[p]
    /\ processing' = [processing EXCEPT ![p] = @ - amount]
    /\ UNCHANGED <<earned, completed>>

Reopen(p, amount) ==
    /\ amount <= completed[p]
    /\ completed' = [completed EXCEPT ![p] = @ - amount]
    /\ processing' = [processing EXCEPT ![p] = @ + amount]
    /\ UNCHANGED earned

Next == \E p \in Payees, amount \in Amounts :
    \/ Earn(p, amount) \/ Withdraw(p, amount)
    \/ Pay(p, amount) \/ Bounce(p, amount) \/ Reopen(p, amount)

Spec == Init /\ [][Next]_ledger

\* The totals are amounts of money.
TypeOK ==
    /\ earned \in [Payees -> Nat]
    /\ completed \in [Payees -> Nat]
    /\ processing \in [Payees -> Nat]

\* Nobody is paid, or is about to be paid, more than they earned.
Solvent == \A p \in Payees : completed[p] + processing[p] <= earned[p]
===============================================================================
