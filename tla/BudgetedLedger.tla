--------------------------- MODULE BudgetedLedger ---------------------------
(***************************************************************************)
(* What cost tracking promises a tenant: runs are admitted while the       *)
(* month's spending is below the budget, chat requests always, and what a  *)
(* request cost is added to the spending of one month, at once, at most    *)
(* once, and never taken back.                                             *)
(***************************************************************************)
EXTENDS Integers

CONSTANTS Requests, Months, Budget

VARIABLES
    month,
    spent,      \* per month
    admitted,   \* runs that passed the budget check
    unmetered,  \* requests that need not pass it
    settled     \* requests whose cost is in spent

ledgerVars == <<month, spent, admitted, unmetered, settled>>

LedgerInit ==
    /\ month = 0
    /\ spent = [m \in Months |-> 0]
    /\ admitted = {} /\ unmetered = {} /\ settled = {}

Admit(r) ==
    /\ r \notin admitted
    /\ Budget > 0 => spent[month] < Budget
    /\ admitted' = admitted \cup {r}
    /\ UNCHANGED <<month, spent, unmetered, settled>>

Pass(r) ==
    /\ unmetered' = unmetered \cup {r}
    /\ UNCHANGED <<month, spent, admitted, settled>>

Settle(r) ==
    /\ r \in (admitted \cup unmetered) \ settled
    /\ settled' = settled \cup {r}
    /\ \E m \in Months : /\ m <= month /\ spent'[m] > spent[m]
                           /\ spent' = [spent EXCEPT ![m] = spent'[m]]
    /\ UNCHANGED <<month, admitted, unmetered>>

NextMonth ==
    /\ month' = month + 1
    /\ UNCHANGED <<spent, admitted, unmetered, settled>>

LedgerNext == NextMonth \/ \E r \in Requests : Admit(r) \/ Pass(r) \/ Settle(r)

LedgerSpec == LedgerInit /\ [][LedgerNext]_ledgerVars

=============================================================================
