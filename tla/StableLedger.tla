---------------------------- MODULE StableLedger ----------------------------
(***************************************************************************)
(* What the lending covenants promise together: KUSD exists only against   *)
(* debt.  Debt is opened once per account, within a capacity that is never *)
(* given back, and only ever retired; the supply moves with it atom for    *)
(* atom, whatever happens to the collateral.                               *)
(***************************************************************************)
EXTENDS Integers

CONSTANTS Accounts, Capacity

VARIABLES supply, debts, unused

ledgerVars == <<supply, debts, unused>>

LedgerInit ==
    /\ supply = 0
    /\ debts = [a \in Accounts |-> 0]
    /\ unused = Capacity

(* An account without debt takes debt on. *)
Mint(a, amount) ==
    /\ debts[a] = 0
    /\ amount \in 1..unused
    /\ debts' = [debts EXCEPT ![a] = amount]
    /\ supply' = supply + amount
    /\ unused' = unused - amount

(* Debt is retired by burning as much KUSD. *)
Retire(a, amount) ==
    /\ amount \in 1..debts[a]
    /\ debts' = [debts EXCEPT ![a] = @ - amount]
    /\ supply' = supply - amount
    /\ UNCHANGED unused

LedgerNext ==
    \E a \in Accounts :
        \/ \E amount \in 1..unused : Mint(a, amount)
        \/ \E amount \in 1..debts[a] : Retire(a, amount)

LedgerSpec == LedgerInit /\ [][LedgerNext]_ledgerVars
=============================================================================
