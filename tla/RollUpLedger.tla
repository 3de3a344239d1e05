---------------------------- MODULE RollUpLedger ----------------------------
(* The roll-up keeps the promise that Ledger states: what it stores on an  *)
(* account and on the budget, row by row and level by level, is the sum    *)
(* over the bottom of the tree.                                            *)
EXTENDS RollUp

(* accumulated_value and accumulated_fringe_contribution of the rows that  *)
(* a client is shown as the total of an account and of the budget.         *)
Figure ==
  [n \in Accounts \cup {Budget} |->
     [value |-> rec[n].accumulated, fringes |-> rec[n].accumulatedFringe]]

Promise == INSTANCE Ledger WITH figure <- Figure, busy <- ~Idle

(* The roll-up implements the ledger.                                      *)
KeepsPromise == Promise!Spec
=============================================================================
