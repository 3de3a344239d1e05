---------------------------- MODULE MCActualize ----------------------------
(* A small budget: two sub-accounts of one account, one of them with a     *)
(* child, and a markup on the account.                                     *)
EXTENDS Actualize, TLC

CONSTANTS a, p, q, c, m, x1, x2, w1, w2

MCParent == [r \in {a, p, q, c} |-> CASE r = a -> BudgetRow [] r = p -> a
                                      [] r = q -> a [] r = c -> p]
MCMarkupParent == [k \in {m} |-> a]
MCKey == [r \in {BudgetRow, a, p, q, c} |-> CASE r = BudgetRow -> 0 [] r = a -> 1
                                       [] r = p -> 1 [] r = q -> 2 [] r = c -> 3]
MCSituations == Situations
Symmetry == Permutations(Ids) \cup Permutations(Worker)
=============================================================================
