------------------------------- MODULE Ledger -------------------------------
(***************************************************************************)
(* What an account and a budget show, whatever computes it: the sum over   *)
(* the sub-accounts at the bottom of the tree, each counted for itself and *)
(* for its own fringes.  An edit is answered at once or after some time    *)
(* during which the figures of before the edit are shown; a figure that    *)
(* belongs to neither side of an edit is never shown.                      *)
(***************************************************************************)
EXTENDS BudgetTree

VARIABLES
  live, parent, raw, fringed, terms,  \* the rows, as in RollUp
  figure,                             \* what an account or the budget shows
  busy                                \* an edit has not been answered yet

vars == <<live, parent, raw, fringed, terms, figure, busy>>

Shown == live \cup {Budget}
Nothing == [value |-> 0, fringes |-> 0]

(* Sub-accounts under n that nothing is under.                             *)
Leaves(n) ==
  {s \in Below(parent, IF n = Budget THEN live ELSE {n}) \cap Subs :
     s \notin {parent[t] : t \in Subs}}

Worth(n) ==
  [value   |-> Total([s \in Leaves(n) |-> raw[s]]),
   fringes |-> Total([s \in Leaves(n) |->
                        ContributionFromFringes(raw[s], fringed[s], terms)])]

Show(of(_)) ==
  [n \in Accounts \cup {Budget} |-> IF n \in Shown THEN of(n) ELSE Nothing]

Init ==
  /\ live = {}
  /\ parent = [s \in Subs |-> None]
  /\ raw = [s \in Subs |-> 0]
  /\ fringed = [s \in Subs |-> {}]
  /\ terms \in [Fringes -> Terms]
  /\ figure = [n \in Accounts \cup {Budget} |-> Nothing]
  /\ busy = FALSE

(* Any change of the rows, answered later or at once.                      *)
Edit ==
  /\ ~busy
  /\ \/ /\ busy' = TRUE
        /\ figure' = [n \in Accounts \cup {Budget} |->
                        IF n \in Shown' THEN figure[n] ELSE Nothing]
     \/ /\ busy' = FALSE
        /\ figure' = Show(Worth)'

(* The answer; a delete that was under way takes its rows with it.         *)
Answer ==
  /\ busy
  /\ live' \subseteq live
  /\ \A s \in Subs : parent'[s] \in {parent[s], None}
  /\ busy' = FALSE
  /\ figure' = Show(Worth)'

Next == Edit \/ Answer

Spec == Init /\ [][Next]_vars
=============================================================================
