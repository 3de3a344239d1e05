----------------------------- MODULE BudgetTree -----------------------------
(***************************************************************************)
(* The rows of one budget and the arithmetic done on them.                 *)
(*                                                                         *)
(* A budget owns accounts, an account owns sub-accounts and a sub-account  *)
(* may own further sub-accounts.  Every row stores figures accumulated     *)
(* from its children; this module holds the pure part of how they are      *)
(* computed, and no state.                                                 *)
(***************************************************************************)
EXTENDS Integers, FiniteSets, Functions

CONSTANTS
  Budget,    \* the root: a Budget or a Template
  Accounts,  \* primary keys an Account may have
  Subs,      \* primary keys a SubAccount may have
  Fringes,   \* primary keys a Fringe may have
  None,      \* Python's None; also the parent of a row that does not exist
  Raws,      \* values multiplier * rate * quantity may have
  Terms      \* what a Fringe may say: unit, rate and cutoff

Parents == Accounts \cup Subs
Nodes == Parents \cup {Budget}
Units == {"flat", "percent", None}

ASSUME TreeAssumption ==
  /\ Accounts \cap Subs = {}
  /\ Budget \notin Parents
  /\ None \notin Nodes
  /\ 0 \in Raws

ASSUME TermsAssumption ==
  \A t \in Terms : DOMAIN t = {"unit", "rate", "cutoff"} /\ t.unit \in Units

-----------------------------------------------------------------------------
(* The figures of a row.  `fringe` is the row's own fringe_contribution;   *)
(* only a SubAccount has one, so it stays 0 on an Account or a Budget.     *)

Zero == [accumulated |-> 0, accumulatedFringe |-> 0, fringe |-> 0]

Unwritten == [n \in {} |-> Zero]

(* cumulative_sum over one value per child.  A child that adds nothing     *)
(* makes no difference, and with none left the initial value is returned.  *)
Counting(f) == [x \in {y \in DOMAIN f : f[y] # 0} |-> f[x]]

Sum(f) == FoldFunction(LAMBDA a, b : a + b, 0, f)

Total(f) == IF DOMAIN Counting(f) = {} THEN 0 ELSE Sum(Counting(f))

(* The figures of a row whose children have the nominal values and the     *)
(* fringe figures given, and whose own fringes contribute own.             *)
Figures(nominal, fromFringes, own) ==
  [accumulated |-> Total(nominal), accumulatedFringe |-> Total(fromFringes),
   fringe |-> own]

(* What one fringe adds to a value: a flat fringe its rate, a percentage   *)
(* one its rate on the value up to the cutoff.                             *)
FringeShare(t, value) ==
  IF t.unit = "flat" THEN t.rate
  ELSE IF t.cutoff = None \/ t.cutoff >= value THEN t.rate * value
  ELSE t.rate * t.cutoff

(* A fringe counts only once both its rate and its unit are set.           *)
ContributionFromFringes(value, fs, terms) ==
  Total([f \in {g \in fs : terms[g].rate # None /\ terms[g].unit # None} |->
           FringeShare(terms[f], value)])

-----------------------------------------------------------------------------
(* The rows of S and everything below them, by the parent of every row: a  *)
(* delete of S cascades to these.                                          *)
Below(parent, S) ==
  S \cup {d \in Subs : \A K \in SUBSET Subs :
                         (\A c \in Subs : parent[c] \in K \cup S => c \in K)
                            => d \in K}
=============================================================================
