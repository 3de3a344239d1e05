------------------------------ MODULE MCRollUp ------------------------------
(* Instances of RollUp for TLC.                                            *)
EXTENDS RollUpLedger, TLC

CONSTANTS a1, a2, s1, s2, s3, f1, f2

Fringe(unit, rate, cutoff) == [unit |-> unit, rate |-> rate, cutoff |-> cutoff]

(* An unset fringe, a percentage capped at 1, a flat amount.               *)
MCTerms ==
  {Fringe(None, None, None), Fringe("percent", 1, 1), Fringe("flat", 2, None)}

(* Enough to tell a fringe that counts from one that does not.             *)
MCTermsSmall == {Fringe("percent", 1, None), Fringe("flat", 2, None)}

(* Requests avoid every situation, or every one but the one exhibited.     *)
MCSituations == Situations
MCTopLevelDelete == Situations \ {"top level delete"}
MCLastChildDelete == Situations \ {"last child delete"}
MCUncountedDelete == Situations \ {"uncounted delete"}
MCFirstChildWithoutValue == Situations \ {"first child without value"}
MCMixedLevels == Situations \ {"mixed levels"}

Symmetry == Permutations(Subs) \cup Permutations(Accounts)
              \cup Permutations(Fringes)
=============================================================================
