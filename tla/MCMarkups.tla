------------------------------ MODULE MCMarkups ------------------------------
EXTENDS Markups, TLC

CONSTANTS b, a1, a2, s1, s2, m1, m2

(* The budget's table holds a1 and a2, a1's table s1 and s2.               *)
MCParentOf == [r \in {a1, a2, s1, s2} |-> IF r \in {a1, a2} THEN b ELSE a1]
MCSymmetry == Permutations({m1, m2}) \cup Permutations({s1, s2})
==============================================================================
