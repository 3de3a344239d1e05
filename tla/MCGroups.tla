------------------------------ MODULE MCGroups ------------------------------
(* Instances of Groups for TLC.                                            *)
EXTENDS Groups, TLC

CONSTANTS r1, r2, r3, g1, g2, w1, w2

MCSituations == Situations
MCNoSituation == {}
MCBulkMove == Situations \ {"bulk move"}
MCDisjointPatch == Situations \ {"disjoint patch"}
MCPatchWithoutRows == Situations \ {"patch without rows"}

Symmetry == Permutations(Row) \cup Permutations(Group) \cup Permutations(Worker)
=============================================================================
