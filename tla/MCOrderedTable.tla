---------------------------- MODULE MCOrderedTable ----------------------------
EXTENDS OrderedTable, TLC

CONSTANTS p1, p2, p3

Symmetry == Permutations(Process)
===============================================================================
