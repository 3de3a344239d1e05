--------------------------- MODULE MCAttachments ---------------------------
EXTENDS Attachments, TLC

CONSTANTS r1, r2, x1, x2, n1, n2, w1, w2

MCSituations == Situations
Symmetry == Permutations(Row) \cup Permutations(Attachment)
            \cup Permutations(Name) \cup Permutations(Worker)
=============================================================================
