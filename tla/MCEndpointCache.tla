---------------------------- MODULE MCEndpointCache ----------------------------
EXTENDS EndpointCache

CONSTANTS b, a, r, s, t, u1, u2

(* r and s are in the table of a, t is below s. *)
MCParentOf == [x \in Account \cup SubAccount |-> IF x = a THEN b ELSE IF x = t THEN s ELSE a]
MCSituations == Situations
===============================================================================
