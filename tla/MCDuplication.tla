----------------------------- MODULE MCDuplication -----------------------------
EXTENDS Duplication

CONSTANTS b, a, s, t, g, h, f, m, x, c, d

(* A table of the budget with a, one of a with s, one of s with t; a group  *)
(* in each of the first two and a markup in the second.  The account and s  *)
(* have the same key.                                                       *)
MCParentOf ==
    [y \in {a, s, t, g, h, m} |-> IF y \in {a, g} THEN b ELSE IF y = t THEN s ELSE a]
MCDepth == [y \in {a, s, t} |-> IF y = a THEN 0 ELSE IF y = s THEN 1 ELSE 2]
MCKeyOf == [y \in {a, s, t} |-> IF y = t THEN 2 ELSE 1]
===============================================================================
