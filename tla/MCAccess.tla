------------------------------- MODULE MCAccess -------------------------------
(* Two users who own and share two budgets, a template of each of them and    *)
(* one of the community.                                                      *)
EXTENDS Access, TLC

CONSTANTS u1, u2, b1, b2, t1, t2, t3

MCTemplateOwner == t1 :> u1 @@ t2 :> u2 @@ t3 :> Staff

(* The users may trade places, each with his template. *)
Interchangeable ==
    {p \in Permutations({u1, u2, t1, t2}) :
        p[u1] \in {u1, u2} /\ (p[u1] = u2 <=> p[t1] = t2)}
===============================================================================
