------------------------------- MODULE TableKeys -------------------------------
(***************************************************************************)
(* The keys of one table as one request after another puts rows into it,   *)
(* moves them and takes them out: which places keep room for more.  Rows   *)
(* have no names here; what several requests at once do to one another is  *)
(* OrderedTable's subject.                                                 *)
(***************************************************************************)
EXTENDS LexOrder, FiniteSets

CONSTANTS
    MaxPut,     \* bound: keys ever given out
    MaxBulk     \* bound: rows of one bulk create

ASSUME TableKeysAssumption == MaxPut \in Nat /\ MaxBulk \in Nat \ {0}

VARIABLES
    keys,       \* the keys in the table
    put         \* how many were given out, to rows new or moved

keysVars == <<keys, put>>

KeysInit == keys = {} /\ put = 0

Lowest == CHOOSE k \in keys : \A l \in keys \ {k} : Before(k, l)
Highest == CHOOSE k \in keys : \A l \in keys \ {k} : Before(l, k)

(* l is the row right after k. *)
Neighbours(k, l) ==
    /\ Before(k, l)
    /\ \A m \in keys : ~ (Before(k, m) /\ Before(m, l))

Give(new, table) ==
    /\ put + Cardinality(new) <= MaxPut
    /\ keys' = table \cup new
    /\ put' = put + Cardinality(new)

(* create without previous (tabling/serializers.py:104-113), and a bulk     *)
(* create, which is the same a few times over (managers.py:73-100).         *)
AppendRows(n) ==
    LET new == IF keys = {} THEN OrderFromNone(n) ELSE OrderAfter(n, Highest)
    IN  Give({new[i] : i \in 1..n}, keys)

(* create with previous, into a table that has rows. *)
InsertFirst == keys # {} /\ Give({KeyBelow(Lowest)}, keys)

InsertBetween ==
    \E k, l \in keys :
        /\ Neighbours(k, l) /\ Between(k, l) # Inconsistent
        /\ Give({Between(k, l)}, keys)

(* update with previous: the row takes a key where it is put, which is not *)
(* where it already is.                                                    *)
Move ==
    \E r \in keys :
        \/ r # Lowest /\ Give({KeyBelow(Lowest)}, keys \ {r})
        \/ r # Highest /\ Give({KeyAbove(Highest)}, keys \ {r})
        \/ \E k, l \in keys \ {r} :
              /\ Neighbours(k, l) /\ Between(k, l) # Inconsistent
              /\ Give({Between(k, l)}, keys \ {r})

Delete == \E k \in keys : keys' = keys \ {k} /\ UNCHANGED put

KeysNext == AppendRows(1) \/ AppendRows(MaxBulk) \/ InsertFirst \/ InsertBetween
        \/ Move \/ Delete

KeysSpec == KeysInit /\ [][KeysNext]_keysVars

-------------------------------------------------------------------------------
(* What is put between two rows sorts between them, what is put at an end   *)
(* sorts beyond it: the docstring of lexographic_midpoint, utils.py:243-246. *)
LandsBetween ==
    /\ \A k, l \in keys : Neighbours(k, l) =>
          \/ Between(k, l) = Inconsistent
          \/ Before(k, Between(k, l)) /\ Before(Between(k, l), l)
    /\ keys # {} => /\ Before(KeyBelow(Lowest), Lowest)
                    /\ Before(Highest, KeyAbove(Highest))

(* There is always room at both ends, and between two rows unless the key   *)
(* of the first goes on beyond the letter where the two first differ; so a  *)
(* table that only grows at its ends is never refused.                      *)
RoomToInsert ==
    /\ keys # {} => Inconsistent \notin {KeyBelow(Lowest), KeyAbove(Highest)}
    /\ \A k, l \in keys :
          Neighbours(k, l) /\ Len(k) <= Differing(k, l) =>
             Between(k, l) # Inconsistent

(* Keys are of one letter until the fifth is given out, and get longer by   *)
(* one letter at most with each: the 1024 letters of the column             *)
(* (tabling/models.py:225) are enough for the first 1027 rows.              *)
KeysStayShort == \A k \in keys : Len(k) > 1 => Len(k) + 3 <= put

(* The next row finds a key, and the column has room for it.                *)
HasRoom == RoomToInsert /\ KeysStayShort

(* "there is always room between the first string and the midpoint, and the *)
(* second string and the midpoint, to insert additional strings in          *)
(* lexographic order": the docstring of lexographic_midpoint.  The code     *)
(* does not keep this.                                                      *)
AlwaysRoom ==
    \A k, l \in keys : Neighbours(k, l) => Between(k, l) # Inconsistent
===============================================================================
