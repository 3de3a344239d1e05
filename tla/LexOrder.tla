------------------------------- MODULE LexOrder -------------------------------
(***************************************************************************)
(* The keys by which the rows of a table are ordered (tabling/utils.py):   *)
(* words over the letters a to z, compared as strings, and the routine     *)
(* that finds a word between two others.  A letter is its index.  <<>>,    *)
(* which is no key, stands for the exception InconsistentOrderingError.    *)
(***************************************************************************)
EXTENDS Integers, Sequences

LetterA == 0
LetterB == 1
LetterN == 13
LetterY == 24
LetterZ == 25

Letters == LetterA..LetterZ

NoLetter == -1       \* BoundsError
Inconsistent == <<>> \* InconsistentOrderingError

(* get_midpoint of two letters.  Consecutive letters have none, except that *)
(* a and b give one of themselves.                                          *)
JustBelow(upper, lower, floor) ==
    IF lower + 1 >= upper THEN NoLetter ELSE upper - 1

Midpoint(upper, lower, floor) ==
    IF lower = LetterA /\ upper = LetterB
    THEN IF floor THEN LetterA ELSE LetterB
    ELSE IF lower + 1 >= upper THEN NoLetter
    ELSE (lower + upper + IF floor THEN 0 ELSE 1) \div 2

(* Python's order of strings. *)
Before(s, t) ==
    \E i \in 1..Len(t) :
        /\ i <= Len(s) + 1
        /\ \A j \in 1..(i - 1) : s[j] = t[j]
        /\ i <= Len(s) => s[i] < t[i]

(* The index of get_bounds: where the two first differ, or the end of a. *)
Differing(a, b) ==
    CHOOSE i \in 1..Len(b) :
        /\ i <= Len(a) + 1
        /\ \A j \in 1..(i - 1) : a[j] = b[j]
        /\ i <= Len(a) => a[i] # b[i]

(* The first index of s from i on whose letter is not in S, or else the last. *)
FirstOutside(s, i, S) ==
    CHOOSE k \in i..Len(s) :
        /\ \A j \in i..(k - 1) : s[j] \in S
        /\ s[k] \notin S \/ k = Len(s)

(* base followed by a letter, unless there is none. *)
Extend(base, letter) ==
    IF letter = NoLetter THEN Inconsistent ELSE Append(base, letter)

Upto(s, i) == SubSeq(s, 1, i)

Middle == Midpoint(LetterZ, LetterA, FALSE)

(* Case 2: the upper bound goes on with an a or a b.  Copy the upper bound up *)
(* to its next other letter, go half way down from that one, and do not end   *)
(* in a or b.                                                                 *)
BelowRoundedUp(a, b, i) ==
    LET k == IF i = Len(b) THEN i ELSE FirstOutside(b, i + 1, {LetterA, LetterB})
    IN  Extend(Upto(b, k - 1), Midpoint(b[k], LetterA, FALSE))

BelowAOrB(a, b, i) ==
    LET k == IF i = Len(b) THEN i ELSE FirstOutside(b, i + 1, {LetterA, LetterB})
        w == Extend(Upto(b, k - 1), Midpoint(b[k], LetterA, TRUE))
    IN  IF Len(a) > Len(b) \/ w = Inconsistent THEN Inconsistent
        ELSE IF w[Len(w)] \in {LetterA, LetterB} THEN Append(w, Middle)
        ELSE w

(* Case 1: the letters are neighbours.  Go between the rest of the lower      *)
(* bound and the end of the alphabet; the code knows rows at the very end of  *)
(* the alphabet by an empty base and an upper bound of z.                     *)
AfterLower(a, b, i) ==
    LET last == a[Len(a)]
        k == FirstOutside(a, i + 1, {LetterZ})
    IN  IF i = 1 /\ b[i] = LetterZ
        THEN IF last = LetterY THEN Append(a, Middle)
             ELSE Extend(a, Midpoint(LetterZ, last, FALSE))
        ELSE IF i = Len(a) \/ last = LetterZ THEN Append(a, Middle)
        ELSE Extend(Upto(a, k - 1), Midpoint(LetterZ, a[k], FALSE))

(* lexographic_midpoint of two keys. *)
Between(a, b) ==
    IF ~ Before(a, b) THEN Inconsistent
    ELSE LET i == Differing(a, b)
             left == IF i > Len(a) THEN LetterA ELSE a[i]
             w == IF b[i] \in {LetterA, LetterB} THEN BelowAOrB(a, b, i)
                  ELSE IF i <= Len(a) /\ left + 1 = b[i] THEN AfterLower(a, b, i)
                  ELSE Extend(Upto(b, i - 1), Midpoint(b[i], left, FALSE))
         IN  IF w \in {a, b} THEN Inconsistent ELSE w

(* lexographic_midpoint with one bound, or none. *)
FirstKey == <<Middle>>
KeyAbove(a) == Between(a, <<LetterZ>>)
KeyBelow(b) == Between(<<LetterA>>, b)

(* order_after: count keys, each above the one before. *)
AllAfter(count, last) == [i \in 1..count |-> KeyAbove(last)]

OrderAfter(count, last) ==
    LET key[i \in 1..count] == IF i = 1 THEN KeyAbove(last) ELSE KeyAbove(key[i - 1])
    IN  key
OrderFromNone(count) ==
    LET key[i \in 1..count] == IF i = 1 THEN FirstKey ELSE KeyAbove(key[i - 1])
    IN  key
===============================================================================
