------------------------------ MODULE OrderProofs ------------------------------
(***************************************************************************)
(* Theorems about the order of the rows of a table.                        *)
(*                                                                         *)
(* First about keys, of any length: what the routine that finds a key      *)
(* promises of every pair of bounds, and from it LandsBetween and HasRoom  *)
(* of TableKeys, for any number of keys given out.                         *)
(*                                                                         *)
(* Then about the requests of OrderedTable, for any number of them at any  *)
(* number of processes: Inv says of each request alone what it has reckoned *)
(* with is still true of the table (Local), and of two of them that they   *)
(* hold and write different rows and keys (Apart).  Every property of      *)
(* OrderedTable follows from it.                                           *)
(***************************************************************************)
EXTENDS TableKeys, OrderedTable, TLAPS, FiniteSetTheorems, SequenceTheorems,
        WellFoundedInduction

-------------------------------------------------------------------------------
(* Natural numbers. *)

LEMMA Least ==
  ASSUME NEW T \in SUBSET Nat, T # {}
  PROVE  \E x \in T : \A y \in T : x <= y
<1>1. IsWellFoundedOn(OpToRel(<, Nat), Nat)
  BY NatLessThanWellFounded
<1>2. PICK x \in T : \A y \in T : <<y, x>> \notin OpToRel(<, Nat)
  BY <1>1, WFMin
<1>3. \A y \in T : ~ (y < x)
  BY <1>2 DEF OpToRel
<1> QED
  BY <1>3

(* Induction, over a set in the place of a predicate. *)
LEMMA NatSetInduction ==
  ASSUME NEW S, 0 \in S, \A n \in Nat : n \in S => n + 1 \in S
  PROVE  Nat \subseteq S
<1> SUFFICES ASSUME Nat \ S # {} PROVE FALSE
  OBVIOUS
<1>1. PICK x \in Nat \ S : \A y \in Nat \ S : x <= y
  BY Least
<1>2. x # 0 /\ x - 1 \in Nat
  BY <1>1
<1>3. x - 1 \in S
  BY <1>1, <1>2
<1> QED
  BY <1>1, <1>2, <1>3

-------------------------------------------------------------------------------
(* The order of words. *)

Word == Seq(Letters)

LEMMA LetterInt ==
  ASSUME NEW s \in Word, NEW i \in 1..Len(s)
  PROVE  s[i] \in Letters /\ s[i] \in Int /\ 0 <= s[i] /\ s[i] <= 25
<1>1. s[i] \in Letters
  BY ElementOfSeq DEF Word
<1>2. \A x \in Letters : x \in Int /\ 0 <= x /\ x <= 25
  BY DEF Letters, LetterA, LetterZ
<1> QED
  BY <1>1, <1>2

(* Where two words first differ. *)
LEMMA FirstDifference ==
  ASSUME NEW s \in Word, NEW t \in Word, s # t
  PROVE  \E i \in Nat \ {0} :
           /\ i <= Len(s) + 1 /\ i <= Len(t) + 1
           /\ \A j \in 1..(i - 1) : s[j] = t[j]
           /\ \/ i <= Len(s) /\ i <= Len(t) /\ s[i] # t[i]
              \/ i = Len(s) + 1 /\ i <= Len(t)
              \/ i = Len(t) + 1 /\ i <= Len(s)
<1> DEFINE T == {i \in Nat \ {0} : /\ i <= Len(s) + 1 /\ i <= Len(t) + 1
                                  /\ i <= Len(s) /\ i <= Len(t) => s[i] # t[i]}
<1>1. Len(s) \in Nat /\ Len(t) \in Nat
  BY DEF Word
<1>2. (IF Len(s) < Len(t) THEN Len(s) + 1 ELSE Len(t) + 1) \in T
  BY <1>1
<1>3. PICK i \in T : \A j \in T : i <= j
  <2>1. T \in SUBSET Nat /\ T # {}
    BY <1>2
  <2> HIDE DEF T
  <2> QED
    BY <2>1, Least
<1>4. \A j \in 1..(i - 1) : s[j] = t[j]
  <2> SUFFICES ASSUME NEW j \in 1..(i - 1), s[j] # t[j] PROVE FALSE
    OBVIOUS
  <2>1. j \in T
    BY <1>1, <1>3
  <2> QED
    BY <2>1, <1>3
<1>5. ~ (i = Len(s) + 1 /\ i = Len(t) + 1)
  <2> SUFFICES ASSUME i = Len(s) + 1, i = Len(t) + 1 PROVE FALSE
    OBVIOUS
  <2>1. Len(s) = Len(t) /\ \A j \in 1..Len(s) : s[j] = t[j]
    BY <1>1, <1>4
  <2> QED
    BY <2>1 DEF Word
<1> QED
  BY <1>1, <1>3, <1>4, <1>5

LEMMA BeforeTotal ==
  ASSUME NEW s \in Word, NEW t \in Word, s # t
  PROVE  Before(s, t) \/ Before(t, s)
<1>1. PICK i \in Nat \ {0} :
           /\ i <= Len(s) + 1 /\ i <= Len(t) + 1
           /\ \A j \in 1..(i - 1) : s[j] = t[j]
           /\ \/ i <= Len(s) /\ i <= Len(t) /\ s[i] # t[i]
              \/ i = Len(s) + 1 /\ i <= Len(t)
              \/ i = Len(t) + 1 /\ i <= Len(s)
  BY FirstDifference
<1>2. Len(s) \in Nat /\ Len(t) \in Nat
  BY DEF Word
<1>3. CASE i <= Len(t) /\ (i <= Len(s) => s[i] < t[i])
  BY <1>1, <1>2, <1>3 DEF Before
<1>4. CASE i <= Len(s) /\ (i <= Len(t) => t[i] < s[i])
  BY <1>1, <1>2, <1>4 DEF Before
<1>5. i <= Len(s) => s[i] \in Int
  BY <1>2, LetterInt
<1>6. i <= Len(t) => t[i] \in Int
  BY <1>2, LetterInt
<1> QED
  BY <1>1, <1>2, <1>3, <1>4, <1>5, <1>6

LEMMA BeforeTransitive ==
  ASSUME NEW s \in Word, NEW t \in Word, NEW u \in Word, Before(s, t), Before(t, u)
  PROVE  Before(s, u)
<1>1. PICK i \in 1..Len(t) : /\ i <= Len(s) + 1
                             /\ \A j \in 1..(i - 1) : s[j] = t[j]
                             /\ i <= Len(s) => s[i] < t[i]
  BY DEF Before
<1>2. PICK k \in 1..Len(u) : /\ k <= Len(t) + 1
                             /\ \A j \in 1..(k - 1) : t[j] = u[j]
                             /\ k <= Len(t) => t[k] < u[k]
  BY DEF Before
<1>3. Len(s) \in Nat /\ Len(t) \in Nat /\ Len(u) \in Nat
  BY DEF Word
<1>4. CASE i < k
  <2>1. i \in 1..Len(u) /\ t[i] = u[i] /\ \A j \in 1..(i - 1) : s[j] = u[j]
    BY <1>1, <1>2, <1>3, <1>4
  <2> QED
    BY <1>1, <2>1 DEF Before
<1>5. CASE k <= i
  <2>1. /\ k <= Len(s) + 1 /\ \A j \in 1..(k - 1) : s[j] = u[j]
        /\ t[k] < u[k] /\ (k < i => s[k] = t[k])
    BY <1>1, <1>2, <1>3, <1>5
  <2>2. k <= Len(s) => s[k] < u[k]
    <3> SUFFICES ASSUME k <= Len(s) PROVE s[k] < u[k]
      OBVIOUS
    <3>1. s[k] \in Int /\ t[k] \in Int /\ u[k] \in Int
      BY <1>1, <1>2, <1>3, <1>5, LetterInt
    <3> QED
      BY <1>1, <1>2, <1>5, <2>1, <3>1
  <2> QED
    BY <1>2, <2>1, <2>2 DEF Before
<1> QED
  BY <1>1, <1>2, <1>4, <1>5

LEMMA BeforeIrreflexive ==
  ASSUME NEW s \in Word
  PROVE  ~ Before(s, s)
<1> SUFFICES ASSUME Before(s, s) PROVE FALSE
  OBVIOUS
<1>1. PICK i \in 1..Len(s) : s[i] < s[i]
  BY DEF Before, Word
<1> QED
  BY <1>1, LetterInt

LEMMA BeforeAsymmetric ==
  ASSUME NEW s \in Word, NEW t \in Word, Before(s, t)
  PROVE  ~ Before(t, s) /\ s # t
BY BeforeTransitive, BeforeIrreflexive

-------------------------------------------------------------------------------
(* The routine that finds a key between two bounds. *)

LEMMA DifferingIs ==
  ASSUME NEW a \in Word, NEW b \in Word, Before(a, b), NEW i, i = Differing(a, b)
  PROVE  /\ i \in 1..Len(b) /\ i <= Len(a) + 1
         /\ \A j \in 1..(i - 1) : a[j] = b[j]
         /\ i <= Len(a) => a[i] < b[i]
<1> DEFINE Is(k) == /\ k <= Len(a) + 1
                    /\ \A j \in 1..(k - 1) : a[j] = b[j]
                    /\ k <= Len(a) => a[k] # b[k]
<1>1. Len(a) \in Nat /\ Len(b) \in Nat
  BY DEF Word
<1>2. PICK k \in 1..Len(b) : /\ k <= Len(a) + 1
                             /\ \A j \in 1..(k - 1) : a[j] = b[j]
                             /\ k <= Len(a) => a[k] < b[k]
  BY DEF Before
<1>3. k <= Len(a) => a[k] \in Int /\ b[k] \in Int
  BY <1>1, <1>2, LetterInt
<1>4. Is(k)
  BY <1>2, <1>3
<1>5. i \in 1..Len(b) /\ Is(i)
  <2>1. i = CHOOSE m \in 1..Len(b) : Is(m)
    BY DEF Differing
  <2> HIDE DEF Is
  <2> QED
    BY <1>4, <2>1
<1>6. i = k
  BY <1>1, <1>2, <1>4, <1>5
<1> QED
  BY <1>2, <1>6

LEMMA FirstOutsideIs ==
  ASSUME NEW s \in Word, NEW i \in 1..Len(s), NEW S, NEW k, k = FirstOutside(s, i, S)
  PROVE  /\ k \in i..Len(s)
         /\ \A j \in i..(k - 1) : s[j] \in S
         /\ s[k] \notin S \/ k = Len(s)
<1> DEFINE Is(m) == /\ \A j \in i..(m - 1) : s[j] \in S
                    /\ s[m] \notin S \/ m = Len(s)
<1> DEFINE T == {m \in i..Len(s) : s[m] \notin S \/ m = Len(s)}
<1>1. Len(s) \in Nat
  BY DEF Word
<1>2. T \in SUBSET Nat /\ Len(s) \in T
  BY <1>1
<1>3. PICK m \in T : \A n \in T : m <= n
  <2> HIDE DEF T
  <2> QED
    BY <1>2, Least
<1>4. m \in i..Len(s) /\ Is(m)
  BY <1>1, <1>3
<1>5. k = CHOOSE n \in i..Len(s) : Is(n)
  BY DEF FirstOutside
<1> HIDE DEF Is
<1>6. k \in i..Len(s) /\ Is(k)
  BY <1>4, <1>5
<1> QED
  BY <1>6 DEF Is

(* Half way between two letters. *)
LEMMA MidpointToA ==
  ASSUME NEW u \in Letters
  PROVE  /\ u = LetterA => Midpoint(u, LetterA, TRUE) = NoLetter
         /\ u = LetterB => Midpoint(u, LetterA, TRUE) = LetterA
         /\ u \notin {LetterA, LetterB} =>
              Midpoint(u, LetterA, TRUE) \in 1..(u - 1)
BY DEF Midpoint, Letters, LetterA, LetterB, LetterZ, NoLetter

LEMMA MiddleIsN == Middle = 13
BY DEF Middle, Midpoint, LetterA, LetterB, LetterZ

(* The words the routine builds. *)
LEMMA WordAnd ==
  ASSUME NEW a \in Word, NEW x \in Letters
  PROVE  /\ Append(a, x) \in Word /\ Len(Append(a, x)) = Len(a) + 1
         /\ Append(a, x)[Len(a) + 1] = x
         /\ \A j \in 1..Len(a) : Append(a, x)[j] = a[j]
BY DEF Word

LEMMA PrefixAnd ==
  ASSUME NEW b \in Word, NEW k \in 1..(Len(b) + 1), NEW x \in Letters
  PROVE  LET w == Append(Upto(b, k - 1), x)
         IN  /\ w \in Word /\ Len(w) = k /\ w[k] = x
             /\ \A j \in 1..(k - 1) : w[j] = b[j]
<1> DEFINE u == Upto(b, k - 1)
<1>1. Len(b) \in Nat
  BY DEF Word
<1>2. \A j \in 1..(k - 1) : b[j] \in Letters
  BY <1>1, LetterInt
<1>3. /\ u \in Word /\ Len(u) = k - 1
      /\ \A j \in 1..(k - 1) : u[j] = b[j]
  BY <1>1, <1>2, SubSeqProperties DEF Upto, Word
<1> HIDE DEF u
<1>4. /\ Append(u, x) \in Word /\ Len(Append(u, x)) = Len(u) + 1
      /\ Append(u, x)[Len(u) + 1] = x
      /\ \A j \in 1..Len(u) : Append(u, x)[j] = u[j]
  BY <1>3, WordAnd
<1>5. Len(u) + 1 = k
  BY <1>1, <1>3
<1>6. /\ Append(u, x) \in Word /\ Len(Append(u, x)) = k /\ Append(u, x)[k] = x
      /\ \A j \in 1..(k - 1) : Append(u, x)[j] = b[j]
  BY <1>3, <1>4, <1>5
<1> QED
  BY <1>6 DEF u

(* w lies strictly between a and b, keeps room below and above it, and is    *)
(* longer by one letter at most.                                            *)
Lands(a, w, b) ==
  /\ w \in Word /\ w # <<>> /\ Before(a, w) /\ Before(w, b)
  /\ w[Len(w)] \notin {LetterA, LetterZ}
  /\ Len(w) <= Len(a) + 1 \/ Len(w) <= Len(b) + 1

(* a and b differ at i, where b goes beyond a. *)
DifferAt(a, b, i) ==
  /\ i \in 1..Len(b) /\ i <= Len(a) + 1
  /\ \A j \in 1..(i - 1) : a[j] = b[j]
  /\ i <= Len(a) => a[i] < b[i]

LEMMA BeforeUpper ==
  ASSUME NEW a \in Word, NEW b \in Word, NEW i, DifferAt(a, b, i),
         NEW w \in Word, i <= Len(w), \A j \in 1..i : w[j] = b[j]
  PROVE  Before(a, w)
<1>1. Len(a) \in Nat /\ Len(b) \in Nat /\ Len(w) \in Nat
  BY DEF Word
<1> QED
  BY <1>1 DEF DifferAt, Before

LEMMA AfterLowerIsBefore ==
  ASSUME NEW a \in Word, NEW b \in Word, NEW i, DifferAt(a, b, i), i <= Len(a),
         NEW w \in Word, i <= Len(w), \A j \in 1..i : w[j] = a[j]
  PROVE  Before(w, b)
<1>1. Len(a) \in Nat /\ Len(b) \in Nat /\ Len(w) \in Nat
  BY DEF Word
<1> QED
  BY <1>1 DEF DifferAt, Before

(* A word that takes over the first letters of b, then a smaller one. *)
LEMMA SmallerLetter ==
  ASSUME NEW b \in Word, NEW k \in 1..Len(b), NEW w \in Word, k <= Len(w),
         \A j \in 1..(k - 1) : w[j] = b[j], w[k] < b[k]
  PROVE  Before(w, b)
<1>1. Len(b) \in Nat /\ Len(w) \in Nat
  BY DEF Word
<1> QED
  BY <1>1 DEF Before

(* ... then a greater one, or more. *)
LEMMA GreaterLetter ==
  ASSUME NEW a \in Word, NEW k \in 1..Len(a), NEW w \in Word, k <= Len(w),
         \A j \in 1..(k - 1) : w[j] = a[j], a[k] < w[k]
  PROVE  Before(a, w)
<1>1. Len(a) \in Nat /\ Len(w) \in Nat
  BY DEF Word
<1> QED
  BY <1>1 DEF Before

LEMMA LongerWord ==
  ASSUME NEW a \in Word, NEW w \in Word, Len(a) < Len(w),
         \A j \in 1..Len(a) : w[j] = a[j]
  PROVE  Before(a, w)
<1>1. Len(a) \in Nat /\ Len(w) \in Nat
  BY DEF Word
<1>2. Len(a) + 1 \in 1..Len(w)
  BY <1>1
<1> QED
  BY <1>1, <1>2 DEF Before

(* Case 2 of the routine. *)
LEMMA BelowAOrBLands ==
  ASSUME NEW a \in Word, NEW b \in Word, NEW i, DifferAt(a, b, i),
         b[i] \in {LetterA, LetterB}, NEW v, v = BelowAOrB(a, b, i)
  PROVE  /\ v # Inconsistent => Lands(a, v, b)
         /\ v = Inconsistent => Len(a) > Len(b) \/ b[Len(b)] = LetterA
<1>1. Len(a) \in Nat /\ Len(b) \in Nat /\ i \in 1..Len(b)
  BY DEF Word, DifferAt
<1> DEFINE k == IF i = Len(b) THEN i ELSE FirstOutside(b, i + 1, {LetterA, LetterB})
           x == Midpoint(b[k], LetterA, TRUE)
           w == Extend(Upto(b, k - 1), x)
<1>2. /\ k \in i..Len(b) /\ (k = i => i = Len(b))
      /\ b[k] \notin {LetterA, LetterB} \/ k = Len(b)
  <2>1. CASE i = Len(b)
    BY <1>1, <2>1
  <2>2. CASE i # Len(b)
    <3>1. i + 1 \in 1..Len(b)
      BY <1>1, <2>2
    <3>2. k = FirstOutside(b, i + 1, {LetterA, LetterB})
      BY <2>2
    <3> HIDE DEF k
    <3> QED
      BY <1>1, <3>1, <3>2, FirstOutsideIs
  <2> QED
    BY <2>1, <2>2
<1>3. v = IF Len(a) > Len(b) \/ w = Inconsistent THEN Inconsistent
          ELSE IF w[Len(w)] \in {LetterA, LetterB} THEN Append(w, Middle)
          ELSE w
  BY DEF BelowAOrB
<1> HIDE DEF k
<1>4. b[k] \in Letters
  BY <1>1, <1>2, LetterInt
<1>5. /\ b[k] = LetterA => x = NoLetter
      /\ b[k] = LetterB => x = LetterA
      /\ b[k] \notin {LetterA, LetterB} => x \in 1..(b[k] - 1)
  BY <1>4, MidpointToA
<1> HIDE DEF x
<1>6. CASE b[k] = LetterA
  <2>1. w = Inconsistent /\ k = Len(b)
    BY <1>2, <1>5, <1>6 DEF Extend
  <2> QED
    BY <1>3, <1>6, <2>1
<1>7. CASE b[k] # LetterA
  <2>1. x \in Letters /\ x # NoLetter /\ x # LetterZ /\ x < b[k]
    BY <1>4, <1>5, <1>7 DEF Letters, LetterA, LetterB, LetterZ, NoLetter
  <2>2. w = Append(Upto(b, k - 1), x)
    BY <2>1 DEF Extend
  <2> HIDE DEF w
  <2>3. k \in 1..(Len(b) + 1) /\ k \in Nat
    BY <1>1, <1>2
  <2>4. /\ w \in Word /\ Len(w) = k /\ w[k] = x
        /\ \A j \in 1..(k - 1) : w[j] = b[j]
    BY <2>1, <2>2, <2>3, PrefixAnd
  <2>5. w # Inconsistent
    BY <2>3, <2>4 DEF Inconsistent
  <2>6. CASE Len(a) > Len(b)
    BY <1>3, <2>6
  <2>7. CASE ~ (Len(a) > Len(b)) /\ x \in {LetterA, LetterB}
    <3>1. v = Append(w, Middle)
      BY <1>3, <2>4, <2>5, <2>7
    <3>2. Middle \in Letters
      BY MiddleIsN DEF Letters, LetterA, LetterZ
    <3>3. /\ v \in Word /\ Len(v) = k + 1 /\ v[k + 1] = Middle
          /\ \A j \in 1..k : v[j] = w[j]
      BY <2>4, <3>1, <3>2, WordAnd
    <3>4. Before(v, b)
      BY <1>2, <2>1, <2>3, <2>4, <3>3, SmallerLetter
    <3>5. Before(a, v)
      <4>1. CASE i < k
        <5>1. i <= Len(v) /\ \A j \in 1..i : v[j] = b[j]
          BY <1>1, <1>2, <2>3, <2>4, <3>3, <4>1
        <5> QED
          BY <3>3, <5>1, BeforeUpper
      <4>2. CASE i = k
        <5>1. b[i] = LetterB /\ x = LetterA
          BY <1>5, <1>7, <4>2
        <5>2. Len(a) <= i
          BY <1>1, <1>2, <2>7, <4>2
        <5>3. \A j \in 1..Len(a) : v[j] = a[j]
          <6> SUFFICES ASSUME NEW j \in 1..Len(a) PROVE v[j] = a[j]
            OBVIOUS
          <6>1. CASE j < i
            BY <1>1, <2>4, <3>3, <4>2, <6>1 DEF DifferAt
          <6>2. CASE j = i
            <7>1. a[i] < b[i] /\ a[i] \in Int /\ 0 <= a[i]
              BY <6>2, <1>1, LetterInt DEF DifferAt
            <7>2. a[i] = LetterA
              BY <7>1, <5>1 DEF LetterA, LetterB
            <7>3. v[k] = LetterA
              BY <5>1, <2>4, <3>3, <2>3
            <7> QED
              BY <7>2, <7>3, <6>2, <4>2
          <6> QED
            BY <1>1, <5>2, <6>1, <6>2
        <5> QED
          BY <1>1, <5>2, <5>3, <3>3, <4>2, LongerWord
      <4> QED
        BY <1>1, <1>2, <4>1, <4>2
    <3>6. v[Len(v)] \notin {LetterA, LetterZ} /\ v # <<>> /\ Len(v) <= Len(b) + 1
      BY <1>2, <2>3, <3>3, MiddleIsN DEF LetterA, LetterZ
    <3> QED
      BY <3>3, <3>4, <3>5, <3>6, <3>1 DEF Lands, Inconsistent
  <2>8. CASE ~ (Len(a) > Len(b)) /\ x \notin {LetterA, LetterB}
    <3>1. v = w
      BY <1>3, <2>4, <2>5, <2>8
    <3>2. Before(v, b)
      BY <1>2, <2>1, <2>3, <2>4, <3>1, SmallerLetter
    <3>3. i < k
      <4> SUFFICES ASSUME i = k PROVE FALSE
        BY <1>1, <1>2
      <4> QED
        BY <1>5, <1>7, <2>8
    <3>4. Before(a, v)
      <4>1. i <= Len(v) /\ \A j \in 1..i : v[j] = b[j]
        BY <1>1, <2>3, <2>4, <3>1, <3>3
      <4> QED
        BY <2>4, <3>1, <4>1, BeforeUpper
    <3> QED
      BY <1>1, <1>2, <2>1, <2>3, <2>4, <2>5, <2>8, <3>1, <3>2, <3>4 DEF Lands, Inconsistent
  <2> QED
    BY <2>6, <2>7, <2>8
<1> QED
  BY <1>6, <1>7

(* Case 1 of the routine. *)
LEMMA AfterLowerLands ==
  ASSUME NEW a \in Word, NEW b \in Word, NEW i, DifferAt(a, b, i), i <= Len(a),
         a[i] + 1 = b[i], b[i] \notin {LetterA, LetterB},
         NEW v, v = AfterLower(a, b, i)
  PROVE  /\ v # Inconsistent => Lands(a, v, b)
         /\ v = Inconsistent => /\ i < Len(a)
                                /\ i = 1 /\ b[i] = LetterZ => a[Len(a)] = LetterZ
<1> DEFINE last == a[Len(a)]
           k == FirstOutside(a, i + 1, {LetterZ})
<1>1. Len(a) \in Nat /\ i \in 1..Len(a) /\ Len(a) \in 1..Len(a)
  BY DEF Word, DifferAt
<1>2. /\ last \in Letters /\ last \in Int /\ 0 <= last /\ last <= 25
      /\ a[i] \in Int /\ b[i] \in Int /\ b[i] <= 25
  BY <1>1, LetterInt DEF DifferAt
<1>3. v = IF i = 1 /\ b[i] = LetterZ
          THEN IF last = LetterY THEN Append(a, Middle)
               ELSE Extend(a, Midpoint(LetterZ, last, FALSE))
          ELSE IF i = Len(a) \/ last = LetterZ THEN Append(a, Middle)
          ELSE Extend(Upto(a, k - 1), Midpoint(LetterZ, a[k], FALSE))
  BY DEF AfterLower
<1>4. \A x \in Letters :
        x \notin {LetterA, LetterZ} => /\ Append(a, x) # Inconsistent
                                       /\ Lands(a, Append(a, x), b)
  <2> SUFFICES ASSUME NEW x \in Letters, x \notin {LetterA, LetterZ}
               PROVE  Append(a, x) # Inconsistent /\ Lands(a, Append(a, x), b)
    OBVIOUS
  <2> DEFINE w == Append(a, x)
  <2>1. /\ w \in Word /\ Len(w) = Len(a) + 1 /\ w[Len(a) + 1] = x
        /\ \A j \in 1..Len(a) : w[j] = a[j]
    BY WordAnd
  <2> HIDE DEF w
  <2>2. w # <<>>
    BY <1>1, <2>1
  <2>3. Before(a, w)
    BY <1>1, <2>1, LongerWord
  <2>4. Before(w, b)
    <3>1. i <= Len(w) /\ \A j \in 1..i : w[j] = a[j]
      BY <1>1, <2>1
    <3> QED
      BY <2>1, <3>1, AfterLowerIsBefore
  <2>5. Lands(a, w, b)
    BY <1>1, <2>1, <2>2, <2>3, <2>4 DEF Lands
  <2> QED
    BY <2>2, <2>5 DEF w, Inconsistent
<1>5. Middle \in Letters /\ Middle \notin {LetterA, LetterZ}
  BY MiddleIsN DEF Letters, LetterA, LetterZ
<1>6. \A l \in Letters :
        LET m == Midpoint(LetterZ, l, FALSE)
        IN  /\ l + 1 < 25 => /\ m \in Letters /\ m \notin {LetterA, LetterZ}
                             /\ l < m /\ m # NoLetter
            /\ l + 1 >= 25 => m = NoLetter
  BY DEF Midpoint, Letters, LetterA, LetterB, LetterZ, NoLetter
<1>7. CASE i = 1 /\ b[i] = LetterZ
  <2>1. CASE last = LetterY
    <3>1. v = Append(a, Middle)
      BY <1>3, <1>7, <2>1
    <3> QED
      BY <1>4, <1>5, <3>1
  <2>2. CASE last = LetterZ
    <3>1. i < Len(a)
      <4> SUFFICES ASSUME i = Len(a) PROVE FALSE
        BY <1>1
      <4> QED
        BY <1>2, <1>7, <2>2 DEF LetterZ
    <3>2. last # LetterY
      BY <2>2 DEF LetterY, LetterZ
    <3>3. Midpoint(LetterZ, last, FALSE) = NoLetter
      BY <2>2 DEF Midpoint, LetterA, LetterB, LetterZ
    <3>4. v = Extend(a, NoLetter)
      BY <1>3, <1>7, <3>2, <3>3
    <3>5. v = Inconsistent
      BY <3>4 DEF Extend
    <3> QED
      BY <1>7, <2>2, <3>1, <3>5
  <2>3. CASE last \notin {LetterY, LetterZ}
    <3> DEFINE m == Midpoint(LetterZ, last, FALSE)
    <3>1. last + 1 < 25
      BY <1>2, <2>3 DEF LetterY, LetterZ
    <3>2. m \in Letters /\ m \notin {LetterA, LetterZ} /\ m # NoLetter
      BY <1>2, <1>6, <3>1
    <3>3. v = Append(a, m)
      BY <1>3, <1>7, <2>3, <3>2 DEF Extend
    <3> HIDE DEF m
    <3> QED
      BY <1>4, <3>2, <3>3
  <2> QED
    BY <2>1, <2>2, <2>3
<1>8. CASE ~ (i = 1 /\ b[i] = LetterZ) /\ (i = Len(a) \/ last = LetterZ)
  <2>1. v = Append(a, Middle)
    BY <1>3, <1>8
  <2> QED
    BY <1>4, <1>5, <2>1
<1>9. CASE ~ (i = 1 /\ b[i] = LetterZ) /\ i # Len(a) /\ last # LetterZ
  <2> DEFINE m == Midpoint(LetterZ, a[k], FALSE)
  <2>1. v = Extend(Upto(a, k - 1), m)
    BY <1>3, <1>9
  <2>2. i + 1 \in 1..Len(a)
    BY <1>1, <1>9
  <2>3. k \in (i + 1)..Len(a) /\ (a[k] \notin {LetterZ} \/ k = Len(a))
    BY <2>2, FirstOutsideIs
  <2> HIDE DEF k
  <2>4. k \in Nat /\ k \in 1..Len(a) /\ k \in 1..(Len(a) + 1) /\ i <= k - 1 /\ k <= Len(a)
    BY <1>1, <2>3
  <2>5. a[k] \in Letters /\ a[k] \in Int /\ a[k] <= 25 /\ a[k] # 25
    BY <1>9, <2>3, <2>4, LetterInt DEF LetterZ
  <2>6. CASE a[k] + 1 >= 25
    <3>1. v = Inconsistent
      BY <1>6, <2>1, <2>5, <2>6 DEF Extend
    <3> QED
      BY <1>1, <1>9, <2>4, <3>1
  <2>7. CASE a[k] + 1 < 25
    <3>1. m \in Letters /\ m \notin {LetterA, LetterZ} /\ a[k] < m /\ m # NoLetter
      BY <1>6, <2>5, <2>7
    <3> HIDE DEF m
    <3>2. v = Append(Upto(a, k - 1), m)
      BY <2>1, <3>1 DEF Extend
    <3>3. /\ v \in Word /\ Len(v) = k /\ v[k] = m
          /\ \A j \in 1..(k - 1) : v[j] = a[j]
      BY <2>4, <3>1, <3>2, PrefixAnd
    <3>4. v # <<>>
      BY <2>4, <3>3
    <3>5. Before(a, v)
      BY <2>4, <3>1, <3>3, GreaterLetter
    <3>6. Before(v, b)
      <4>1. i <= Len(v) /\ \A j \in 1..i : v[j] = a[j]
        BY <1>1, <2>4, <3>3
      <4> QED
        BY <3>3, <4>1, AfterLowerIsBefore
    <3>7. Lands(a, v, b)
      BY <1>1, <2>4, <3>1, <3>3, <3>4, <3>5, <3>6 DEF Lands
    <3> QED
      BY <3>4, <3>7 DEF Inconsistent
  <2> QED
    BY <2>5, <2>6, <2>7
<1> QED
  BY <1>7, <1>8, <1>9

(* The remaining case: a letter between the two at the place where the bounds *)
(* differ.                                                                    *)
LEMMA LetterBetweenLands ==
  ASSUME NEW a \in Word, NEW b \in Word, NEW i, DifferAt(a, b, i), NEW m \in Int,
         IF i > Len(a) THEN 0 < m ELSE a[i] < m, m < b[i]
  PROVE  LET v == Append(Upto(b, i - 1), m)
         IN  v # Inconsistent /\ Lands(a, v, b)
<1>1. Len(a) \in Nat /\ Len(b) \in Nat /\ i \in 1..Len(b) /\ i \in Nat /\ i \in 1..(Len(b) + 1)
  BY DEF Word, DifferAt
<1>2. b[i] \in Int /\ b[i] <= 25
  BY <1>1, LetterInt
<1>3. m \in Letters /\ m \notin {LetterA, LetterZ}
  <2>1. 0 < m
    <3>1. CASE i <= Len(a)
      <4>1. a[i] \in Int /\ 0 <= a[i]
        BY <1>1, <3>1, LetterInt
      <4> QED
        BY <1>1, <3>1, <4>1
    <3> QED
      BY <1>1, <3>1
  <2> QED
    BY <1>2, <2>1 DEF Letters, LetterA, LetterZ
<1> DEFINE v == Append(Upto(b, i - 1), m)
<1>4. /\ v \in Word /\ Len(v) = i /\ v[i] = m
      /\ \A j \in 1..(i - 1) : v[j] = b[j]
  BY <1>1, <1>3, PrefixAnd
<1> HIDE DEF v
<1>5. v # <<>>
  BY <1>1, <1>4
<1>6. Before(v, b)
  BY <1>1, <1>2, <1>4, SmallerLetter
<1>7. Before(a, v)
  <2>1. CASE i <= Len(a)
    <3>1. i \in 1..Len(a) /\ a[i] < v[i] /\ \A j \in 1..(i - 1) : v[j] = a[j]
      BY <1>1, <1>4, <2>1 DEF DifferAt
    <3> QED
      BY <1>1, <1>4, <3>1, GreaterLetter
  <2>2. CASE i > Len(a)
    <3>1. Len(a) < Len(v) /\ \A j \in 1..Len(a) : v[j] = a[j]
      BY <1>1, <1>4, <2>2 DEF DifferAt
    <3> QED
      BY <1>4, <3>1, LongerWord
  <2> QED
    BY <1>1, <2>1, <2>2
<1>8. Lands(a, v, b)
  BY <1>1, <1>3, <1>4, <1>5, <1>6, <1>7 DEF Lands
<1> QED
  BY <1>5, <1>8 DEF v, Inconsistent

LEMMA HalfWay ==
  \A l \in Letters, u \in Letters \ {LetterA, LetterB} :
     l < u /\ l + 1 # u => Midpoint(u, l, FALSE) \in (l + 1)..(u - 1)
<1> SUFFICES ASSUME NEW l \in Letters, NEW u \in Letters \ {LetterA, LetterB},
                    l < u, l + 1 # u
             PROVE  Midpoint(u, l, FALSE) \in (l + 1)..(u - 1)
  OBVIOUS
<1>1. l \in Int /\ u \in Int /\ u # 1 /\ l + 1 < u
  BY DEF Letters, LetterA, LetterB, LetterZ
<1>2. Midpoint(u, l, FALSE) = (l + u + 1) \div 2
  BY <1>1 DEF Midpoint, LetterA, LetterB
<1>3. (l + u + 1) \div 2 \in (l + 1)..(u - 1)
  BY <1>1
<1> QED
  BY <1>2, <1>3

(* The routine as a whole: it lands between the bounds or finds no key, and  *)
(* it finds one unless the lower bound goes on beyond the place where they   *)
(* differ, or the upper one ends in an a.                                    *)
LEMMA BetweenLands ==
  ASSUME NEW a \in Word, NEW b \in Word, Before(a, b)
  PROVE  LET v == Between(a, b)
             i == Differing(a, b)
         IN  /\ v # Inconsistent => Lands(a, v, b)
             /\ v = Inconsistent =>
                  \/ /\ b[i] \in {LetterA, LetterB}
                     /\ Len(a) > Len(b) \/ b[Len(b)] = LetterA
                  \/ i < Len(a) /\ (i = 1 /\ b[1] = LetterZ => a[Len(a)] = LetterZ)
<1> DEFINE i == Differing(a, b)
           left == IF i > Len(a) THEN LetterA ELSE a[i]
           half == Extend(Upto(b, i - 1), Midpoint(b[i], left, FALSE))
           w == IF b[i] \in {LetterA, LetterB} THEN BelowAOrB(a, b, i)
                ELSE IF i <= Len(a) /\ left + 1 = b[i] THEN AfterLower(a, b, i)
                ELSE half
<1>1. Between(a, b) = IF w \in {a, b} THEN Inconsistent ELSE w
  BY DEF Between
<1>2. DifferAt(a, b, i)
  BY DifferingIs DEF DifferAt
<1> HIDE DEF i
<1>3. Len(a) \in Nat /\ Len(b) \in Nat /\ i \in 1..Len(b) /\ i \in Nat
  BY <1>2 DEF Word, DifferAt
<1>4. /\ w # Inconsistent => Lands(a, w, b)
      /\ w = Inconsistent =>
           \/ /\ b[i] \in {LetterA, LetterB}
              /\ Len(a) > Len(b) \/ b[Len(b)] = LetterA
           \/ i < Len(a) /\ (i = 1 /\ b[1] = LetterZ => a[Len(a)] = LetterZ)
  <2>1. CASE b[i] \in {LetterA, LetterB}
    <3>1. w = BelowAOrB(a, b, i)
      BY <2>1
    <3> HIDE DEF w
    <3> QED
      BY <1>2, <2>1, <3>1, BelowAOrBLands
  <2>2. CASE b[i] \notin {LetterA, LetterB} /\ i <= Len(a) /\ left + 1 = b[i]
    <3>1. w = AfterLower(a, b, i) /\ a[i] + 1 = b[i]
      BY <1>3, <2>2
    <3> HIDE DEF w, left
    <3>2. /\ w # Inconsistent => Lands(a, w, b)
          /\ w = Inconsistent => /\ i < Len(a)
                                 /\ i = 1 /\ b[i] = LetterZ => a[Len(a)] = LetterZ
      BY <1>2, <2>2, <3>1, AfterLowerLands
    <3> QED
      BY <3>2
  <2>3. CASE b[i] \notin {LetterA, LetterB} /\ ~ (i <= Len(a) /\ left + 1 = b[i])
    <3>1. w = half
      BY <2>3
    <3>2. b[i] \in Letters /\ b[i] \in Int /\ 2 <= b[i]
      <4>1. b[i] \in Letters /\ b[i] \in Int /\ 0 <= b[i]
        BY <1>3, LetterInt
      <4> QED
        BY <2>3, <4>1 DEF LetterA, LetterB
    <3>3. left \in Letters /\ left \in Int /\ left < b[i] /\ left + 1 # b[i]
      <4>1. CASE i > Len(a)
        BY <3>2, <4>1 DEF Letters, LetterA, LetterZ
      <4>2. CASE i <= Len(a)
        <5>1. a[i] \in Letters /\ a[i] \in Int
          BY <1>3, <4>2, LetterInt
        <5> QED
          BY <1>2, <1>3, <2>3, <4>2, <5>1 DEF DifferAt
      <4> QED
        BY <1>3, <4>1, <4>2
    <3>4. IF i > Len(a) THEN left = 0 ELSE left = a[i]
      BY DEF LetterA
    <3> HIDE DEF left
    <3> DEFINE m == Midpoint(b[i], left, FALSE)
    <3>5. m \in (left + 1)..(b[i] - 1)
      BY <2>3, <3>2, <3>3, HalfWay
    <3>6. half = Extend(Upto(b, i - 1), m)
      OBVIOUS
    <3> HIDE DEF m, half
    <3>7. m \in Int /\ left < m /\ m < b[i] /\ m # NoLetter
      <4>1. 0 <= left
        BY <3>3 DEF Letters, LetterA, LetterZ
      <4> QED
        BY <3>2, <3>3, <3>5, <4>1 DEF NoLetter
    <3>8. half = Append(Upto(b, i - 1), m)
      BY <3>6, <3>7 DEF Extend
    <3>9. IF i > Len(a) THEN 0 < m ELSE a[i] < m
      BY <3>4, <3>7
    <3>10. half # Inconsistent /\ Lands(a, half, b)
      BY <1>2, <3>7, <3>8, <3>9, LetterBetweenLands
    <3> HIDE DEF w
    <3> QED
      BY <3>1, <3>10
  <2> HIDE DEF w, left
  <2> QED
    BY <2>1, <2>2, <2>3
<1> HIDE DEF w
<1>5. w # Inconsistent => w # a /\ w # b
  <2> SUFFICES ASSUME Lands(a, w, b) PROVE w # a /\ w # b
    BY <1>4
  <2> QED
    BY BeforeAsymmetric DEF Lands
<1>6. CASE w = Inconsistent
  <2>1. Between(a, b) = Inconsistent
    BY <1>1, <1>6
  <2> QED
    BY <1>4, <1>6, <2>1 DEF i
<1>7. CASE w # Inconsistent
  <2>1. Between(a, b) = w
    BY <1>1, <1>5, <1>7
  <2> QED
    BY <1>4, <1>7, <2>1 DEF i
<1> QED
  BY <1>6, <1>7

-------------------------------------------------------------------------------
(* Keys: what the routine gives out, and keeps room around. *)

Keys == {w \in Word : /\ w # <<>> /\ w[1] # LetterZ
                      /\ w[Len(w)] \notin {LetterA, LetterZ}}

LEMMA KeyIs ==
  ASSUME NEW k \in Keys
  PROVE  /\ k \in Word /\ Len(k) \in Nat \ {0} /\ 1 \in 1..Len(k) /\ Len(k) \in 1..Len(k)
         /\ k[1] \in Int /\ 0 <= k[1] /\ k[1] < 25
         /\ k[Len(k)] \in Int /\ 0 < k[Len(k)] /\ k[Len(k)] < 25
<1>1. k \in Word /\ k # <<>> /\ Len(k) \in Nat
  BY DEF Keys, Word
<1>2. Len(k) # 0
  BY <1>1, EmptySeq DEF Word
<1>3. k[1] \in Letters /\ k[1] \in Int /\ 0 <= k[1] /\ k[1] <= 25
  BY <1>1, <1>2, LetterInt
<1>4. k[Len(k)] \in Letters /\ k[Len(k)] \in Int /\ 0 <= k[Len(k)] /\ k[Len(k)] <= 25
  BY <1>1, <1>2, LetterInt
<1>5. k[1] # 25 /\ k[Len(k)] # 0 /\ k[Len(k)] # 25
  BY DEF Keys, LetterA, LetterZ
<1> QED
  BY <1>1, <1>2, <1>3, <1>4, <1>5

LEMMA FirstLetterBelow ==
  ASSUME NEW a \in Word, a # <<>>, NEW b \in Word, Before(a, b)
  PROVE  b # <<>> /\ a[1] <= b[1]
<1>1. PICK i \in 1..Len(b) : /\ i <= Len(a) + 1
                             /\ \A j \in 1..(i - 1) : a[j] = b[j]
                             /\ i <= Len(a) => a[i] < b[i]
  BY DEF Before
<1>2. Len(a) \in Nat \ {0} /\ Len(b) \in Nat \ {0}
  BY <1>1, EmptySeq DEF Word
<1>3. a[1] \in Int /\ b[1] \in Int
  BY <1>2, LetterInt
<1> QED
  BY <1>1, <1>2, <1>3

LEMMA KeyBetween ==
  ASSUME NEW a \in Keys, NEW b \in Keys, Before(a, b), Between(a, b) # Inconsistent
  PROVE  /\ Between(a, b) \in Keys
         /\ Before(a, Between(a, b)) /\ Before(Between(a, b), b)
         /\ Len(Between(a, b)) <= Len(a) + 1 \/ Len(Between(a, b)) <= Len(b) + 1
<1>1. a \in Word /\ b \in Word /\ b[1] \in Int /\ b[1] < 25
  BY KeyIs
<1> DEFINE w == Between(a, b)
<1>2. Lands(a, w, b)
  BY <1>1, BetweenLands
<1> HIDE DEF w
<1>3. w \in Word /\ w # <<>>
  BY <1>2 DEF Lands
<1>4. w[1] <= b[1]
  BY <1>1, <1>2, <1>3, FirstLetterBelow DEF Lands
<1>5. w[1] \in Int
  BY <1>3, LetterInt, EmptySeq DEF Word
<1>6. w[1] # LetterZ
  BY <1>1, <1>4, <1>5 DEF LetterZ
<1> QED
  BY <1>2, <1>3, <1>6 DEF Lands, Keys, w

LEMMA RoomBetween ==
  ASSUME NEW a \in Keys, NEW b \in Keys, Before(a, b), Len(a) <= Differing(a, b)
  PROVE  Between(a, b) # Inconsistent
<1>1. /\ a \in Word /\ b \in Word /\ Len(a) \in Nat /\ Len(b) \in Nat
      /\ b[Len(b)] # LetterA
  BY KeyIs DEF LetterA
<1>2. Differing(a, b) \in 1..Len(b)
  BY <1>1, DifferingIs
<1> QED
  BY <1>1, <1>2, BetweenLands

(* The bounds that stand for the ends of the alphabet. *)
LEMMA EndsAreBeyond ==
  ASSUME NEW k \in Keys
  PROVE  Before(<<LetterA>>, k) /\ Before(k, <<LetterZ>>)
<1> DEFINE a == <<LetterA>>
           z == <<LetterZ>>
<1>1. /\ k \in Word /\ Len(k) \in Nat \ {0} /\ k[1] \in Int /\ 0 <= k[1] /\ k[1] < 25
      /\ k[Len(k)] \in Int /\ 0 < k[Len(k)]
  BY KeyIs
<1>2. Len(a) = 1 /\ a[1] = 0 /\ Len(z) = 1 /\ z[1] = 25
  BY DEF LetterA, LetterZ
<1> HIDE DEF a, z
<1>3. Before(k, z)
  <2>1. 1 \in 1..Len(z) /\ 1 <= Len(k) + 1 /\ \A j \in 1..(1 - 1) : k[j] = z[j]
    BY <1>1, <1>2
  <2> QED
    BY <1>1, <1>2, <2>1 DEF Before
<1>4. CASE k[1] = 0
  <2>1. Len(k) # 1
    BY <1>1, <1>4
  <2>2. 2 \in 1..Len(k) /\ 2 <= Len(a) + 1 /\ \A j \in 1..(2 - 1) : a[j] = k[j]
    BY <1>1, <1>2, <1>4, <2>1
  <2>3. Before(a, k)
    BY <1>2, <2>2 DEF Before
  <2> QED
    BY <1>3, <2>3 DEF a, z
<1>5. CASE 0 < k[1]
  <2>1. 1 \in 1..Len(k) /\ 1 <= Len(a) + 1 /\ \A j \in 1..(1 - 1) : a[j] = k[j]
    BY <1>1, <1>2
  <2>2. Before(a, k)
    BY <1>2, <1>5, <2>1 DEF Before
  <2> QED
    BY <1>3, <2>2 DEF a, z
<1> QED
  BY <1>1, <1>4, <1>5

LEMMA KeyAboveIs ==
  ASSUME NEW a \in Keys
  PROVE  /\ KeyAbove(a) # Inconsistent /\ KeyAbove(a) \in Keys
         /\ Before(a, KeyAbove(a)) /\ Len(KeyAbove(a)) <= Len(a) + 1
<1> DEFINE z == <<LetterZ>>
<1>1. /\ a \in Word /\ Len(a) \in Nat \ {0} /\ a[1] \in Int /\ a[1] < 25
      /\ a[Len(a)] \in Int /\ a[Len(a)] < 25
  BY KeyIs
<1>2. z \in Word /\ Len(z) = 1 /\ z[1] = 25
  BY DEF Word, Letters, LetterA, LetterZ
<1> HIDE DEF z
<1>3. Before(a, z)
  BY EndsAreBeyond DEF z
<1>4. Differing(a, z) = 1
  <2>1. Differing(a, z) \in 1..Len(z)
    BY <1>1, <1>2, <1>3, DifferingIs
  <2> QED
    BY <1>2, <2>1
<1> DEFINE w == Between(a, z)
<1>5. w # Inconsistent
  <2>1. w = Inconsistent =>
            \/ z[1] \in {LetterA, LetterB}
            \/ z[1] = LetterZ => a[Len(a)] = LetterZ
    BY <1>1, <1>2, <1>3, <1>4, BetweenLands
  <2> HIDE DEF w
  <2> QED
    BY <1>1, <1>2, <2>1 DEF LetterA, LetterB, LetterZ
<1>6. Lands(a, w, z)
  BY <1>1, <1>2, <1>3, <1>5, BetweenLands
<1> HIDE DEF w
<1>7. w \in Word /\ w # <<>> /\ Len(w) \in Nat \ {0}
  BY <1>6, EmptySeq DEF Lands, Word
<1>8. w[1] # LetterZ
  <2> SUFFICES ASSUME w[1] = LetterZ PROVE FALSE
    OBVIOUS
  <2>1. PICK i \in 1..Len(z) : i <= Len(w) + 1 /\ (i <= Len(w) => w[i] < z[i])
    BY <1>6 DEF Lands, Before
  <2>2. i = 1
    BY <1>2, <2>1
  <2> QED
    BY <1>2, <1>7, <2>1, <2>2 DEF LetterZ
<1>9. w \in Keys
  BY <1>6, <1>7, <1>8 DEF Lands, Keys
<1>10. w = KeyAbove(a)
  BY DEF w, z, KeyAbove
<1>11. Len(w) <= Len(a) + 1
  BY <1>1, <1>2, <1>6, <1>7 DEF Lands
<1> QED
  BY <1>5, <1>6, <1>9, <1>10, <1>11 DEF Lands

LEMMA KeyBelowIs ==
  ASSUME NEW b \in Keys
  PROVE  /\ KeyBelow(b) # Inconsistent /\ KeyBelow(b) \in Keys
         /\ Before(KeyBelow(b), b) /\ Len(KeyBelow(b)) <= Len(b) + 1
<1> DEFINE a == <<LetterA>>
<1>1. /\ b \in Word /\ Len(b) \in Nat \ {0} /\ b[1] \in Int /\ 0 <= b[1] /\ b[1] < 25
      /\ b[Len(b)] \in Int /\ 0 < b[Len(b)]
  BY KeyIs
<1>2. a \in Word /\ Len(a) = 1 /\ a[1] = 0 /\ a # <<>>
  BY DEF Word, Letters, LetterA, LetterZ
<1> HIDE DEF a
<1>3. Before(a, b)
  BY EndsAreBeyond DEF a
<1>4. ~ (Differing(a, b) < Len(a)) /\ ~ (Len(a) > Len(b)) /\ b[Len(b)] # LetterA
  <2>1. Differing(a, b) \in 1..Len(b)
    BY <1>1, <1>2, <1>3, DifferingIs
  <2> QED
    BY <1>1, <1>2, <2>1 DEF LetterA
<1> DEFINE w == Between(a, b)
<1>5. w # Inconsistent
  <2>1. w = Inconsistent =>
            \/ Len(a) > Len(b) \/ b[Len(b)] = LetterA
            \/ Differing(a, b) < Len(a)
    BY <1>1, <1>2, <1>3, BetweenLands
  <2> HIDE DEF w
  <2> QED
    BY <1>4, <2>1
<1>6. Lands(a, w, b)
  BY <1>1, <1>2, <1>3, <1>5, BetweenLands
<1> HIDE DEF w
<1>7. w \in Word /\ w # <<>> /\ Len(w) \in Nat \ {0}
  BY <1>6, EmptySeq DEF Lands, Word
<1>8. w[1] <= b[1] /\ w[1] \in Int
  BY <1>1, <1>6, <1>7, FirstLetterBelow, LetterInt DEF Lands
<1>9. w \in Keys
  BY <1>1, <1>6, <1>7, <1>8 DEF Lands, Keys, LetterZ
<1>10. w = KeyBelow(b)
  BY DEF w, a, KeyBelow
<1>11. Len(w) <= Len(b) + 1
  BY <1>1, <1>2, <1>6, <1>7 DEF Lands
<1> QED
  BY <1>5, <1>6, <1>9, <1>10, <1>11 DEF Lands

-------------------------------------------------------------------------------
(* How fast the alphabet is used up: while few keys have been given out, all *)
(* are of one letter, far from one another and from the ends.                *)

Gap(p) == IF p = 0 THEN 25 ELSE IF p = 1 THEN 12 ELSE IF p = 2 THEN 6 ELSE 3

SpreadOut(T, p) ==
  /\ \A k \in T : Len(k) > 1 => Len(k) + 3 <= p
  /\ p <= 3 => /\ \A k \in T : Gap(p) <= k[1] /\ k[1] + Gap(p) <= 25
               /\ \A k, l \in T : k[1] < l[1] => k[1] + Gap(p) <= l[1]

LEMMA BetweenOneLetter ==
  ASSUME NEW a \in Word, NEW b \in Word, Len(a) = 1, Len(b) = 1, a[1] + 3 <= b[1],
         Before(a, b)
  PROVE  Between(a, b) = <<(a[1] + b[1] + 1) \div 2>>
<1>1. /\ a[1] \in Int /\ 0 <= a[1] /\ a[1] <= 25 /\ a[1] \in Letters
      /\ b[1] \in Int /\ 0 <= b[1] /\ b[1] <= 25 /\ b[1] \in Letters
  BY LetterInt
<1>2. Differing(a, b) = 1
  <2>1. Differing(a, b) \in 1..Len(b)
    BY DifferingIs
  <2> QED
    BY <2>1
<1> DEFINE i == Differing(a, b)
           left == IF i > Len(a) THEN LetterA ELSE a[i]
           half == Extend(Upto(b, i - 1), Midpoint(b[i], left, FALSE))
           w == IF b[i] \in {LetterA, LetterB} THEN BelowAOrB(a, b, i)
                ELSE IF i <= Len(a) /\ left + 1 = b[i] THEN AfterLower(a, b, i)
                ELSE half
           m == Midpoint(b[1], a[1], FALSE)
<1>3. Between(a, b) = IF w \in {a, b} THEN Inconsistent ELSE w
  BY DEF Between
<1>4. left = a[1]
  BY <1>2
<1>5. w = half
  <2>1. b[i] \notin {LetterA, LetterB} /\ ~ (left + 1 = b[i])
    BY <1>1, <1>2, <1>4 DEF LetterA, LetterB
  <2> HIDE DEF half, left
  <2> QED
    BY <2>1
<1>6. half = Extend(Upto(b, 0), m)
  BY <1>2, <1>4
<1>7. m = (a[1] + b[1] + 1) \div 2
  BY <1>1 DEF Midpoint, LetterA, LetterB
<1> HIDE DEF i, left, half, w, m
<1>8. m \in Int /\ a[1] < m /\ m < b[1]
  BY <1>1, <1>7
<1>9. Upto(b, 0) = <<>>
  BY DEF Upto, Word
<1>10. half = <<m>>
  <2>1. m # NoLetter
    BY <1>1, <1>8 DEF NoLetter
  <2>2. half = Append(<<>>, m)
    BY <1>6, <1>9, <2>1 DEF Extend
  <2> QED
    BY <2>2
<1>11. <<m>> # a /\ <<m>> # b
  BY <1>1, <1>8
<1> QED
  BY <1>3, <1>5, <1>7, <1>10, <1>11

LEMMA BeforeOneLetter ==
  ASSUME NEW a \in Word, NEW b \in Word, Len(a) = 1, Len(b) = 1, Before(a, b)
  PROVE  a[1] < b[1]
<1>1. PICK i \in 1..Len(b) : i <= Len(a) => a[i] < b[i]
  BY DEF Before
<1> QED
  BY <1>1

LEMMA SpreadOutSubset ==
  ASSUME NEW T, NEW U \in SUBSET T, NEW p, SpreadOut(T, p)
  PROVE  SpreadOut(U, p)
BY DEF SpreadOut

(* One more key, halfway between two neighbours or an end. *)
LEMMA OneMoreKey ==
  ASSUME NEW T \in SUBSET Keys, NEW p \in Nat, SpreadOut(T, p),
         NEW a \in T \cup {<<LetterA>>}, NEW b \in T \cup {<<LetterZ>>}, Before(a, b),
         \A m \in T : m = a \/ m = b \/ Before(m, a) \/ Before(b, m),
         NEW w \in Keys, w = Between(a, b),
         Len(w) <= Len(a) + 1 \/ Len(w) <= Len(b) + 1
  PROVE  SpreadOut(T \cup {w}, p + 1)
<1>1. /\ <<LetterA>> \in Word /\ Len(<<LetterA>>) \in Nat /\ Len(<<LetterA>>) = 1 /\ Len(<<LetterA>>) <= 1 /\ <<LetterA>>[1] = 0
      /\ <<LetterZ>> \in Word /\ Len(<<LetterZ>>) \in Nat /\ Len(<<LetterZ>>) = 1 /\ Len(<<LetterZ>>) <= 1 /\ <<LetterZ>>[1] = 25
  BY DEF Word, Letters, LetterA, LetterZ
<1>2. \A k \in Keys : k \in Word /\ Len(k) \in Nat /\ 1 <= Len(k) /\ k[1] \in Int
  BY KeyIs
<1>3. /\ a \in Word /\ Len(a) \in Nat /\ 1 <= Len(a) /\ a[1] \in Int
      /\ b \in Word /\ Len(b) \in Nat /\ 1 <= Len(b) /\ b[1] \in Int
      /\ Len(w) \in Nat /\ 1 <= Len(w)
  BY <1>1, <1>2
<1>4. CASE p >= 4
  <2>1. Len(a) <= 1 \/ Len(a) + 3 <= p
    <3>1. CASE a \in T
      BY <1>2, <1>3, <3>1 DEF SpreadOut
    <3>2. CASE a \notin T
      BY <1>1, <3>2
    <3> QED
      BY <3>1, <3>2
  <2>2. Len(b) <= 1 \/ Len(b) + 3 <= p
    <3>1. CASE b \in T
      BY <1>2, <1>3, <3>1 DEF SpreadOut
    <3>2. CASE b \notin T
      BY <1>1, <3>2
    <3> QED
      BY <3>1, <3>2
  <2>3. Len(w) + 3 <= p + 1
    BY <1>3, <1>4, <2>1, <2>2
  <2>4. \A k \in T : Len(k) > 1 => Len(k) + 3 <= p + 1
    BY <1>2 DEF SpreadOut
  <2> QED
    BY <1>4, <2>3, <2>4 DEF SpreadOut
<1>5. CASE p \in 0..3
  <2>1. \A k \in T : Len(k) <= 1 /\ Len(k) = 1 /\ k \in Word /\ k[1] \in Int
    <3>1. \A k \in T : Len(k) \in Nat /\ (Len(k) > 1 => Len(k) + 3 <= p)
      BY <1>2 DEF SpreadOut
    <3>2. \A k \in T : Len(k) <= 1
      BY <1>5, <3>1
    <3>3. \A k \in T : 1 <= Len(k) /\ k \in Word /\ k[1] \in Int
      BY <1>2
    <3>4. \A k \in T : Len(k) = 1
      <4> SUFFICES ASSUME NEW k \in T PROVE Len(k) = 1
        OBVIOUS
      <4>1. \A n \in Nat : n <= 1 /\ 1 <= n => n = 1
        OBVIOUS
      <4> QED
        BY <3>1, <3>2, <3>3, <4>1, Zenon
    <3> QED
      BY <3>2, <3>3, <3>4
  <2>2. /\ \A k \in T : Gap(p) <= k[1] /\ k[1] + Gap(p) <= 25
        /\ \A k, l \in T : k[1] < l[1] => k[1] + Gap(p) <= l[1]
    BY <1>5 DEF SpreadOut
  <2>3. Len(a) = 1 /\ Len(b) = 1
    BY <1>1, <2>1
  <2>4. a[1] < b[1]
    BY <1>3, <2>3, BeforeOneLetter
  <2>5. Gap(p) \in Int /\ 3 <= Gap(p) /\ Gap(p) <= 25
    BY <1>5 DEF Gap
  <2>6. a[1] + Gap(p) <= b[1] /\ 0 <= a[1] /\ b[1] <= 25
    <3>1. CASE a \in T /\ b \in T
      BY <2>1, <2>2, <2>4, <2>5, <3>1
    <3>2. CASE a \in T /\ b \notin T
      BY <1>1, <2>1, <2>2, <2>5, <3>2
    <3>3. CASE a \notin T /\ b \in T
      BY <1>1, <2>1, <2>2, <2>5, <3>3
    <3>4. CASE a \notin T /\ b \notin T
      BY <1>1, <2>5, <3>4
    <3> QED
      BY <3>1, <3>2, <3>3, <3>4
  <2>7. w = <<(a[1] + b[1] + 1) \div 2>>
    BY <1>3, <2>3, <2>5, <2>6, BetweenOneLetter
  <2>8. Len(w) <= 1 /\ w[1] = (a[1] + b[1] + 1) \div 2
    BY <2>7
  <2>9. w[1] \in Int
    BY <1>2
  <2>10. \A m \in T : m[1] <= a[1] \/ b[1] <= m[1]
    <3> SUFFICES ASSUME NEW m \in T PROVE m[1] <= a[1] \/ b[1] <= m[1]
      OBVIOUS
    <3>1. m \in Word /\ Len(m) = 1 /\ m[1] \in Int
      BY <2>1
    <3>2. CASE m = a \/ m = b
      BY <1>3, <3>2
    <3>3. CASE Before(m, a)
      BY <1>3, <2>3, <3>1, <3>3, BeforeOneLetter
    <3>4. CASE Before(b, m)
      BY <1>3, <2>3, <3>1, <3>4, BeforeOneLetter
    <3> QED
      BY <3>2, <3>3, <3>4
  <2>11. CASE p = 3
    <3>1. \A k \in T \cup {w} : ~ (Len(k) > 1)
      BY <1>2, <2>1, <2>8
    <3> QED
      BY <2>11, <3>1 DEF SpreadOut
  <2>12. CASE p \in 0..2
    <3> DEFINE g == Gap(p + 1)
    <3>1. g \in Int /\ 3 <= g /\ 2 * g <= Gap(p)
      BY <2>12 DEF Gap
    <3> HIDE DEF g
    <3>2. a[1] + g <= w[1] /\ w[1] + g <= b[1]
      <4>1. \A x, y \in Int : x + 2 * g <= y =>
              /\ x + g <= (x + y + 1) \div 2
              /\ (x + y + 1) \div 2 + g <= y
        BY <3>1
      <4>2. a[1] + 2 * g <= b[1]
        BY <1>3, <2>5, <2>6, <3>1
      <4> QED
        BY <1>3, <2>8, <4>1, <4>2
    <3>3. \A k \in T \cup {w} : g <= k[1] /\ k[1] + g <= 25
      <4>1. \A k \in T : g <= k[1] /\ k[1] + g <= 25
        BY <2>1, <2>2, <2>5, <3>1
      <4>2. g <= w[1] /\ w[1] + g <= 25
        BY <1>3, <2>6, <2>9, <3>1, <3>2
      <4> QED
        BY <4>1, <4>2
    <3>4. \A k, l \in T \cup {w} : k[1] < l[1] => k[1] + g <= l[1]
      <4> SUFFICES ASSUME NEW k \in T \cup {w}, NEW l \in T \cup {w}, k[1] < l[1]
                   PROVE  k[1] + g <= l[1]
        OBVIOUS
      <4>1. CASE k \in T /\ l \in T
        BY <2>1, <2>2, <2>5, <3>1, <4>1
      <4>2. CASE k \in T /\ l = w
        <5>1. k[1] \in Int /\ (k[1] <= a[1] \/ b[1] <= k[1])
          BY <2>1, <2>10, <4>2
        <5>2. k[1] <= a[1]
          BY <1>3, <2>9, <3>1, <3>2, <4>2, <5>1
        <5> QED
          BY <1>3, <2>9, <3>1, <3>2, <4>2, <5>1, <5>2
      <4>3. CASE k = w /\ l \in T
        BY <1>3, <2>1, <2>6, <2>9, <2>10, <3>1, <3>2, <4>3
      <4>4. CASE k = w /\ l = w
        BY <2>9, <4>4
      <4> QED
        BY <4>1, <4>2, <4>3, <4>4
    <3>5. \A k \in T \cup {w} : ~ (Len(k) > 1)
      BY <1>2, <2>1, <2>8
    <3> QED
      BY <3>3, <3>4, <3>5 DEF SpreadOut, g
  <2> QED
    BY <1>5, <2>11, <2>12
<1> QED
  BY <1>4, <1>5

-------------------------------------------------------------------------------
(* The ends of a table. *)

(* A finite set that a relation orders has a first element. *)
LEMMA FirstOfOrdered ==
  ASSUME NEW T, IsFiniteSet(T), T # {}, NEW R,
         \A x, y \in T : x # y => <<x, y>> \in R \/ <<y, x>> \in R,
         \A x, y, z \in T : <<x, y>> \in R /\ <<y, z>> \in R => <<x, z>> \in R
  PROVE  \E x \in T : \A y \in T \ {x} : <<x, y>> \in R
<1> DEFINE First(U) == \E x \in U : \A y \in U \ {x} : <<x, y>> \in R
           S == {n \in Nat : \A U \in SUBSET T :
                               Cardinality(U) = n + 1 => First(U)}
<1>1. \A U \in SUBSET T : IsFiniteSet(U) /\ Cardinality(U) \in Nat
  BY FS_Subset, FS_CardinalityType
<1>2. 0 \in S
  <2> SUFFICES ASSUME NEW U \in SUBSET T, Cardinality(U) = 1 PROVE First(U)
    OBVIOUS
  <2>1. PICK x : U = {x}
    BY <1>1, FS_Singleton
  <2> QED
    BY <2>1
<1>3. \A n \in Nat : n \in S => n + 1 \in S
  <2> SUFFICES ASSUME NEW n \in Nat, n \in S,
                      NEW U \in SUBSET T, Cardinality(U) = n + 1 + 1
               PROVE  First(U)
    OBVIOUS
  <2>1. U # {}
    BY <1>1, FS_EmptySet
  <2>2. PICK u \in U : TRUE
    BY <2>1
  <2>3. U \ {u} \in SUBSET T /\ Cardinality(U \ {u}) = n + 1
    BY <1>1, <2>2, FS_RemoveElement
  <2>4. PICK x \in U \ {u} : \A y \in (U \ {u}) \ {x} : <<x, y>> \in R
    BY <2>3
  <2>5. CASE <<x, u>> \in R
    BY <2>4, <2>5
  <2>6. CASE <<u, x>> \in R
    <3>1. \A y \in U \ {u} : <<u, y>> \in R
      BY <2>2, <2>4, <2>6
    <3> QED
      BY <2>2, <3>1
  <2> QED
    BY <2>2, <2>4, <2>5, <2>6
<1>4. Cardinality(T) - 1 \in Nat
  BY <1>1, FS_EmptySet
<1>5. Cardinality(T) - 1 \in S
  <2> HIDE DEF S
  <2>1. Nat \subseteq S
    BY <1>2, <1>3, NatSetInduction
  <2> QED
    BY <1>4, <2>1
<1>6. Cardinality(T) - 1 + 1 = Cardinality(T)
  BY <1>1
<1> QED
  BY <1>5, <1>6

LEMMA EndsExist ==
  ASSUME NEW T \in SUBSET Keys, IsFiniteSet(T), T # {}
  PROVE  /\ \E k \in T : \A l \in T \ {k} : Before(k, l)
         /\ \E k \in T : \A l \in T \ {k} : Before(l, k)
<1> DEFINE R == {p \in T \X T : Before(p[1], p[2])}
           Q == {p \in T \X T : Before(p[2], p[1])}
<1>1. \A k \in T : k \in Word
  BY KeyIs
<1>2. /\ \A k, l \in T : k # l => Before(k, l) \/ Before(l, k)
      /\ \A k, l, m \in T : Before(k, l) /\ Before(l, m) => Before(k, m)
  BY <1>1, BeforeTotal, BeforeTransitive
<1>3. \A k, l \in T : (<<k, l>> \in R <=> Before(k, l)) /\ (<<k, l>> \in Q <=> Before(l, k))
  OBVIOUS
<1> HIDE DEF R, Q
<1>4. \E k \in T : \A l \in T \ {k} : <<k, l>> \in R
  <2>1. /\ \A x, y \in T : x # y => <<x, y>> \in R \/ <<y, x>> \in R
        /\ \A x, y, z \in T : <<x, y>> \in R /\ <<y, z>> \in R => <<x, z>> \in R
    BY <1>2, <1>3
  <2> QED
    BY <2>1, FirstOfOrdered
<1>5. \E k \in T : \A l \in T \ {k} : <<k, l>> \in Q
  <2>1. /\ \A x, y \in T : x # y => <<x, y>> \in Q \/ <<y, x>> \in Q
        /\ \A x, y, z \in T : <<x, y>> \in Q /\ <<y, z>> \in Q => <<x, z>> \in Q
    BY <1>2, <1>3
  <2> QED
    BY <2>1, FirstOfOrdered
<1> QED
  BY <1>3, <1>4, <1>5

(* Keys given one after the other, each above the one before. *)
Chain(f, n, x) == f = [i \in 1..n |-> IF i = 1 THEN x ELSE KeyAbove(f[i - 1])]

LEMMA ChainExists ==
  ASSUME NEW x
  PROVE  \A n \in Nat : \E f : Chain(f, n, x)
<1> DEFINE S == {n \in Nat : \E f : Chain(f, n, x)}
<1>1. 0 \in S
  <2>1. Chain([i \in 1..0 |-> x], 0, x)
    BY DEF Chain
  <2> QED
    BY <2>1
<1>2. \A n \in Nat : n \in S => n + 1 \in S
  <2> SUFFICES ASSUME NEW n \in Nat, n \in S PROVE n + 1 \in S
    OBVIOUS
  <2>1. PICK f : Chain(f, n, x)
    OBVIOUS
  <2> DEFINE next == IF n + 1 = 1 THEN x ELSE KeyAbove(f[n])
             g == [i \in 1..(n + 1) |-> IF i = n + 1 THEN next ELSE f[i]]
  <2>2. \A i \in 1..(n + 1) :
          g[i] = IF i = 1 THEN x ELSE KeyAbove(g[i - 1])
    <3> SUFFICES ASSUME NEW i \in 1..(n + 1)
                 PROVE  g[i] = IF i = 1 THEN x ELSE KeyAbove(g[i - 1])
      OBVIOUS
    <3>1. CASE i = n + 1
      <4>1. i # 1 => n \in 1..(n + 1) /\ n # n + 1 /\ i - 1 = n
        BY <3>1
      <4>2. i # 1 => g[i - 1] = f[n]
        BY <4>1
      <4> QED
        BY <3>1, <4>2
    <3>2. CASE i # n + 1
      <4>1. i \in 1..n /\ g[i] = f[i]
        BY <3>2
      <4>2. f[i] = IF i = 1 THEN x ELSE KeyAbove(f[i - 1])
        BY <2>1, <4>1 DEF Chain
      <4>3. i # 1 => g[i - 1] = f[i - 1]
        BY <3>2
      <4> QED
        BY <4>1, <4>2, <4>3
    <3> QED
      BY <3>1, <3>2
  <2>3. g = [i \in 1..(n + 1) |-> g[i]]
    OBVIOUS
  <2> HIDE DEF g
  <2>4. Chain(g, n + 1, x)
    BY <2>2, <2>3 DEF Chain
  <2> QED
    BY <2>4
<1> HIDE DEF S
<1>3. Nat \subseteq S
  BY <1>1, <1>2, NatSetInduction
<1> QED
  BY <1>3 DEF S

LEMMA OrderIsChain ==
  ASSUME NEW n \in Nat, NEW h
  PROVE  /\ Chain(OrderAfter(n, h), n, KeyAbove(h))
         /\ Chain(OrderFromNone(n), n, FirstKey)
<1>1. Chain(OrderAfter(n, h), n, KeyAbove(h))
  <2>1. OrderAfter(n, h) = CHOOSE f : Chain(f, n, KeyAbove(h))
    BY DEF OrderAfter, Chain
  <2> QED
    BY <2>1, ChainExists
<1>2. Chain(OrderFromNone(n), n, FirstKey)
  <2>1. OrderFromNone(n) = CHOOSE f : Chain(f, n, FirstKey)
    BY DEF OrderFromNone, Chain
  <2> QED
    BY <2>1, ChainExists
<1> QED
  BY <1>1, <1>2

-------------------------------------------------------------------------------
(* The keys of a table, and what each request does to them. *)

KeysInv(T, p) ==
  /\ T \in SUBSET Keys
  /\ IsFiniteSet(T)
  /\ SpreadOut(T, p)

IsHighest(h, T) == h \in T /\ \A l \in T \ {h} : Before(l, h)
IsLowest(h, T) == h \in T /\ \A l \in T \ {h} : Before(h, l)

LEMMA PutBetween ==
  ASSUME NEW T, NEW p \in Nat, KeysInv(T, p), NEW k \in T, NEW l \in T,
         Before(k, l), \A m \in T : ~ (Before(k, m) /\ Before(m, l)),
         Between(k, l) # Inconsistent
  PROVE  KeysInv(T \cup {Between(k, l)}, p + 1)
<1> DEFINE w == Between(k, l)
<1>1. T \in SUBSET Keys /\ IsFiniteSet(T) /\ SpreadOut(T, p)
  BY DEF KeysInv
<1>2. w \in Keys /\ (Len(w) <= Len(k) + 1 \/ Len(w) <= Len(l) + 1)
  BY <1>1, KeyBetween
<1>3. \A m \in T : m = k \/ m = l \/ Before(m, k) \/ Before(l, m)
  <2>1. \A m \in T : m \in Word
    BY <1>1, KeyIs
  <2> QED
    BY <2>1, BeforeTotal
<1>4. w = Between(k, l)
  OBVIOUS
<1> HIDE DEF w
<1>5. SpreadOut(T \cup {w}, p + 1)
  BY <1>1, <1>2, <1>3, <1>4, OneMoreKey
<1>6. IsFiniteSet(T \cup {w})
  BY <1>1, FS_AddElement
<1> QED
  BY <1>1, <1>2, <1>5, <1>6 DEF KeysInv, w

LEMMA PutAbove ==
  ASSUME NEW T, NEW p \in Nat, KeysInv(T, p), NEW h, IsHighest(h, T)
  PROVE  LET w == KeyAbove(h)
         IN  KeysInv(T \cup {w}, p + 1) /\ w \notin T /\ IsHighest(w, T \cup {w})
<1> DEFINE w == KeyAbove(h)
<1>1. /\ T \in SUBSET Keys /\ IsFiniteSet(T) /\ SpreadOut(T, p)
      /\ h \in T /\ h \in Keys /\ \A l \in T \ {h} : Before(l, h)
  BY DEF KeysInv, IsHighest
<1>2. w \in Keys /\ Before(h, w) /\ Len(w) <= Len(h) + 1
  BY <1>1, KeyAboveIs
<1>3. \A m \in T : m = h \/ Before(m, h)
  BY <1>1
<1>4. Before(h, <<LetterZ>>) /\ w = Between(h, <<LetterZ>>)
  BY <1>1, EndsAreBeyond DEF KeyAbove
<1> HIDE DEF w
<1>5. SpreadOut(T \cup {w}, p + 1)
  <2> DEFINE z == <<LetterZ>>
  <2>1. z \in T \cup {<<LetterZ>>} /\ Before(h, z) /\ w = Between(h, z)
    BY <1>4
  <2> HIDE DEF z
  <2> QED
    BY <1>1, <1>2, <1>3, <2>1, OneMoreKey
<1>6. IsFiniteSet(T \cup {w})
  BY <1>1, FS_AddElement
<1>7. \A m \in T : Before(m, w)
  <2>1. \A m \in T \cup {w} : m \in Word
    BY <1>1, <1>2, KeyIs
  <2> QED
    BY <1>1, <1>2, <1>3, <2>1, BeforeTransitive
<1>8. w \notin T
  BY <1>2, <1>7, KeyIs, BeforeIrreflexive
<1> QED
  BY <1>1, <1>2, <1>5, <1>6, <1>7, <1>8 DEF KeysInv, IsHighest, w

LEMMA PutBelow ==
  ASSUME NEW T, NEW p \in Nat, KeysInv(T, p), NEW h, IsLowest(h, T)
  PROVE  KeysInv(T \cup {KeyBelow(h)}, p + 1)
<1> DEFINE w == KeyBelow(h)
           a == <<LetterA>>
<1>1. /\ T \in SUBSET Keys /\ IsFiniteSet(T) /\ SpreadOut(T, p)
      /\ h \in T /\ h \in Keys /\ \A l \in T \ {h} : Before(h, l)
  BY DEF KeysInv, IsLowest
<1>2. w \in Keys /\ Len(w) <= Len(h) + 1
  BY <1>1, KeyBelowIs
<1>3. \A m \in T : m = h \/ Before(h, m)
  BY <1>1
<1>4. a \in T \cup {<<LetterA>>} /\ Before(a, h) /\ w = Between(a, h)
  BY <1>1, EndsAreBeyond DEF KeyBelow
<1> HIDE DEF w, a
<1>5. SpreadOut(T \cup {w}, p + 1)
  BY <1>1, <1>2, <1>3, <1>4, OneMoreKey
<1>6. IsFiniteSet(T \cup {w})
  BY <1>1, FS_AddElement
<1> QED
  BY <1>1, <1>2, <1>5, <1>6 DEF KeysInv, w

LEMMA FirstKeyIs == FirstKey = <<13>> /\ FirstKey \in Keys
BY MiddleIsN DEF FirstKey, Keys, Word, Letters, LetterA, LetterZ

LEMMA PutFirst ==
  ASSUME NEW p \in Nat
  PROVE  KeysInv({FirstKey}, p + 1) /\ IsHighest(FirstKey, {FirstKey})
<1>1. ~ (Len(FirstKey) > 1) /\ FirstKey[1] = 13
  BY FirstKeyIs
<1>2. SpreadOut({FirstKey}, p + 1)
  BY <1>1 DEF SpreadOut, Gap
<1>3. IsFiniteSet({FirstKey})
  BY FS_Singleton
<1> QED
  BY <1>2, <1>3, FirstKeyIs DEF KeysInv, IsHighest

LEMMA KeysInvSubset ==
  ASSUME NEW T, NEW U \in SUBSET T, NEW p, KeysInv(T, p)
  PROVE  KeysInv(U, p)
BY SpreadOutSubset, FS_Subset DEF KeysInv

(* Rows appended one after the other. *)
LEMMA PutChain ==
  ASSUME NEW T, NEW p \in Nat, KeysInv(T, p), NEW n \in Nat, NEW f, NEW x,
         Chain(f, n, x),
         \/ T = {} /\ x = FirstKey
         \/ \E h : IsHighest(h, T) /\ x = KeyAbove(h)
  PROVE  LET new == {f[i] : i \in 1..n}
         IN  KeysInv(T \cup new, p + n) /\ Cardinality(new) = n
<1> DEFINE F(m) == {f[i] : i \in 1..m}
           Put(m) == /\ KeysInv(T \cup F(m), p + m)
                     /\ IsFiniteSet(F(m)) /\ Cardinality(F(m)) = m
                     /\ m # 0 => IsHighest(f[m], T \cup F(m))
           S == {m \in Nat : m <= n => Put(m)}
<1>1. 0 \in S
  <2>1. F(0) = {}
    OBVIOUS
  <2> HIDE DEF F
  <2>2. T \cup F(0) = T /\ p + 0 = p
    BY <2>1
  <2>3. Put(0)
    BY <2>1, <2>2, FS_EmptySet
  <2> QED
    BY <2>3
<1>2. \A m \in Nat : m \in S => m + 1 \in S
  <2> SUFFICES ASSUME NEW m \in Nat, Put(m), m + 1 <= n PROVE Put(m + 1)
    <3> HIDE DEF Put
    <3> QED
      OBVIOUS
  <2>1. F(m + 1) = F(m) \cup {f[m + 1]}
    OBVIOUS
  <2>2. f[m + 1] = IF m + 1 = 1 THEN x ELSE KeyAbove(f[m])
    <3>1. m + 1 \in 1..n /\ (m + 1) - 1 = m
      OBVIOUS
    <3> QED
      BY <3>1 DEF Chain
  <2>3. m = 0 => F(m) = {}
    OBVIOUS
  <2> HIDE DEF F
  <2> DEFINE U == T \cup F(m)
             w == f[m + 1]
  <2>4. T \cup F(m + 1) = U \cup {w}
    BY <2>1
  <2>5. KeysInv(U, p + m) /\ p + m \in Nat
    OBVIOUS
  <2>6. /\ KeysInv(U \cup {w}, p + m + 1)
        /\ w \notin U /\ IsHighest(w, U \cup {w})
    <3>1. CASE m = 0 /\ T = {} /\ x = FirstKey
      <4>1. w = FirstKey /\ U = {} /\ U \cup {w} = {FirstKey}
        BY <2>2, <2>3, <3>1
      <4> HIDE DEF U, w
      <4> QED
        BY <2>5, <4>1, PutFirst
    <3>2. CASE m = 0 /\ \E h : IsHighest(h, T) /\ x = KeyAbove(h)
      <4>1. PICK h : IsHighest(h, T) /\ x = KeyAbove(h)
        BY <3>2
      <4>2. U = T /\ w = KeyAbove(h)
        BY <2>2, <2>3, <3>2, <4>1
      <4> HIDE DEF U, w
      <4> QED
        BY <2>5, <4>1, <4>2, PutAbove
    <3>3. CASE m # 0
      <4>1. IsHighest(f[m], U) /\ w = KeyAbove(f[m])
        BY <2>2, <3>3
      <4> HIDE DEF U, w
      <4> QED
        BY <2>5, <4>1, PutAbove
    <3> QED
      BY <3>1, <3>2, <3>3
  <2>7. p + m + 1 = p + (m + 1)
    OBVIOUS
  <2>8. IsFiniteSet(F(m + 1)) /\ Cardinality(F(m + 1)) = m + 1
    <3>1. w \notin F(m)
      BY <2>6
    <3>2. IsFiniteSet(F(m)) /\ Cardinality(F(m)) = m
      OBVIOUS
    <3> QED
      BY <2>1, <3>1, <3>2, FS_AddElement
  <2> QED
    BY <2>4, <2>6, <2>7, <2>8
<1> HIDE DEF S
<1>3. n \in S
  BY <1>1, <1>2, NatSetInduction
<1> QED
  BY <1>3 DEF S

-------------------------------------------------------------------------------
(* The invariant: all keys are the routine's, spread out as long as few have *)
(* been given out.                                                           *)

TableKeysInv == KeysInv(keys, put) /\ put \in Nat

LEMMA EndsAre ==
  ASSUME TableKeysInv, keys # {}
  PROVE  /\ IsLowest(Lowest, keys) /\ IsHighest(Highest, keys)
         /\ Lowest \in Keys /\ Highest \in Keys
<1>1. keys \in SUBSET Keys /\ IsFiniteSet(keys)
  BY DEF TableKeysInv, KeysInv
<1>2. IsLowest(Lowest, keys) /\ IsHighest(Highest, keys)
  BY <1>1, EndsExist DEF IsLowest, IsHighest, Lowest, Highest
<1> QED
  BY <1>1, <1>2 DEF IsLowest, IsHighest

LEMMA GiveOne ==
  ASSUME NEW w, NEW T, put \in Nat, Give({w}, T), KeysInv(T \cup {w}, put + 1)
  PROVE  TableKeysInv'
<1>1. Cardinality({w}) = 1
  BY FS_Singleton
<1> QED
  BY <1>1 DEF Give, TableKeysInv

LEMMA AppendStep ==
  ASSUME TableKeysInv, NEW n \in Nat, AppendRows(n)
  PROVE  TableKeysInv'
<1> DEFINE f == IF keys = {} THEN OrderFromNone(n) ELSE OrderAfter(n, Highest)
           x == IF keys = {} THEN FirstKey ELSE KeyAbove(Highest)
           new == {f[i] : i \in 1..n}
<1>1. Give(new, keys)
  BY DEF AppendRows
<1>2. Chain(f, n, x)
  BY OrderIsChain
<1>3. \/ keys = {} /\ x = FirstKey
      \/ \E h : IsHighest(h, keys) /\ x = KeyAbove(h)
  BY EndsAre
<1> HIDE DEF f, x
<1>4. KeysInv(keys \cup new, put + n) /\ Cardinality(new) = n
  BY <1>2, <1>3, PutChain DEF TableKeysInv
<1> QED
  BY <1>1, <1>4 DEF Give, TableKeysInv

LEMMA KeysInitInv == KeysInit => TableKeysInv
BY FS_EmptySet DEF KeysInit, TableKeysInv, KeysInv, SpreadOut

LEMMA KeysNextInv == TableKeysInv /\ [KeysNext]_keysVars => TableKeysInv'
<1> SUFFICES ASSUME TableKeysInv, [KeysNext]_keysVars PROVE TableKeysInv'
  OBVIOUS
<1>1. KeysInv(keys, put) /\ put \in Nat /\ keys \in SUBSET Keys
  BY DEF TableKeysInv, KeysInv
<1>2. CASE AppendRows(1)
  BY <1>2, AppendStep
<1>3. CASE AppendRows(MaxBulk)
  <2>1. MaxBulk \in Nat
    BY TableKeysAssumption
  <2> QED
    BY <1>3, <2>1, AppendStep
<1>4. CASE InsertFirst
  <2>1. keys # {} /\ Give({KeyBelow(Lowest)}, keys)
    BY <1>4 DEF InsertFirst
  <2>2. KeysInv(keys \cup {KeyBelow(Lowest)}, put + 1)
    BY <1>1, <2>1, EndsAre, PutBelow
  <2> QED
    BY <1>1, <2>1, <2>2, GiveOne
<1>5. CASE InsertBetween
  <2>1. PICK k \in keys, l \in keys :
           /\ Neighbours(k, l) /\ Between(k, l) # Inconsistent
           /\ Give({Between(k, l)}, keys)
    BY <1>5 DEF InsertBetween
  <2>2. KeysInv(keys \cup {Between(k, l)}, put + 1)
    BY <1>1, <2>1, PutBetween DEF Neighbours
  <2> QED
    BY <1>1, <2>1, <2>2, GiveOne
<1>6. CASE Move
  <2>1. PICK r \in keys :
        \/ r # Lowest /\ Give({KeyBelow(Lowest)}, keys \ {r})
        \/ r # Highest /\ Give({KeyAbove(Highest)}, keys \ {r})
        \/ \E k, l \in keys \ {r} :
              /\ Neighbours(k, l) /\ Between(k, l) # Inconsistent
              /\ Give({Between(k, l)}, keys \ {r})
    BY <1>6 DEF Move
  <2> DEFINE T == keys \ {r}
  <2>2. KeysInv(T, put)
    BY <1>1, KeysInvSubset
  <2>3. IsLowest(Lowest, keys) /\ IsHighest(Highest, keys)
    BY EndsAre
  <2>4. CASE r # Lowest /\ Give({KeyBelow(Lowest)}, T)
    <3>1. IsLowest(Lowest, T)
      BY <2>3, <2>4 DEF IsLowest
    <3> HIDE DEF T
    <3>2. KeysInv(T \cup {KeyBelow(Lowest)}, put + 1)
      BY <1>1, <2>2, <3>1, PutBelow
    <3> QED
      BY <1>1, <2>4, <3>2, GiveOne
  <2>5. CASE r # Highest /\ Give({KeyAbove(Highest)}, T)
    <3>1. IsHighest(Highest, T)
      BY <2>3, <2>5 DEF IsHighest
    <3> HIDE DEF T
    <3>2. KeysInv(T \cup {KeyAbove(Highest)}, put + 1)
      BY <1>1, <2>2, <3>1, PutAbove
    <3> QED
      BY <1>1, <2>5, <3>2, GiveOne
  <2>6. CASE \E k, l \in T : /\ Neighbours(k, l) /\ Between(k, l) # Inconsistent
                             /\ Give({Between(k, l)}, T)
    <3>1. PICK k \in T, l \in T : /\ Neighbours(k, l) /\ Between(k, l) # Inconsistent
                                  /\ Give({Between(k, l)}, T)
      BY <2>6
    <3>2. Before(k, l) /\ \A m \in T : ~ (Before(k, m) /\ Before(m, l))
      BY <3>1 DEF Neighbours
    <3> HIDE DEF T
    <3>3. KeysInv(T \cup {Between(k, l)}, put + 1)
      BY <1>1, <2>2, <3>1, <3>2, PutBetween
    <3> QED
      BY <1>1, <3>1, <3>3, GiveOne
  <2> QED
    BY <2>1, <2>4, <2>5, <2>6
<1>7. CASE Delete
  <2>1. keys' \in SUBSET keys /\ put' = put
    BY <1>7 DEF Delete
  <2>2. KeysInv(keys', put)
    BY <1>1, <2>1, KeysInvSubset
  <2> QED
    BY <1>1, <2>1, <2>2 DEF TableKeysInv
<1>8. CASE UNCHANGED keysVars
  BY <1>8 DEF keysVars, TableKeysInv
<1> QED
  BY <1>2, <1>3, <1>4, <1>5, <1>6, <1>7, <1>8 DEF KeysNext

(* Every key a table ever holds is one the routine leaves room around.       *)
THEOREM KeysInvCorrect == KeysSpec => []TableKeysInv
<1> QED
  BY KeysInitInv, KeysNextInv, PTL DEF KeysSpec

LEMMA KeysInvLands == TableKeysInv => LandsBetween
<1> SUFFICES ASSUME TableKeysInv PROVE LandsBetween
  OBVIOUS
<1>1. \A k \in keys : k \in Keys
  BY DEF TableKeysInv, KeysInv
<1>2. \A k, l \in keys : Neighbours(k, l) =>
          \/ Between(k, l) = Inconsistent
          \/ Before(k, Between(k, l)) /\ Before(Between(k, l), l)
  BY <1>1, KeyBetween DEF Neighbours
<1>3. keys # {} => /\ Before(KeyBelow(Lowest), Lowest)
                   /\ Before(Highest, KeyAbove(Highest))
  BY EndsAre, KeyBelowIs, KeyAboveIs
<1> QED
  BY <1>2, <1>3 DEF LandsBetween

LEMMA KeysInvRoom == TableKeysInv => HasRoom
<1> SUFFICES ASSUME TableKeysInv PROVE HasRoom
  OBVIOUS
<1>1. \A k \in keys : k \in Keys
  BY DEF TableKeysInv, KeysInv
<1>2. keys # {} => Inconsistent \notin {KeyBelow(Lowest), KeyAbove(Highest)}
  BY EndsAre, KeyBelowIs, KeyAboveIs
<1>3. \A k, l \in keys :
          Neighbours(k, l) /\ Len(k) <= Differing(k, l) => Between(k, l) # Inconsistent
  BY <1>1, RoomBetween DEF Neighbours
<1>4. KeysStayShort
  BY DEF TableKeysInv, KeysInv, SpreadOut, KeysStayShort
<1> QED
  BY <1>2, <1>3, <1>4 DEF HasRoom, RoomToInsert

(* What is put between two rows sorts between them, and what is put at an    *)
(* end sorts beyond it, however many rows there have been and however long   *)
(* their keys have become (lexographic_midpoint, tabling/utils.py:243-246).  *)
THEOREM LandsBetweenCorrect == KeysSpec => []LandsBetween
<1> QED
  BY KeysInvCorrect, KeysInvLands, PTL

(* There is room at both ends of every table, and between two rows unless    *)
(* the key of the first goes on beyond the letter where they first differ;   *)
(* and the keys are no longer than the number given out less three, so that  *)
(* the column of tabling/models.py:225 holds those of the first 1027.        *)
THEOREM HasRoomCorrect == KeysSpec => []HasRoom
<1> QED
  BY KeysInvCorrect, KeysInvRoom, PTL

-------------------------------------------------------------------------------
(* Rows with keys, and requests.                                             *)

LEMMA ChainIs ==
  ASSUME NEW n \in Nat, NEW x \in Keys, NEW f, Chain(f, n, x)
  PROVE  /\ f \in [1..n -> Keys]
         /\ \A i \in 1..n : f[i] = x \/ Before(x, f[i])
         /\ \A i, j \in 1..n : i < j => Before(f[i], f[j])
<1> DEFINE Good(m) == /\ \A i \in 1..m : f[i] \in Keys /\ (f[i] = x \/ Before(x, f[i]))
                      /\ \A i, j \in 1..m : i < j => Before(f[i], f[j])
           S == {m \in Nat : m <= n => Good(m)}
<1>1. f = [i \in 1..n |-> IF i = 1 THEN x ELSE KeyAbove(f[i - 1])]
  BY DEF Chain
<1>2. 0 \in S
  OBVIOUS
<1>3. ASSUME NEW m \in Nat, m \in S PROVE m + 1 \in S
  <2> SUFFICES ASSUME m + 1 <= n PROVE Good(m + 1)
    OBVIOUS
  <2>1. Good(m)
    BY <1>3
  <2>2. CASE m = 0
    <3>1. f[1] = x
      BY <1>1, <2>2
    <3>2. \A i \in 1..(m + 1) : i = 1
      BY <2>2
    <3> QED
      BY <3>1, <3>2
  <2>3. CASE m # 0
    <3>1. m \in 1..m /\ m + 1 \in 1..n /\ m + 1 # 1 /\ (m + 1) - 1 = m
      BY <2>3
    <3>2. f[m + 1] = KeyAbove(f[m])
      BY <1>1, <3>1
    <3>3. f[m] \in Keys /\ (f[m] = x \/ Before(x, f[m]))
      BY <2>1, <3>1
    <3>4. f[m + 1] \in Keys /\ Before(f[m], f[m + 1])
      BY <3>2, <3>3, KeyAboveIs
    <3>5. \A i \in 1..m : Before(f[i], f[m + 1])
      <4> TAKE i \in 1..m
      <4>1. CASE i = m
        BY <3>4, <4>1
      <4>2. CASE i # m
        <5>1. Before(f[i], f[m]) /\ f[i] \in Keys
          BY <2>1, <3>1, <4>2
        <5> QED
          BY <3>3, <3>4, <5>1, BeforeTransitive, KeyIs
      <4> QED
        BY <4>1, <4>2
    <3>6. Before(x, f[m + 1])
      BY <3>3, <3>4, BeforeTransitive, KeyIs
    <3>7. \A i \in 1..(m + 1) : i \in 1..m \/ i = m + 1
      OBVIOUS
    <3> QED
      BY <2>1, <3>4, <3>5, <3>6, <3>7
  <2> QED
    BY <2>2, <2>3
<1> HIDE DEF S
<1>4. n \in S
  BY <1>2, <1>3, NatSetInduction
<1>5. Good(n)
  BY <1>4 DEF S
<1>6. f \in [1..n -> Keys]
  BY <1>1, <1>5
<1> QED
  BY <1>5, <1>6

LEMMA OrdersAre ==
  ASSUME NEW n \in Nat, NEW h \in Keys
  PROVE  /\ OrderAfter(n, h) \in [1..n -> Keys]
         /\ \A i \in 1..n : Before(h, OrderAfter(n, h)[i])
         /\ \A i, j \in 1..n : i < j => Before(OrderAfter(n, h)[i], OrderAfter(n, h)[j])
         /\ OrderFromNone(n) \in [1..n -> Keys]
         /\ \A i, j \in 1..n : i < j => Before(OrderFromNone(n)[i], OrderFromNone(n)[j])
<1> DEFINE a == OrderAfter(n, h)
           b == OrderFromNone(n)
<1>1. KeyAbove(h) \in Keys /\ Before(h, KeyAbove(h))
  BY KeyAboveIs
<1>2. Chain(a, n, KeyAbove(h)) /\ Chain(b, n, FirstKey)
  BY OrderIsChain
<1> HIDE DEF a, b
<1>3. /\ a \in [1..n -> Keys]
      /\ \A i \in 1..n : a[i] = KeyAbove(h) \/ Before(KeyAbove(h), a[i])
      /\ \A i, j \in 1..n : i < j => Before(a[i], a[j])
  BY <1>1, <1>2, ChainIs
<1>4. b \in [1..n -> Keys] /\ \A i, j \in 1..n : i < j => Before(b[i], b[j])
  BY <1>2, ChainIs, FirstKeyIs
<1>5. \A i \in 1..n : Before(h, a[i])
  BY <1>1, <1>3, BeforeTransitive, KeyIs
<1> QED
  BY <1>3, <1>4, <1>5 DEF a, b

LEMMA KeysDiffer ==
  ASSUME NEW k \in Keys, NEW l \in Keys
  PROVE  /\ k # l => Before(k, l) \/ Before(l, k)
         /\ Before(k, l) => k # l /\ ~ Before(l, k)
BY KeyIs, BeforeTotal, BeforeAsymmetric

LEMMA KeysTransitive ==
  ASSUME NEW k \in Keys, NEW l \in Keys, NEW m \in Keys, Before(k, l), Before(l, m)
  PROVE  Before(k, m)
BY KeyIs, BeforeTransitive

(* Functions on rows. *)
Maps(V) == UNION {[S -> V] : S \in SUBSET Nat}

LEMMA MapIs ==
  ASSUME NEW V, NEW f
  PROVE  f \in Maps(V) <=> DOMAIN f \in SUBSET Nat /\ f \in [DOMAIN f -> V]
<1>1. ASSUME f \in Maps(V) PROVE DOMAIN f \in SUBSET Nat /\ f \in [DOMAIN f -> V]
  <2>1. PICK S \in SUBSET Nat : f \in [S -> V]
    BY <1>1 DEF Maps
  <2> QED
    BY <2>1
<1>2. ASSUME DOMAIN f \in SUBSET Nat, f \in [DOMAIN f -> V] PROVE f \in Maps(V)
  BY <1>2 DEF Maps
<1> QED
  BY <1>1, <1>2

(* Kinds of request, and requests. *)
KindsOfOne == {"insert", "move", "update"}

Tx == [kind : AllKinds \cup {"idle"}, row : Nat \cup {None}, prev : Nat \cup {None},
       at : {"look", "lock", "write", "commit"}, old : Maps(Keys),
       seen : Maps(SUBSET Nat), held : SUBSET Nat, want : Seq(Keys \cup {Inconsistent}),
       put : Maps(Keys \cup {Inconsistent}), attempt : Nat, created : Nat,
       moved : BOOLEAN, calm : BOOLEAN]

(* The committed table. *)
Table(ord, pk) ==
  /\ pk \in Nat /\ ord \in Maps(Keys) /\ DOMAIN ord \subseteq 1..pk
  /\ \A r, s \in DOMAIN ord : ord[r] = ord[s] => r = s

(* Which rows a request of each kind names. *)
Form(t) ==
  /\ t \in Tx
  /\ t.kind = "idle" => t = Idle
  /\ IF t.kind \in {"move", "update", "delete"} THEN t.row \in DOMAIN t.old ELSE t.row = None
  /\ IF t.kind \in {"insert", "move"} THEN t.prev \in DOMAIN t.old \cup {None}
     ELSE t.prev = None
  /\ t.at # "commit" => t.put = NoRows

(* The keys it is going to write: those of a bulk create ascend. *)
WantIs(t) == t.at = "write" =>
  /\ t.kind \in {"append", "bulk"} =>
        /\ t.want \in Seq(Keys)
        /\ \A i, j \in 1..Len(t.want) : i < j => Before(t.want[i], t.want[j])
  /\ t.kind \in KindsOfOne => Len(t.want) = 1
  /\ t.kind = "delete" => t.want = <<>>
  /\ t.kind = "move" /\ t.want[1] # Inconsistent => t.row \in t.held

(* What it wrote: new rows in an order of their own, or one row it holds or
   that is gone, under keys no other row of the table has.                  *)
PutIs(t, ord) == t.at = "commit" =>
  /\ Creates(t) =>
        /\ t.put \in Maps(Keys) /\ DOMAIN t.put \cap DOMAIN ord = {}
        /\ \A r, s \in DOMAIN t.put : t.put[r] = t.put[s] => r = s
        /\ t.kind # "insert" =>
              \A r, s \in DOMAIN t.put : r < s => Before(t.put[r], t.put[s])
  /\ t.kind \in {"move", "update"} =>
        /\ DOMAIN t.put = {t.row} /\ t.put[t.row] \in Keys
        /\ t.row \in t.held \/ t.row \notin DOMAIN ord
  /\ t.kind = "delete" =>
        DOMAIN t.put = t.held /\ \A r \in DOMAIN t.put : t.put[r] = Inconsistent
  /\ \A r \in DOMAIN t.put : \A s \in DOMAIN ord \ DOMAIN t.put : t.put[r] # ord[s]

(* The rows it holds are there, and those its query returned. *)
Holds(t, ord, pk) ==
  /\ t.held \subseteq DOMAIN ord
  /\ DOMAIN t.old \cup DOMAIN t.put \subseteq 1..pk
  /\ t.at # "look" => DOMAIN t.seen \subseteq DOMAIN ord

(* The rows there were when it began are all there still, with their keys. *)
Same(t, ord) == \A s \in DOMAIN t.old : s \in DOMAIN ord /\ ord[s] = t.old[s]

(* An append no move or deletion overlapped: it has been started over no     *)
(* oftener than others created rows, and if that often, then since the last *)
(* of them; so its keys are beyond every row it knows of.                   *)
Appends(t, ord) == t.kind \in {"append", "bulk"} /\ ~ t.moved =>
  /\ Same(t, ord)
  /\ t.attempt <= t.created
  /\ t.at = "lock" =>
        /\ DOMAIN t.old \subseteq DOMAIN t.seen
        /\ \A r, s \in DOMAIN t.seen : s \in t.seen[r] <=> Before(ord[r], ord[s])
        /\ t.created = t.attempt => DOMAIN t.seen = DOMAIN ord
  /\ t.at = "write" => \A i \in 1..Len(t.want) :
        /\ \A s \in DOMAIN t.old : Before(ord[s], t.want[i])
        /\ t.created = t.attempt => \A s \in DOMAIN ord : Before(ord[s], t.want[i])
  /\ t.at = "commit" =>
        \A r \in DOMAIN t.put : \A s \in DOMAIN t.old : Before(ord[s], t.put[r])

(* Shown, for the keys f. *)
ShownIn(f, grp, r, s) ==
  \/ r \in grp /\ s \notin grp
  \/ (r \in grp <=> s \in grp) /\ Before(f[r], f[s])

ByKey(f, grp) == \A r, s \in DOMAIN f : ShownIn(f, grp, r, s) <=> Before(f[r], f[s])

(* The key k is where t asked its row to be, among the rows it knows. *)
LandsAt(t, k) ==
  k \in Keys /\ \A s \in DOMAIN t.old \ {t.row} :
    /\ k # t.old[s]
    /\ Before(k, t.old[s]) <=> s # t.prev /\ (t.prev # None => Before(t.old[t.prev], t.old[s]))

(* An insertion or a move no move or deletion overlapped before its locks:   *)
(* it still sees the rows there were in the order they are shown in, those  *)
(* come since after them; once it has its locks it holds them all.          *)
Places(t, ord, grp) == t.kind \in {"insert", "move"} /\ ~ t.moved =>
  /\ Same(t, ord)
  /\ t.at \in {"look", "lock"} =>
        \A r, s \in DOMAIN t.old : r \in DOMAIN t.seen /\ (s \in t.seen[r] <=> ShownIn(t.old, grp, s, r))
  /\ t.at = "look" => DOMAIN t.seen = DOMAIN t.old
  /\ t.at = "lock" => \A r \in DOMAIN t.seen \ DOMAIN t.old : t.seen[r] = DOMAIN t.old
  /\ Locked(t) => DOMAIN t.old \subseteq t.held
  /\ ByKey(t.old, grp) =>
        /\ t.at = "write" /\ t.want[1] # Inconsistent => LandsAt(t, t.want[1])
        /\ t.at = "commit" => \A r \in DOMAIN t.put : LandsAt(t, t.put[r])

(* There is no room for t where it is to go, in the table it saw.            *)
NoRoomIn(t, f) ==
  IF t.prev = None THEN DOMAIN f = {}
  ELSE \E s \in DOMAIN f :
          /\ Before(f[t.prev], f[s])
          /\ \A r \in DOMAIN f : ~ (Before(f[t.prev], f[r]) /\ Before(f[r], f[s]))
          /\ Len(f[t.prev]) > Differing(f[t.prev], f[s])

(* A request no commit overlapped sees the table as it is. *)
Calm(t, ord, grp) == t.calm /\ t.kind # "idle" =>
  /\ t.old = ord /\ t.created = 0 /\ ~ t.moved
  /\ t.at = "lock" =>
        /\ t.kind \in {"insert", "move"} => DOMAIN t.seen = DOMAIN ord
        /\ t.kind \in {"update", "delete"} => DOMAIN t.seen = {t.row}
  /\ t.at = "write" =>
        /\ t.kind = "update" => t.row \in t.held /\ t.want[1] = ord[t.row]
        /\ t.kind \in {"insert", "move"} /\ ByKey(t.old, grp) /\ t.want[1] = Inconsistent =>
              NoRoomIn(t, t.old)

Local(t, ord, pk, grp) ==
  /\ Form(t) /\ WantIs(t) /\ PutIs(t, ord) /\ Holds(t, ord, pk)
  /\ Appends(t, ord) /\ Places(t, ord, grp) /\ Calm(t, ord, grp)

(* Two requests hold and write different rows, and write different keys. *)
Apart(t, u) ==
  /\ (t.held \cup DOMAIN t.put) \cap (u.held \cup DOMAIN u.put) = {}
  /\ \A r \in DOMAIN t.put, s \in DOMAIN u.put :
        t.put[r] = u.put[s] => t.put[r] = Inconsistent

Inv ==
  /\ Table(order, lastPk) /\ grouped \subseteq 1..lastPk /\ made \in 0..MaxRequests
  /\ tx \in [Process -> Tx]
  /\ \A p \in Process : Local(tx[p], order, lastPk, grouped)
  /\ \A p, q \in Process : p # q => Apart(tx[p], tx[q])

-------------------------------------------------------------------------------
(* A step that concerns one request.                                         *)

LEMMA ApartBoth ==
  ASSUME NEW t, NEW u, Apart(t, u)
  PROVE  Apart(u, t)
BY DEF Apart

LEMMA LocalLater ==
  ASSUME NEW t, NEW ord, NEW pk \in Nat, NEW grp, Local(t, ord, pk, grp),
         NEW later \in Nat, pk <= later
  PROVE  Local(t, ord, later, grp)
<1>1. Holds(t, ord, later)
  <2>1. 1..pk \subseteq 1..later
    OBVIOUS
  <2> QED
    BY <2>1 DEF Local, Holds
<1> QED
  BY <1>1 DEF Local

LEMMA LocalStep ==
  ASSUME Inv, NEW p \in Process, NEW t,
         order' = order, grouped' = grouped, lastPk' \in Nat, lastPk <= lastPk',
         made' \in 0..MaxRequests, tx' = [tx EXCEPT ![p] = t],
         Local(t, order, lastPk', grouped),
         \A q \in Process \ {p} : Apart(t, tx[q])
  PROVE  Inv'
<1>1. Table(order, lastPk) /\ lastPk \in Nat /\ tx \in [Process -> Tx]
  BY DEF Inv, Table
<1>2. t \in Tx
  BY DEF Local, Form
<1>3. tx' \in [Process -> Tx] /\ tx'[p] = t /\ \A q \in Process \ {p} : tx'[q] = tx[q]
  BY <1>1, <1>2
<1>4. 1..lastPk \subseteq 1..lastPk'
  BY <1>1
<1>5. Table(order', lastPk')
  BY <1>1, <1>4 DEF Table
<1>6. grouped' \subseteq 1..lastPk'
  BY <1>4 DEF Inv
<1>7. \A q \in Process : Local(tx'[q], order', lastPk', grouped')
  <2> TAKE q \in Process
  <2>1. CASE q = p
    BY <1>3, <2>1
  <2>2. CASE q # p
    <3>1. Local(tx[q], order, lastPk, grouped)
      BY DEF Inv
    <3>2. Local(tx[q], order, lastPk', grouped)
      BY <1>1, <3>1, LocalLater
    <3> QED
      BY <1>3, <2>2, <3>2
  <2> QED
    BY <2>1, <2>2
<1>8. \A q, r \in Process : q # r => Apart(tx'[q], tx'[r])
  <2> TAKE q, r \in Process
  <2> HAVE q # r
  <2>1. CASE q = p
    BY <1>3, <2>1
  <2>2. CASE r = p
    <3>1. Apart(t, tx[q])
      BY <2>2
    <3> QED
      BY <1>3, <2>2, <3>1, ApartBoth
  <2>3. CASE q # p /\ r # p
    BY <1>3, <2>3 DEF Inv
  <2> QED
    BY <2>1, <2>2, <2>3
<1> QED
  BY <1>3, <1>5, <1>6, <1>7, <1>8 DEF Inv

LEMMA IdleIsLocal ==
  ASSUME NEW ord, NEW pk, NEW grp
  PROVE  Local(Idle, ord, pk, grp) /\ \A u : Apart(Idle, u)
<1>1. NoRows \in Maps(Keys) /\ NoRows \in Maps(SUBSET Nat)
      /\ NoRows \in Maps(Keys \cup {Inconsistent}) /\ DOMAIN NoRows = {}
  BY MapIs DEF NoRows
<1>2. Idle \in Tx
  BY <1>1 DEF Idle, Tx
<1>3. /\ Idle.kind = "idle" /\ Idle.at = "look" /\ Idle.held = {} /\ Idle.put = NoRows
      /\ Idle.old = NoRows /\ Idle.row = None /\ Idle.prev = None
  BY DEF Idle
<1>4. Form(Idle) /\ WantIs(Idle) /\ PutIs(Idle, ord) /\ Holds(Idle, ord, pk)
  BY <1>1, <1>2, <1>3 DEF Form, WantIs, PutIs, Holds
<1>5. Appends(Idle, ord) /\ Places(Idle, ord, grp) /\ Calm(Idle, ord, grp)
  BY <1>3 DEF Appends, Places, Calm
<1>6. \A u : Apart(Idle, u)
  BY <1>1, <1>3 DEF Apart
<1> QED
  BY <1>4, <1>5, <1>6 DEF Local

LEMMA RefuseStep ==
  ASSUME Inv, NEW p \in Process, Refuse(p)
  PROVE  Inv'
<1>1. lastPk \in Nat /\ made \in 0..MaxRequests
  BY DEF Inv, Table
<1>2. /\ tx' = [tx EXCEPT ![p] = Idle] /\ order' = order /\ grouped' = grouped
      /\ lastPk' = lastPk /\ made' = made
  BY DEF Refuse, Step
<1>3. Local(Idle, order, lastPk', grouped) /\ \A q \in Process \ {p} : Apart(Idle, tx[q])
  BY IdleIsLocal
<1>4. lastPk' \in Nat /\ lastPk <= lastPk' /\ made' \in 0..MaxRequests
  BY <1>1, <1>2
<1> QED
  BY <1>2, <1>3, <1>4, LocalStep

LEMMA BeginStep ==
  ASSUME Inv, NEW p \in Process, Begin(p)
  PROVE  Inv'
<1>1. /\ lastPk \in Nat /\ made \in 0..MaxRequests /\ MaxRequests \in Nat
      /\ order \in Maps(Keys) /\ Live \subseteq 1..lastPk
  BY OrderedTableAssumption DEF Inv, Table, Live
<1>2. PICK kind \in Kinds :
        \E row \in IF kind \in {"move", "update", "delete"} THEN Live ELSE {None} :
        \E prev \in IF kind \in {"insert", "move"} THEN Live \cup {None} ELSE {None} :
        tx' = [tx EXCEPT ![p] =
                 [Idle EXCEPT !.kind = kind, !.row = row, !.prev = prev,
                              !.old = order, !.seen = Display]]
  BY DEF Begin
<1>3. PICK row \in IF kind \in {"move", "update", "delete"} THEN Live ELSE {None} :
        \E prev \in IF kind \in {"insert", "move"} THEN Live \cup {None} ELSE {None} :
        tx' = [tx EXCEPT ![p] =
                 [Idle EXCEPT !.kind = kind, !.row = row, !.prev = prev,
                              !.old = order, !.seen = Display]]
  BY <1>2
<1>4. PICK prev \in IF kind \in {"insert", "move"} THEN Live \cup {None} ELSE {None} :
        tx' = [tx EXCEPT ![p] =
                 [Idle EXCEPT !.kind = kind, !.row = row, !.prev = prev,
                              !.old = order, !.seen = Display]]
  BY <1>3
<1>5. /\ order' = order /\ grouped' = grouped /\ lastPk' = lastPk /\ made' = made + 1
      /\ made < MaxRequests
  BY DEF Begin
<1> DEFINE t == [Idle EXCEPT !.kind = kind, !.row = row, !.prev = prev,
                             !.old = order, !.seen = Display]
<1>6. /\ t.kind = kind /\ t.row = row /\ t.prev = prev /\ t.at = "look" /\ t.old = order
      /\ t.seen = Display /\ t.held = {} /\ t.want = <<>> /\ t.put = NoRows
      /\ t.attempt = 0 /\ t.created = 0 /\ t.moved = FALSE /\ t.calm = TRUE
      /\ DOMAIN NoRows = {}
  BY DEF Idle, NoRows
<1>7. kind \in AllKinds /\ kind # "idle" /\ Live \subseteq Nat
  BY <1>1, OrderedTableAssumption DEF AllKinds
<1>8. Display \in Maps(SUBSET Nat)
  BY <1>7, MapIs DEF Display
<1>9. t \in Tx
  <2>1. row \in Nat \cup {None} /\ prev \in Nat \cup {None}
    BY <1>7
  <2>2. Idle \in Tx
    BY IdleIsLocal DEF Local, Form
  <2>3. kind \in AllKinds \cup {"idle"}
    BY <1>7
  <2> QED
    BY <1>1, <1>8, <2>1, <2>2, <2>3 DEF Tx
<1> HIDE DEF t
<1>10. Form(t)
  BY <1>6, <1>7, <1>9 DEF Form, Live
<1>11. WantIs(t) /\ PutIs(t, order) /\ Holds(t, order, lastPk)
  BY <1>1, <1>6 DEF WantIs, PutIs, Holds, Live
<1>12. Same(t, order)
  BY <1>6 DEF Same
<1>13. Appends(t, order) /\ Calm(t, order, grouped)
  BY <1>6, <1>12 DEF Appends, Calm
<1>14. Places(t, order, grouped)
  <2>1. DOMAIN t.seen = Live /\ \A r, s \in Live : s \in t.seen[r] <=> Shown(s, r)
    BY <1>6 DEF Display
  <2>2. \A r, s \in Live : Shown(s, r) <=> ShownIn(t.old, grouped, s, r)
    BY <1>6 DEF Shown, ShownIn, Smaller
  <2>3. ~ Locked(t)
    BY <1>6 DEF Locked
  <2> QED
    BY <1>6, <1>12, <2>1, <2>2, <2>3 DEF Places, Live
<1>15. Local(t, order, lastPk, grouped)
  BY <1>10, <1>11, <1>13, <1>14 DEF Local
<1>16. \A q \in Process \ {p} : Apart(t, tx[q])
  BY <1>6 DEF Apart
<1>17. tx' = [tx EXCEPT ![p] = t]
  BY <1>4 DEF t
<1>18. lastPk' \in Nat /\ lastPk <= lastPk' /\ made' \in 0..MaxRequests
  BY <1>1, <1>5
<1>19. Local(t, order, lastPk', grouped)
  BY <1>5, <1>15
<1> QED
  BY <1>5, <1>16, <1>17, <1>18, <1>19, LocalStep

LEMMA Mine ==
  ASSUME Inv, NEW p \in Process
  PROVE  /\ Local(tx[p], order, lastPk, grouped) /\ tx[p] \in Tx
         /\ Table(order, lastPk) /\ lastPk \in Nat /\ order \in [Live -> Keys]
         /\ Live \subseteq Nat /\ Live \subseteq 1..lastPk /\ None \notin Live
         /\ \A r, s \in Live : order[r] = order[s] => r = s
         /\ tx \in [Process -> Tx] /\ made \in 0..MaxRequests
         /\ \A q \in Process \ {p} : Apart(tx[p], tx[q])
<1>1. tx \in [Process -> Tx] /\ Local(tx[p], order, lastPk, grouped)
      /\ \A q \in Process \ {p} : Apart(tx[p], tx[q])
  BY DEF Inv
<1>2. /\ Table(order, lastPk) /\ lastPk \in Nat /\ made \in 0..MaxRequests
      /\ Live \subseteq 1..lastPk /\ \A r, s \in Live : order[r] = order[s] => r = s
  BY DEF Inv, Table, Live
<1>3. order \in [Live -> Keys] /\ Live \subseteq Nat
  BY <1>2, MapIs DEF Table, Live
<1> QED
  BY <1>1, <1>2, <1>3, OrderedTableAssumption

LEMMA WantsAre ==
  ASSUME NEW t \in Tx
  PROVE  /\ t.want \in Seq(Keys \cup {Inconsistent}) /\ Len(t.want) \in Nat
         /\ Range(t.want) = {t.want[i] : i \in 1..Len(t.want)}
         /\ \A i \in 1..Len(t.want) : t.want[i] \in Keys \cup {Inconsistent}
BY DEF Tx, Range

LEMMA RetryStep ==
  ASSUME Inv, NEW p \in Process, Retry(p)
  PROVE  Inv'
<1> DEFINE u == tx[p]
           t == [u EXCEPT !.at = "look", !.attempt = @ + 1]
<1>1. /\ Local(u, order, lastPk, grouped) /\ u \in Tx /\ lastPk \in Nat
      /\ order \in [Live -> Keys] /\ made \in 0..MaxRequests
      /\ \A q \in Process \ {p} : Apart(u, tx[q])
  BY Mine
<1>2. /\ tx' = [tx EXCEPT ![p] = t] /\ order' = order /\ grouped' = grouped
      /\ lastPk' = lastPk /\ made' = made
      /\ u.kind = "bulk" /\ u.at = "write" /\ Taken(p) /\ Inconsistent \notin Range(u.want)
  BY DEF Retry, Step, Conflict, Undisputed
<1> HIDE DEF u
<1>3. t \in Tx
  <2>1. u.attempt + 1 \in Nat
    BY <1>1 DEF Tx
  <2> QED
    BY <1>1, <2>1 DEF Tx
<1>4. /\ t.kind = u.kind /\ t.row = u.row /\ t.prev = u.prev /\ t.at = "look" /\ t.old = u.old
      /\ t.seen = u.seen /\ t.held = u.held /\ t.want = u.want /\ t.put = u.put
      /\ t.attempt = u.attempt + 1 /\ t.created = u.created /\ t.moved = u.moved
      /\ t.calm = u.calm
  BY <1>1 DEF Tx
<1>5. u.attempt \in Nat /\ u.created \in Nat
  BY <1>1 DEF Tx
<1> HIDE DEF t
<1>6. Form(u) /\ Holds(u, order, lastPk) /\ Appends(u, order) /\ Calm(u, order, grouped)
  BY <1>1 DEF Local
<1>7. Form(t) /\ WantIs(t) /\ PutIs(t, order) /\ Holds(t, order, lastPk)
  BY <1>2, <1>3, <1>4, <1>6 DEF Form, WantIs, PutIs, Holds
<1>8. Places(t, order, grouped) /\ Calm(t, order, grouped)
  BY <1>2, <1>4, <1>6 DEF Places, Calm
<1>9. Appends(t, order)
  <2> SUFFICES ASSUME ~ u.moved PROVE Same(u, order) /\ u.attempt + 1 <= u.created
    BY <1>2, <1>4 DEF Appends, Same
  <2>1. /\ Same(u, order) /\ u.attempt <= u.created
        /\ u.created = u.attempt => \A i \in 1..Len(u.want) : \A s \in Live : Before(order[s], u.want[i])
    BY <1>2, <1>6 DEF Appends, Live
  <2>2. PICK r \in Live : order[r] \in Range(u.want)
    BY <1>2 DEF Taken, Reinserts, u
  <2>3. PICK i \in 1..Len(u.want) : order[r] = u.want[i]
    BY <1>1, <2>2, WantsAre
  <2>4. ~ Before(order[r], u.want[i])
    BY <1>1, <2>3, BeforeIrreflexive, KeyIs
  <2>5. u.created # u.attempt
    BY <2>1, <2>4
  <2> QED
    BY <1>5, <2>1, <2>5
<1>10. Local(t, order, lastPk', grouped)
  BY <1>2, <1>7, <1>8, <1>9 DEF Local
<1>11. \A q \in Process \ {p} : Apart(t, tx[q])
  BY <1>1, <1>4 DEF Apart
<1>12. lastPk' \in Nat /\ lastPk <= lastPk' /\ made' \in 0..MaxRequests
  BY <1>1, <1>2
<1> QED
  BY <1>2, <1>10, <1>11, <1>12, LocalStep

LEMMA LookStep ==
  ASSUME Inv, NEW p \in Process, Look(p)
  PROVE  Inv'
<1> DEFINE u == tx[p]
           view == CASE u.kind \in {"append", "bulk"} -> Descending
                     [] u.kind \in {"insert", "move"} -> Rearranged(u.seen)
                     [] OTHER -> [r \in Live \cap {u.row} |-> {}]
           t == [u EXCEPT !.at = "lock", !.seen = view]
<1>1. /\ Local(u, order, lastPk, grouped) /\ u \in Tx /\ lastPk \in Nat
      /\ order \in [Live -> Keys] /\ made \in 0..MaxRequests /\ Live \subseteq Nat
      /\ \A q \in Process \ {p} : Apart(u, tx[q])
  BY Mine
<1>2. /\ tx' = [tx EXCEPT ![p] = t] /\ order' = order /\ grouped' = grouped
      /\ lastPk' = lastPk /\ made' = made /\ u.kind # "idle" /\ u.at = "look"
  BY DEF Look, Step, Busy
<1> HIDE DEF u
<1>3. /\ u.kind \in {"append", "bulk"} => view = Descending
      /\ u.kind \in {"insert", "move"} => view = Rearranged(u.seen)
      /\ u.kind \in {"update", "delete"} => view = [r \in Live \cap {u.row} |-> {}]
      /\ u.kind \in AllKinds
  BY <1>1, <1>2 DEF AllKinds, Tx
<1> HIDE DEF view
<1>4. view \in Maps(SUBSET Nat) /\ DOMAIN view \subseteq Live
  <2>1. u.seen \in Maps(SUBSET Nat)
    BY <1>1 DEF Tx
  <2>2. DOMAIN u.seen \in SUBSET Nat /\ \A r \in DOMAIN u.seen : u.seen[r] \in SUBSET Nat
    BY <2>1, MapIs
  <2>3. CASE u.kind \in {"append", "bulk"}
    BY <1>1, <1>3, <2>3, MapIs DEF Descending
  <2>4. CASE u.kind \in {"insert", "move"}
    <3>1. /\ Rearranged(u.seen) \in [Live -> SUBSET Nat] /\ DOMAIN Rearranged(u.seen) = Live
      BY <2>2 DEF Rearranged
    <3> QED
      BY <1>1, <1>3, <2>4, <3>1, MapIs
  <2>5. CASE u.kind \in {"update", "delete"}
    BY <1>1, <1>3, <2>5, MapIs
  <2> QED
    BY <1>3, <2>3, <2>4, <2>5 DEF AllKinds
<1>5. t \in Tx
  BY <1>1, <1>4 DEF Tx
<1>6. /\ t.kind = u.kind /\ t.row = u.row /\ t.prev = u.prev /\ t.at = "lock" /\ t.old = u.old
      /\ t.seen = view /\ t.held = u.held /\ t.want = u.want /\ t.put = u.put
      /\ t.attempt = u.attempt /\ t.created = u.created /\ t.moved = u.moved
      /\ t.calm = u.calm
  BY <1>1 DEF Tx
<1> HIDE DEF t
<1>7. /\ Form(u) /\ Holds(u, order, lastPk) /\ Appends(u, order)
      /\ Places(u, order, grouped) /\ Calm(u, order, grouped)
  BY <1>1 DEF Local
<1>8. Form(t) /\ WantIs(t) /\ PutIs(t, order) /\ Holds(t, order, lastPk)
  BY <1>2, <1>4, <1>5, <1>6, <1>7 DEF Form, WantIs, PutIs, Holds, Live
<1>9. Appends(t, order)
  <2> SUFFICES ASSUME u.kind \in {"append", "bulk"}, ~ u.moved
               PROVE  /\ Same(u, order) /\ u.attempt <= u.created
                      /\ DOMAIN u.old \subseteq DOMAIN view
                      /\ \A r, s \in DOMAIN view : s \in view[r] <=> Before(order[r], order[s])
                      /\ DOMAIN view = DOMAIN order
    BY <1>6 DEF Appends, Same
  <2>1. Same(u, order) /\ u.attempt <= u.created
    BY <1>7 DEF Appends
  <2>2. DOMAIN view = Live /\ \A r, s \in Live : s \in view[r] <=> Smaller(r, s)
    BY <1>3 DEF Descending
  <2> QED
    BY <2>1, <2>2 DEF Same, Smaller, Live
<1>10. Places(t, order, grouped)
  <2> SUFFICES ASSUME u.kind \in {"insert", "move"}, ~ u.moved
               PROVE  /\ Same(u, order)
                      /\ \A r, s \in DOMAIN u.old :
                            r \in DOMAIN view /\ (s \in view[r] <=> ShownIn(u.old, grouped, s, r))
                      /\ \A r \in DOMAIN view \ DOMAIN u.old : view[r] = DOMAIN u.old
    BY <1>6 DEF Places, Same, Locked
  <2>1. /\ Same(u, order) /\ DOMAIN u.seen = DOMAIN u.old
        /\ \A r, s \in DOMAIN u.old : s \in u.seen[r] <=> ShownIn(u.old, grouped, s, r)
    BY <1>2, <1>7 DEF Places
  <2>2. /\ DOMAIN view = Live
        /\ \A r \in Live : view[r] = IF r \in DOMAIN u.old THEN u.seen[r] ELSE DOMAIN u.old
    BY <1>3, <2>1 DEF Rearranged
  <2>3. DOMAIN u.old \subseteq Live
    BY <2>1 DEF Same, Live
  <2> QED
    BY <2>1, <2>2, <2>3
<1>11. Calm(t, order, grouped)
  <2> SUFFICES ASSUME u.calm
               PROVE  /\ u.old = order /\ u.created = 0 /\ ~ u.moved
                      /\ u.kind \in {"insert", "move"} => DOMAIN view = DOMAIN order
                      /\ u.kind \in {"update", "delete"} => DOMAIN view = {u.row}
    BY <1>6 DEF Calm
  <2>1. u.old = order /\ u.created = 0 /\ ~ u.moved
    BY <1>2, <1>7 DEF Calm
  <2>2. u.kind \in {"insert", "move"} => DOMAIN view = DOMAIN order
    BY <1>3 DEF Rearranged, Live
  <2>3. u.kind \in {"update", "delete"} => u.row \in Live
    BY <1>7, <2>1 DEF Form, Live
  <2> QED
    BY <1>3, <2>1, <2>2, <2>3
<1>12. Local(t, order, lastPk', grouped)
  BY <1>2, <1>8, <1>9, <1>10, <1>11 DEF Local
<1>13. \A q \in Process \ {p} : Apart(t, tx[q])
  BY <1>1, <1>6 DEF Apart
<1>14. lastPk' \in Nat /\ lastPk <= lastPk' /\ made' \in 0..MaxRequests
  BY <1>1, <1>2
<1> QED
  BY <1>2, <1>12, <1>13, <1>14, LocalStep

-------------------------------------------------------------------------------
(* What a request is going to write.                                         *)

LEMMA BetweenIs ==
  ASSUME NEW a \in Keys, NEW b \in Keys
  PROVE  /\ Between(a, b) \in Keys \cup {Inconsistent}
         /\ Between(a, b) # Inconsistent =>
              Before(a, b) /\ Before(a, Between(a, b)) /\ Before(Between(a, b), b)
<1>1. CASE Before(a, b)
  BY <1>1, KeyBetween
<1>2. CASE ~ Before(a, b)
  BY <1>2 DEF Between
<1> QED
  BY <1>1, <1>2

LEMMA KeyNotInconsistent == Inconsistent \notin Keys
BY DEF Keys, Inconsistent

LEMMA SomeKeys ==
  ASSUME NEW n \in Nat, NEW f \in [1..n -> Keys]
  PROVE  f \in Seq(Keys) /\ Len(f) = n /\ f \in Seq(Keys \cup {Inconsistent})
OBVIOUS

LEMMA NextsAre ==
  ASSUME NEW t, NEW next \in Nexts(t)
  PROVE  \/ next = None /\ After(t) = {}
         \/ next \in After(t) /\ next \in DOMAIN t.seen /\ \A s \in After(t) : s \notin t.seen[next]
BY DEF Nexts, After

(* What a request under way can rely on.                                     *)
Placed(u) ==
  /\ u.kind \in {"insert", "move"} /\ Same(u, order) /\ ByKey(u.old, grouped)
  /\ \A r, s \in DOMAIN u.old : r \in DOMAIN u.seen /\ (s \in u.seen[r] <=> Before(u.old[s], u.old[r]))
  /\ \A r \in DOMAIN u.seen \ DOMAIN u.old : u.seen[r] = DOMAIN u.old

LEMMA PlacesIn ==
  ASSUME Inv, NEW u, Form(u), Holds(u, order, lastPk), Places(u, order, grouped), u.at = "lock",
         u.kind \in {"insert", "move"}, ~ u.moved, ByKey(u.old, grouped)
  PROVE  Placed(u)
BY DEF Places, Placed, ByKey

LEMMA LandsThere ==
  ASSUME Inv, NEW u, Form(u), Holds(u, order, lastPk), u.at = "lock", Placed(u),
         NEW next \in Nexts(u), NEW x, Wanted(u, next) = <<x>>
  PROVE  /\ x # Inconsistent => LandsAt(u, x)
         /\ x = Inconsistent /\ DOMAIN u.seen = DOMAIN u.old => NoRoomIn(u, u.old)
<1> DEFINE K == DOMAIN u.old
           key == u.old
<1>1. u \in Tx /\ u.row \in K \cup {None} /\ u.prev \in K \cup {None}
      /\ (u.kind = "move" => u.row \in K) /\ K \subseteq DOMAIN u.seen
  BY DEF Form, Placed
<1>2. /\ key \in [K -> Keys] /\ K \subseteq Nat /\ None \notin K
  <2>1. key \in Maps(Keys)
    BY <1>1 DEF Tx
  <2> QED
    BY <2>1, MapIs, OrderedTableAssumption
<1>3. /\ \A s \in K : s \in Live /\ order[s] = key[s]
      /\ \A r, s \in K : s \in u.seen[r] <=> Before(key[s], key[r])
      /\ \A r \in DOMAIN u.seen \ K : u.seen[r] = K
  BY DEF Placed, Same, Live
<1>4. /\ order \in [Live -> Keys] /\ Live \subseteq Nat /\ DOMAIN u.seen \subseteq Live
      /\ None \notin DOMAIN u.seen
      /\ \A r, s \in Live : order[r] = order[s] => r = s
  <2>1. Table(order, lastPk)
    BY DEF Inv
  <2>2. order \in [Live -> Keys] /\ Live \subseteq Nat
    BY <2>1, MapIs DEF Table, Live
  <2> QED
    BY <2>1, <2>2, OrderedTableAssumption DEF Table, Live, Holds
<1>5. \A r, s \in K : key[r] = key[s] => r = s
  BY <1>3, <1>4
<1>6. x = IF u.kind = "move" /\ u.row = next THEN key[u.row] ELSE KeyAfter(u, next)
  <2>1. {u.row, u.prev} \ {None} \subseteq DOMAIN u.seen
    BY <1>1
  <2>2. Wanted(u, next) = IF u.kind = "move" /\ u.row = next THEN <<key[u.row]>>
                          ELSE <<KeyAfter(u, next)>>
    BY <2>1 DEF Wanted, Placed
  <2> QED
    BY <2>2
<1> HIDE DEF K, key
<1>7. ASSUME NEW r \in K, NEW s \in K
      PROVE  key[r] \in Keys /\ key[s] \in Keys
             /\ (r = s \/ Before(key[r], key[s]) \/ Before(key[s], key[r]))
             /\ (Before(key[r], key[s]) => r # s /\ ~ Before(key[s], key[r]))
  BY <1>2, <1>5, KeysDiffer
<1>8. CASE u.prev = None
  <2>1. After(u) = DOMAIN u.seen
    BY <1>8 DEF After
  <2>2. CASE next = None
    <3>1. x = Inconsistent
      BY <1>1, <1>2, <1>6, <1>8, <2>2 DEF KeyAfter
    <3>2. DOMAIN u.seen = {}
      BY <2>1, <2>2, <1>4, NextsAre
    <3> QED
      BY <1>1, <1>8, <3>1, <3>2 DEF NoRoomIn, K
  <2>3. CASE next # None
    <3>1. next \in DOMAIN u.seen /\ \A s \in DOMAIN u.seen : s \notin u.seen[next]
      BY <2>1, <2>3, NextsAre
    <3>2. \A s \in K : next \in K /\ (s = next \/ Before(key[next], key[s]))
      <4> TAKE s \in K
      <4>1. next \in K
        BY <1>1, <1>3, <3>1
      <4>2. ~ Before(key[s], key[next])
        BY <1>1, <1>3, <3>1, <4>1
      <4> QED
        BY <1>7, <4>1, <4>2
    <3>3. CASE u.kind = "move" /\ u.row = next
      <4>1. x = key[next] /\ next \in K /\ x \in Keys
        BY <1>1, <1>2, <1>6, <3>3
      <4>2. \A s \in K \ {u.row} : x # key[s] /\ Before(x, key[s])
        BY <1>5, <3>2, <3>3, <4>1
      <4> QED
        BY <1>2, <1>8, <4>1, <4>2, KeyNotInconsistent DEF LandsAt, K, key
    <3>4. CASE ~ (u.kind = "move" /\ u.row = next)
      <4>1. x = KeyBelow(order[next]) /\ order[next] \in Keys
        BY <1>4, <1>6, <1>8, <2>3, <3>1, <3>4 DEF KeyAfter
      <4>2. x \in Keys /\ x # Inconsistent /\ Before(x, order[next])
        BY <4>1, KeyBelowIs
      <4>3. \A s \in K : Before(x, key[s])
        <5> TAKE s \in K
        <5>1. Before(x, key[next]) /\ key[next] \in Keys
          BY <1>2, <1>3, <3>2, <4>2
        <5> QED
          BY <1>2, <3>2, <4>2, <5>1, KeysTransitive
      <4>4. \A s \in K : x # key[s]
        BY <1>2, <4>2, <4>3, KeysDiffer
      <4> QED
        BY <1>2, <1>8, <4>2, <4>3, <4>4 DEF LandsAt, K, key
    <3> QED
      BY <3>3, <3>4
  <2> QED
    BY <2>2, <2>3
<1>9. CASE u.prev # None
  <2> DEFINE v == u.prev
  <2>1. v \in K /\ key[v] \in Keys
    BY <1>1, <1>2, <1>9
  <2>2. \A s \in K : s \in After(u) <=> Before(key[v], key[s])
    BY <1>1, <1>3, <1>9, <2>1 DEF After
  <2>3. After(u) \subseteq DOMAIN u.seen
    BY DEF After
  (* No row that it knows comes after the previous one.                      *)
  <2>4. ASSUME \A s \in K : ~ Before(key[v], key[s]), x \in Keys, Before(key[v], x)
        PROVE  LandsAt(u, x)
    <3>1. \A s \in K : Before(key[s], x) /\ x # key[s] /\ ~ Before(x, key[s])
      <4> TAKE s \in K
      <4>1. s = v \/ Before(key[s], key[v])
        BY <1>7, <2>1, <2>4
      <4>2. Before(key[s], x)
        BY <1>2, <2>1, <2>4, <4>1, KeysTransitive
      <4> QED
        BY <1>2, <2>4, <4>2, KeysDiffer
    <3> QED
      BY <1>9, <2>4, <3>1 DEF LandsAt, K, key
  <2>5. CASE next = None
    <3>1. \A s \in K : ~ Before(key[v], key[s])
      BY <1>4, <2>2, <2>3, <2>5, NextsAre
    <3>2. x = KeyAbove(key[v])
      BY <1>1, <1>2, <1>6, <1>9, <2>5 DEF KeyAfter, key
    <3>3. x \in Keys /\ Before(key[v], x) /\ x # Inconsistent
      BY <2>1, <3>2, KeyAboveIs
    <3> QED
      BY <2>4, <3>1, <3>3
  <2>6. CASE next # None
    <3>1. next \in After(u) /\ next \in DOMAIN u.seen /\ \A s \in After(u) : s \notin u.seen[next]
      BY <2>6, NextsAre
    <3>2. CASE next \notin K
      <4>1. \A s \in K : ~ Before(key[v], key[s])
        BY <1>3, <2>2, <3>1, <3>2
      <4>2. u.row # next
        BY <1>1, <2>6, <3>2
      <4>3. x = Between(key[v], order[next]) /\ order[next] \in Keys
        BY <1>4, <1>6, <1>9, <2>6, <3>1, <4>2 DEF KeyAfter, key
      <4>4. x # Inconsistent => x \in Keys /\ Before(key[v], x)
        BY <2>1, <4>3, BetweenIs
      <4> QED
        BY <2>4, <3>1, <3>2, <4>1, <4>4 DEF K
    <3>3. CASE next \in K
      <4>1. Before(key[v], key[next]) /\ order[next] = key[next] /\ key[next] \in Keys
        BY <1>2, <1>3, <2>2, <3>1, <3>3
      <4>2. \A s \in K : Before(key[v], key[s]) => s = next \/ Before(key[next], key[s])
        <5> TAKE s \in K
        <5> HAVE Before(key[v], key[s])
        <5>1. ~ Before(key[s], key[next])
          BY <1>3, <2>2, <3>1, <3>3
        <5> QED
          BY <1>7, <3>3, <5>1
      <4>3. CASE u.kind = "move" /\ u.row = next
        <5>1. x = key[next] /\ x \in Keys /\ x # Inconsistent
          BY <1>6, <4>1, <4>3, KeyNotInconsistent
        <5>2. ASSUME NEW s \in K \ {u.row}
              PROVE  /\ x # key[s]
                     /\ Before(x, key[s]) <=> s # v /\ Before(key[v], key[s])
          <6>1. x # key[s]
            BY <1>5, <3>3, <4>3, <5>1
          <6>2. Before(x, key[s]) => s # v /\ Before(key[v], key[s])
            BY <1>2, <1>7, <2>1, <4>1, <5>1, KeysTransitive
          <6>3. Before(key[v], key[s]) => Before(x, key[s])
            BY <4>2, <4>3, <5>1
          <6> QED
            BY <6>1, <6>2, <6>3
        <5> QED
          BY <1>9, <5>1, <5>2 DEF LandsAt, K, key
      <4>4. CASE ~ (u.kind = "move" /\ u.row = next)
        <5>1. x = Between(key[v], key[next])
          BY <1>6, <1>9, <2>6, <4>1, <4>4 DEF KeyAfter, key
        <5>2. CASE x = Inconsistent
          <6>1. Len(key[v]) > Differing(key[v], key[next])
            <7>1. ~ (Len(key[v]) <= Differing(key[v], key[next]))
              BY <2>1, <4>1, <5>1, <5>2, RoomBetween
            <7>2. Len(key[v]) \in Nat /\ Differing(key[v], key[next]) \in Nat
              BY <2>1, <4>1, DifferingIs, KeyIs
            <7> QED
              BY <7>1, <7>2
          <6>2. \A r \in K : ~ (Before(key[v], key[r]) /\ Before(key[r], key[next]))
            BY <1>7, <3>3, <4>2
          <6> QED
            BY <1>9, <3>3, <4>1, <5>2, <6>1, <6>2 DEF NoRoomIn, K, key
        <5>3. CASE x # Inconsistent
          <6>1. x \in Keys /\ Before(key[v], x) /\ Before(x, key[next])
            BY <2>1, <4>1, <5>1, <5>3, BetweenIs
          <6>2. ASSUME NEW s \in K
                PROVE  /\ x # key[s]
                       /\ Before(x, key[s]) <=> s # v /\ Before(key[v], key[s])
            <7>1. key[s] \in Keys
              BY <1>2
            <7>2. CASE Before(key[v], key[s])
              <8>1. Before(x, key[s])
                BY <4>1, <4>2, <6>1, <7>1, <7>2, KeysTransitive
              <8>2. s # v
                BY <1>7, <2>1, <7>2
              <8> QED
                BY <6>1, <7>1, <7>2, <8>1, <8>2, KeysDiffer
            <7>3. CASE ~ Before(key[v], key[s])
              <8>1. s = v \/ Before(key[s], key[v])
                BY <1>7, <2>1, <7>3
              <8>2. Before(key[s], x)
                BY <2>1, <6>1, <7>1, <8>1, KeysTransitive
              <8> QED
                BY <6>1, <7>1, <7>3, <8>2, KeysDiffer
            <7> QED
              BY <7>2, <7>3
          <6> QED
            BY <1>9, <5>3, <6>1, <6>2 DEF LandsAt, K, key
        <5> QED
          BY <5>2, <5>3
      <4> QED
        BY <4>3, <4>4
    <3> QED
      BY <3>2, <3>3
  <2> QED
    BY <2>5, <2>6
<1> QED
  BY <1>8, <1>9

(* What is appended goes above all rows that its query found.                *)
LEMMA WantedAppend ==
  ASSUME Inv, NEW u, Form(u), Holds(u, order, lastPk), u.at = "lock",
         u.kind \in {"append", "bulk"}, NEW next \in Nexts(u), NEW w, w = Wanted(u, next)
  PROVE  /\ w \in Seq(Keys) /\ w \in Seq(Keys \cup {Inconsistent})
         /\ \A i, j \in 1..Len(w) : i < j => Before(w[i], w[j])
         /\ (\A r, s \in DOMAIN u.seen : s \in u.seen[r] <=> Before(order[r], order[s])) =>
               \A i \in 1..Len(w) : \A s \in DOMAIN u.seen : Before(order[s], w[i])
<1> DEFINE n == IF u.kind = "bulk" THEN BulkSize ELSE 1
<1>1. n \in Nat
  BY OrderedTableAssumption
<1>2. w = IF next = None THEN OrderFromNone(n) ELSE OrderAfter(n, order[next])
  BY DEF Wanted
<1> HIDE DEF n
<1>3. /\ order \in [Live -> Keys] /\ DOMAIN u.seen \subseteq Live /\ None \notin DOMAIN u.seen
      /\ \A r, s \in Live : order[r] = order[s] => r = s
  <2>1. Table(order, lastPk)
    BY DEF Inv
  <2>2. order \in [Live -> Keys] /\ Live \subseteq Nat
    BY <2>1, MapIs DEF Table, Live
  <2> QED
    BY <2>1, <2>2, OrderedTableAssumption DEF Table, Live, Holds
<1>4. After(u) = DOMAIN u.seen
  BY DEF Form, After
<1>5. CASE next = None
  <2>1. DOMAIN u.seen = {}
    BY <1>3, <1>4, <1>5, NextsAre
  <2>2. w \in [1..n -> Keys] /\ \A i, j \in 1..n : i < j => Before(w[i], w[j])
    BY <1>1, <1>2, <1>5, OrdersAre, FirstKeyIs
  <2> QED
    BY <1>1, <2>1, <2>2, SomeKeys
<1>6. CASE next # None
  <2>1. next \in DOMAIN u.seen /\ order[next] \in Keys /\ \A s \in DOMAIN u.seen : s \notin u.seen[next]
    BY <1>3, <1>4, <1>6, NextsAre
  <2>2. /\ w \in [1..n -> Keys] /\ \A i, j \in 1..n : i < j => Before(w[i], w[j])
        /\ \A i \in 1..n : Before(order[next], w[i])
    BY <1>1, <1>2, <1>6, <2>1, OrdersAre
  <2>3. w \in Seq(Keys) /\ w \in Seq(Keys \cup {Inconsistent}) /\ Len(w) = n
    BY <1>1, <2>2, SomeKeys
  <2>4. ASSUME \A r, s \in DOMAIN u.seen : s \in u.seen[r] <=> Before(order[r], order[s]),
               NEW i \in 1..n, NEW s \in DOMAIN u.seen
        PROVE  Before(order[s], w[i])
    <3>1. order[s] \in Keys /\ w[i] \in Keys /\ Before(order[next], w[i])
      BY <1>3, <2>2
    <3>2. ~ Before(order[next], order[s])
      BY <2>1, <2>4
    <3>3. order[s] = order[next] \/ Before(order[s], order[next])
      BY <2>1, <3>1, <3>2, KeysDiffer
    <3> QED
      BY <2>1, <3>1, <3>3, KeysTransitive
  <2> QED
    BY <2>2, <2>3, <2>4
<1> QED
  BY <1>5, <1>6

LEMMA WantedOne ==
  ASSUME Inv, NEW u, Form(u), Holds(u, order, lastPk), u.at = "lock",
         u.kind \in KindsOfOne, NEW next \in Nexts(u)
  PROVE  \E x \in Keys \cup {Inconsistent} :
            /\ Wanted(u, next) = <<x>>
            /\ u.kind = "update" => x = u.old[u.row]
            /\ u.kind = "move" /\ x # Inconsistent => u.row \in DOMAIN u.seen
<1>1. /\ order \in [Live -> Keys] /\ DOMAIN u.seen \subseteq Live /\ None \notin DOMAIN u.seen
  <2>1. Table(order, lastPk)
    BY DEF Inv
  <2>2. order \in [Live -> Keys] /\ Live \subseteq Nat
    BY <2>1, MapIs DEF Table, Live
  <2> QED
    BY <2>1, <2>2, OrderedTableAssumption DEF Table, Live, Holds
<1>2. u.old \in [DOMAIN u.old -> Keys] /\ None \notin DOMAIN u.old
  <2>1. u.old \in Maps(Keys)
    BY DEF Form, Tx
  <2> QED
    BY <2>1, MapIs, OrderedTableAssumption
<1>3. CASE u.kind = "update"
  <2>1. Wanted(u, next) = <<u.old[u.row]>>
    BY <1>3 DEF Wanted
  <2>2. u.old[u.row] \in Keys
    BY <1>2, <1>3 DEF Form
  <2> QED
    BY <1>3, <2>1, <2>2
<1>4. CASE u.kind \in {"insert", "move"}
  <2>1. Wanted(u, next) =
          IF ~ ({u.row, u.prev} \ {None} \subseteq DOMAIN u.seen) THEN <<Inconsistent>>
          ELSE IF u.kind = "move" /\ u.row = next THEN <<u.old[u.row]>>
          ELSE <<KeyAfter(u, next)>>
    BY <1>4 DEF Wanted
  <2>2. KeyAfter(u, next) \in Keys \cup {Inconsistent}
    <3>1. next # None => order[next] \in Keys
      BY <1>1, NextsAre
    <3>2. u.prev # None => u.old[u.prev] \in Keys
      BY <1>2, <1>4 DEF Form
    <3> QED
      BY <3>1, <3>2, BetweenIs, KeyAboveIs, KeyBelowIs DEF KeyAfter
  <2>3. u.kind = "move" => u.row \in DOMAIN u.old /\ u.row # None /\ u.old[u.row] \in Keys
    BY <1>2 DEF Form
  <2> QED
    BY <1>4, <2>1, <2>2, <2>3
<1> QED
  BY <1>3, <1>4 DEF KindsOfOne

LEMMA LockStep ==
  ASSUME Inv, NEW p \in Process, Lock(p)
  PROVE  Inv'
<1> DEFINE u == tx[p]
<1>1. /\ Local(u, order, lastPk, grouped) /\ u \in Tx /\ lastPk \in Nat
      /\ order \in [Live -> Keys] /\ made \in 0..MaxRequests /\ Live \subseteq Nat
      /\ \A q \in Process \ {p} : Apart(u, tx[q])
  BY Mine
<1>2. PICK next \in Nexts(u) :
        /\ \A r \in ToLock(u, next) : ~ LockedByOther(p, r)
        /\ tx' = [tx EXCEPT ![p] = [u EXCEPT !.at = "write",
                                             !.held = @ \cup ToLock(u, next),
                                             !.want = Wanted(u, next)]]
  BY DEF Lock, Step
<1>3. /\ order' = order /\ grouped' = grouped
      /\ lastPk' = lastPk /\ made' = made /\ u.kind # "idle" /\ u.at = "lock"
  BY DEF Lock, Busy
<1> DEFINE new == ToLock(u, next)
           w == Wanted(u, next)
           t == [u EXCEPT !.at = "write", !.held = @ \cup new, !.want = w]
<1> HIDE DEF u
<1>4. /\ Form(u) /\ Holds(u, order, lastPk) /\ Appends(u, order)
      /\ Places(u, order, grouped) /\ Calm(u, order, grouped)
  BY <1>1 DEF Local
<1>5. new \subseteq DOMAIN u.seen /\ new \subseteq Live /\ (LocksAll(u) => new = DOMAIN u.seen)
  <2>1. next = None \/ next \in DOMAIN u.seen
    BY NextsAre
  <2> QED
    BY <1>3, <1>4, <2>1 DEF ToLock, FirstOnly, Holds, Live
<1>6. u.kind \in {"append", "bulk"} =>
        /\ w \in Seq(Keys) /\ w \in Seq(Keys \cup {Inconsistent})
        /\ \A i, j \in 1..Len(w) : i < j => Before(w[i], w[j])
        /\ (\A r, s \in DOMAIN u.seen : s \in u.seen[r] <=> Before(order[r], order[s])) =>
               \A i \in 1..Len(w) : \A s \in DOMAIN u.seen : Before(order[s], w[i])
  BY <1>3, <1>4, WantedAppend
<1>7. u.kind \in KindsOfOne => \E x \in Keys \cup {Inconsistent} :
            /\ w = <<x>>
            /\ u.kind = "update" => x = u.old[u.row]
            /\ u.kind = "move" /\ x # Inconsistent => u.row \in DOMAIN u.seen
  BY <1>3, <1>4, WantedOne
<1>8. u.kind \in {"insert", "move"} /\ ~ u.moved /\ ByKey(u.old, grouped) =>
        /\ w[1] # Inconsistent => LandsAt(u, w[1])
        /\ w[1] = Inconsistent /\ DOMAIN u.seen = DOMAIN u.old => NoRoomIn(u, u.old)
  <2> SUFFICES ASSUME u.kind \in {"insert", "move"}, ~ u.moved, ByKey(u.old, grouped)
               PROVE  /\ w[1] # Inconsistent => LandsAt(u, w[1])
                      /\ w[1] = Inconsistent /\ DOMAIN u.seen = DOMAIN u.old => NoRoomIn(u, u.old)
    OBVIOUS
  <2>1. Placed(u)
    BY <1>3, <1>4, PlacesIn
  <2>2. PICK x : w = <<x>>
    BY <1>7 DEF KindsOfOne
  <2> HIDE DEF w
  <2>3. w[1] = x
    BY <2>2
  <2> QED
    BY <1>3, <1>4, <2>1, <2>2, <2>3, LandsThere DEF w
<1>9. u.kind = "delete" => w = <<>>
  BY DEF Wanted
<1>10. u.kind \in AllKinds
  BY <1>1, <1>3 DEF Tx
<1>11. w \in Seq(Keys \cup {Inconsistent})
  <2>1. CASE u.kind \in {"append", "bulk"}
    BY <1>6, <2>1
  <2>2. CASE u.kind \in KindsOfOne
    <3>1. PICK x \in Keys \cup {Inconsistent} : w = <<x>>
      BY <1>7, <2>2
    <3>2. <<x>> \in Seq(Keys \cup {Inconsistent})
      OBVIOUS
    <3> QED
      BY <3>1, <3>2
  <2>3. CASE u.kind = "delete"
    BY <1>9, <2>3
  <2> QED
    BY <1>10, <2>1, <2>2, <2>3 DEF AllKinds, KindsOfOne
<1>12. \A q \in Process \ {p} : new \cap (tx[q].held \cup DOMAIN tx[q].put) = {}
  BY <1>2 DEF LockedByOther
<1> HIDE DEF new, w
<1>13. t \in Tx
  <2>1. u.held \cup new \in SUBSET Nat
    BY <1>1, <1>5 DEF Tx
  <2> QED
    BY <1>1, <1>11, <2>1 DEF Tx
<1>14. /\ t.kind = u.kind /\ t.row = u.row /\ t.prev = u.prev /\ t.at = "write" /\ t.old = u.old
      /\ t.seen = u.seen /\ t.held = u.held \cup new /\ t.want = w /\ t.put = u.put
      /\ t.attempt = u.attempt /\ t.created = u.created /\ t.moved = u.moved
      /\ t.calm = u.calm
  BY <1>1 DEF Tx
<1>15. tx' = [tx EXCEPT ![p] = t]
  BY <1>2 DEF new, w
<1> HIDE DEF t
<1>16. Form(t) /\ PutIs(t, order) /\ Holds(t, order, lastPk)
  BY <1>3, <1>4, <1>5, <1>13, <1>14 DEF Form, PutIs, Holds, Live
<1>17. WantIs(t)
  <2>1. u.kind \in KindsOfOne => Len(w) = 1
    BY <1>7
  <2>2. u.kind = "move" /\ w[1] # Inconsistent => u.row \in new
    <3> HAVE u.kind = "move" /\ w[1] # Inconsistent
    <3>1. u.row \in DOMAIN u.seen
      BY <1>7 DEF KindsOfOne
    <3> QED
      BY <1>5, <3>1 DEF LocksAll
  <2> QED
    BY <1>6, <1>9, <1>14, <2>1, <2>2 DEF WantIs
<1>18. Appends(t, order)
  <2> SUFFICES ASSUME u.kind \in {"append", "bulk"}, ~ u.moved
               PROVE  /\ Same(u, order) /\ u.attempt <= u.created
                      /\ \A i \in 1..Len(w) :
                            /\ \A s \in DOMAIN u.old : Before(order[s], w[i])
                            /\ u.created = u.attempt =>
                                  \A s \in DOMAIN order : Before(order[s], w[i])
    BY <1>14 DEF Appends, Same
  <2>1. /\ Same(u, order) /\ u.attempt <= u.created
        /\ DOMAIN u.old \subseteq DOMAIN u.seen
        /\ \A r, s \in DOMAIN u.seen : s \in u.seen[r] <=> Before(order[r], order[s])
        /\ u.created = u.attempt => DOMAIN u.seen = DOMAIN order
    BY <1>3, <1>4 DEF Appends
  <2>2. \A i \in 1..Len(w) : \A s \in DOMAIN u.seen : Before(order[s], w[i])
    BY <1>6, <2>1
  <2> QED
    BY <2>1, <2>2
<1>19. Places(t, order, grouped)
  <2> SUFFICES ASSUME u.kind \in {"insert", "move"}, ~ u.moved
               PROVE  /\ Same(u, order)
                      /\ LocksAll(u) => DOMAIN u.old \subseteq new
                      /\ ByKey(u.old, grouped) /\ w[1] # Inconsistent => LandsAt(u, w[1])
    BY <1>14 DEF Places, Same, Locked, LocksAll, LandsAt
  <2>1. Same(u, order) /\ DOMAIN u.old \subseteq DOMAIN u.seen
    BY <1>3, <1>4 DEF Places
  <2> QED
    BY <1>5, <1>8, <2>1
<1>20. Calm(t, order, grouped)
  <2> SUFFICES ASSUME u.calm
               PROVE  /\ u.old = order /\ u.created = 0 /\ ~ u.moved
                      /\ u.kind = "update" => u.row \in new /\ w[1] = order[u.row]
                      /\ u.kind \in {"insert", "move"} /\ ByKey(u.old, grouped)
                         /\ w[1] = Inconsistent => NoRoomIn(u, u.old)
    BY <1>14 DEF Calm, NoRoomIn
  <2>1. /\ u.old = order /\ u.created = 0 /\ ~ u.moved
        /\ u.kind \in {"insert", "move"} => DOMAIN u.seen = DOMAIN order
        /\ u.kind \in {"update", "delete"} => DOMAIN u.seen = {u.row}
    BY <1>3, <1>4 DEF Calm
  <2>2. u.kind = "update" => u.row \in new
    <3> HAVE u.kind = "update"
    <3>1. After(u) = {u.row}
      BY <1>4, <2>1 DEF After, Form
    <3>2. next = u.row /\ next # None
      <4>1. u.row \in Live
        BY <1>4, <2>1 DEF Form, Live
      <4> QED
        BY <1>1, <3>1, <4>1, NextsAre, OrderedTableAssumption
    <3> QED
      BY <3>2 DEF new, ToLock, LocksAll, FirstOnly
  <2>3. u.kind = "update" => w[1] = order[u.row]
    BY <1>7, <2>1 DEF KindsOfOne
  <2> QED
    BY <1>8, <2>1, <2>2, <2>3
<1>21. Local(t, order, lastPk', grouped)
  BY <1>3, <1>16, <1>17, <1>18, <1>19, <1>20 DEF Local
<1>22. \A q \in Process \ {p} : Apart(t, tx[q])
  BY <1>1, <1>12, <1>14 DEF Apart
<1>23. lastPk' \in Nat /\ lastPk <= lastPk' /\ made' \in 0..MaxRequests
  BY <1>1, <1>3
<1> QED
  BY <1>3, <1>15, <1>21, <1>22, <1>23, LocalStep

LEMMA WriteStep ==
  ASSUME Inv, NEW p \in Process, Write(p)
  PROVE  Inv'
<1> DEFINE u == tx[p]
           fresh == lastPk + 1 .. lastPk + Len(u.want)
           out == IF u.kind = "delete" THEN [r \in u.held |-> Inconsistent]
                  ELSE IF Creates(u) THEN [r \in fresh |-> u.want[r - lastPk]]
                  ELSE [r \in {u.row} |-> u.want[1]]
           t == [u EXCEPT !.at = "commit", !.put = out]
<1>1. /\ Local(u, order, lastPk, grouped) /\ u \in Tx /\ lastPk \in Nat
      /\ order \in [Live -> Keys] /\ made \in 0..MaxRequests /\ Live \subseteq 1..lastPk
      /\ None \notin Live /\ \A q \in Process \ {p} : Apart(u, tx[q])
  BY Mine
<1>2. /\ tx' = [tx EXCEPT ![p] = t] /\ order' = order /\ grouped' = grouped /\ made' = made
      /\ lastPk' = IF Creates(u) THEN lastPk + Len(u.want) ELSE lastPk
      /\ u.at = "write" /\ Inconsistent \notin Range(u.want)
      /\ Range(u.want) \cap KeysInFlight(p) = {}
  BY DEF Write, Undisputed, Step
<1>3. Reinserts(u) => u.row \notin Live /\ \A q \in Process \ {p} : u.row \notin tx[q].held \cup DOMAIN tx[q].put
  BY DEF Write, Undisputed, Taken, LockedByOther
<1>4. \A r \in Live \ {u.row} : order[r] \notin Range(u.want)
  BY DEF Write, Taken
<1>5. \A q \in Process \ {p} : \A s \in DOMAIN tx[q].put : tx[q].put[s] \notin Range(u.want)
  <2> TAKE q \in Process \ {p}
  <2> TAKE s \in DOMAIN tx[q].put
  <2>1. tx[q].put[s] \in Range(tx[q].put)
    BY DEF Range
  <2>2. tx[q].put[s] \in KeysInFlight(p)
    BY <2>1 DEF KeysInFlight
  <2> QED
    BY <1>2, <2>2
<1> HIDE DEF u
<1>6. /\ Form(u) /\ WantIs(u) /\ Holds(u, order, lastPk) /\ Appends(u, order)
      /\ Places(u, order, grouped) /\ Calm(u, order, grouped)
  BY <1>1 DEF Local
<1>7. u.kind \in AllKinds
  <2>1. u.kind # "idle"
    BY <1>2, <1>6 DEF Form, Idle
  <2> QED
    BY <1>1, <2>1 DEF Tx
<1>8. /\ Len(u.want) \in Nat /\ Range(u.want) = {u.want[i] : i \in 1..Len(u.want)}
      /\ \A i \in 1..Len(u.want) : u.want[i] \in Keys /\ u.want[i] \in Range(u.want)
  <2>1. /\ Len(u.want) \in Nat /\ Range(u.want) = {u.want[i] : i \in 1..Len(u.want)}
        /\ \A i \in 1..Len(u.want) : u.want[i] \in Keys \cup {Inconsistent}
    BY <1>1, WantsAre
  <2>2. \A i \in 1..Len(u.want) : u.want[i] \in Range(u.want)
    BY <2>1
  <2> QED
    BY <1>2, <2>1, <2>2
<1>9. u.kind \in KindsOfOne => Len(u.want) = 1 /\ u.want[1] \in Keys /\ u.want[1] \in Range(u.want)
  BY <1>2, <1>6, <1>8 DEF WantIs
(* What is written.                                                          *)
<1>10. u.kind = "delete" => DOMAIN out = u.held /\ \A r \in DOMAIN out : out[r] = Inconsistent
  OBVIOUS
<1>11. Creates(u) => /\ DOMAIN out = fresh
                     /\ \A r \in fresh : /\ r - lastPk \in 1..Len(u.want)
                                         /\ out[r] = u.want[r - lastPk]
  BY <1>1, <1>8 DEF Creates
<1>12. u.kind \in {"move", "update"} => DOMAIN out = {u.row} /\ out[u.row] = u.want[1]
  BY DEF Creates
<1>13. Creates(u) => fresh \cap (1..lastPk) = {} /\ fresh \subseteq 1..lastPk' /\ fresh \subseteq Nat
  BY <1>1, <1>2, <1>8
<1>14. lastPk' \in Nat /\ lastPk <= lastPk'
  BY <1>1, <1>2, <1>8
<1>15. u.kind = "delete" \/ Creates(u) \/ u.kind \in {"move", "update"}
  BY <1>7 DEF AllKinds, Creates
<1> HIDE DEF out, fresh
<1>16. \A r \in DOMAIN out : out[r] \in Range(u.want) \/ (u.kind = "delete" /\ out[r] = Inconsistent)
  <2>1. CASE u.kind = "delete"
    BY <1>10, <2>1
  <2>2. CASE Creates(u)
    BY <1>8, <1>11, <2>2
  <2>3. CASE u.kind \in {"move", "update"}
    BY <1>9, <1>12, <2>3 DEF KindsOfOne
  <2> QED
    BY <1>15, <2>1, <2>2, <2>3
<1>17. u.row \in Nat \/ u.row = None
  BY <1>1 DEF Tx
<1>18. u.kind \in {"move", "update"} => u.row \in 1..lastPk
  BY <1>6 DEF Form, Holds
<1>19. DOMAIN out \subseteq 1..lastPk' /\ DOMAIN out \subseteq Nat
  <2>1. 1..lastPk \subseteq 1..lastPk' /\ 1..lastPk' \subseteq Nat
    BY <1>1, <1>14
  <2>2. u.held \subseteq 1..lastPk
    BY <1>1, <1>6 DEF Holds, Live
  <2> QED
    BY <1>10, <1>11, <1>12, <1>13, <1>15, <1>18, <2>1, <2>2
<1>20. out \in Maps(Keys \cup {Inconsistent}) /\ (Creates(u) => out \in Maps(Keys))
  <2>1. out = [r \in DOMAIN out |-> out[r]]
    BY DEF out
  <2>2. \A r \in DOMAIN out : out[r] \in Keys \cup {Inconsistent} /\ (Creates(u) => out[r] \in Keys)
    BY <1>8, <1>16 DEF Creates
  <2>3. out \in [DOMAIN out -> Keys \cup {Inconsistent}] /\ (Creates(u) => out \in [DOMAIN out -> Keys])
    BY <2>1, <2>2
  <2> QED
    BY <1>19, <2>3, MapIs
<1>21. t \in Tx
  BY <1>1, <1>20 DEF Tx
<1>22. /\ t.kind = u.kind /\ t.row = u.row /\ t.prev = u.prev /\ t.at = "commit" /\ t.old = u.old
      /\ t.seen = u.seen /\ t.held = u.held /\ t.want = u.want /\ t.put = out
      /\ t.attempt = u.attempt /\ t.created = u.created /\ t.moved = u.moved
      /\ t.calm = u.calm
  BY <1>1 DEF Tx
<1> HIDE DEF t
<1>23. Form(t) /\ WantIs(t)
  BY <1>2, <1>6, <1>21, <1>22 DEF Form, WantIs, Idle
<1>24. Holds(t, order, lastPk')
  <2>1. 1..lastPk \subseteq 1..lastPk'
    BY <1>1, <1>14
  <2> QED
    BY <1>2, <1>6, <1>19, <1>22, <2>1 DEF Holds
<1>25. u.kind \in {"move", "update"} => u.row \in u.held \/ Reinserts(u)
  <2>1. u.kind = "move" => u.want[1] # Inconsistent
    BY <1>9, KeyNotInconsistent DEF KindsOfOne
  <2> QED
    BY <1>2, <1>6, <2>1 DEF WantIs, Reinserts
<1>26. PutIs(t, order)
  <2>1. ASSUME Creates(u)
        PROVE  /\ DOMAIN out \cap Live = {}
               /\ \A r, s \in DOMAIN out : r < s => Before(out[r], out[s])
               /\ \A r, s \in DOMAIN out : out[r] = out[s] => r = s
    <3>1. DOMAIN out \cap Live = {}
      BY <1>1, <1>11, <1>13, <2>1
    <3>2. \A i, j \in 1..Len(u.want) : i < j => Before(u.want[i], u.want[j])
      BY <1>2, <1>6, <2>1 DEF WantIs, Creates, KindsOfOne
    <3>3. ASSUME NEW r \in DOMAIN out, NEW s \in DOMAIN out, r < s
          PROVE  Before(out[r], out[s]) /\ out[r] # out[s]
      <4>1. /\ r - lastPk \in 1..Len(u.want) /\ s - lastPk \in 1..Len(u.want)
            /\ r - lastPk < s - lastPk
            /\ out[r] = u.want[r - lastPk] /\ out[s] = u.want[s - lastPk]
        BY <1>1, <1>11, <1>13, <2>1, <3>3
      <4>2. Before(out[r], out[s])
        BY <3>2, <4>1
      <4> QED
        BY <1>8, <4>1, <4>2, KeysDiffer
    <3>4. \A r, s \in DOMAIN out : r = s \/ r < s \/ s < r
      BY <1>19
    <3> QED
      BY <3>1, <3>3, <3>4
  <2>2. \A r \in DOMAIN out : \A s \in Live \ DOMAIN out : out[r] # order[s]
    <3> TAKE r \in DOMAIN out
    <3> TAKE s \in Live \ DOMAIN out
    <3>1. order[s] # Inconsistent
      BY <1>1, KeyNotInconsistent
    <3>2. u.kind # "delete" => s # u.row
      <4>1. CASE Creates(u)
        BY <1>1, <1>6, <4>1 DEF Creates, Form
      <4>2. CASE u.kind \in {"move", "update"}
        BY <1>12, <4>2
      <4> QED
        BY <1>15, <4>1, <4>2
    <3>3. CASE u.kind = "delete"
      BY <1>10, <3>1, <3>3
    <3>4. CASE u.kind # "delete"
      BY <1>4, <1>16, <3>2, <3>4
    <3> QED
      BY <3>3, <3>4
  <2>3. u.kind \in {"move", "update"} =>
          /\ DOMAIN out = {u.row} /\ out[u.row] \in Keys
          /\ u.row \in u.held \/ u.row \notin Live
    BY <1>3, <1>9, <1>12, <1>25 DEF KindsOfOne
  <2>4. Creates(t) = Creates(u)
    BY <1>22 DEF Creates
  <2> QED
    BY <1>10, <1>20, <1>22, <2>1, <2>2, <2>3, <2>4 DEF PutIs, Live
<1>27. Appends(t, order)
  <2> SUFFICES ASSUME u.kind \in {"append", "bulk"}, ~ u.moved
               PROVE  /\ Same(u, order) /\ u.attempt <= u.created
                      /\ \A r \in DOMAIN out : \A s \in DOMAIN u.old : Before(order[s], out[r])
    BY <1>22 DEF Appends, Same
  <2>1. /\ Same(u, order) /\ u.attempt <= u.created
        /\ \A i \in 1..Len(u.want) : \A s \in DOMAIN u.old : Before(order[s], u.want[i])
    BY <1>2, <1>6 DEF Appends
  <2>2. Creates(u)
    BY DEF Creates
  <2> QED
    BY <1>11, <2>1, <2>2
<1>28. Places(t, order, grouped)
  <2> SUFFICES ASSUME u.kind \in {"insert", "move"}, ~ u.moved
               PROVE  /\ Same(u, order)
                      /\ LocksAll(u) => DOMAIN u.old \subseteq u.held
                      /\ ByKey(u.old, grouped) => \A r \in DOMAIN out : LandsAt(u, out[r])
    BY <1>22 DEF Places, Same, Locked, LocksAll, LandsAt
  <2>1. /\ Same(u, order) /\ (LocksAll(u) => DOMAIN u.old \subseteq u.held)
        /\ ByKey(u.old, grouped) /\ u.want[1] # Inconsistent => LandsAt(u, u.want[1])
    BY <1>2, <1>6 DEF Places, Locked
  <2>2. u.want[1] # Inconsistent /\ Len(u.want) = 1
    BY <1>9, KeyNotInconsistent DEF KindsOfOne
  <2>3. \A r \in DOMAIN out : out[r] = u.want[1]
    BY <1>8, <1>16, <2>2
  <2> QED
    BY <2>1, <2>2, <2>3
<1>29. Calm(t, order, grouped)
  BY <1>2, <1>6, <1>22 DEF Calm
<1>30. Local(t, order, lastPk', grouped)
  BY <1>23, <1>24, <1>26, <1>27, <1>28, <1>29 DEF Local
<1>31. \A q \in Process \ {p} : Apart(t, tx[q])
  <2> TAKE q \in Process \ {p}
  <2> DEFINE v == tx[q]
  <2>1. Apart(u, v)
    BY <1>1
  <2>2. v.held \subseteq 1..lastPk /\ DOMAIN v.put \subseteq 1..lastPk
    <3>1. Holds(v, order, lastPk)
      BY DEF Inv, Local
    <3> QED
      BY <1>1, <3>1 DEF Holds, Live
  <2>3. DOMAIN out \cap (v.held \cup DOMAIN v.put) = {}
    <3>1. CASE u.kind = "delete"
      BY <1>10, <2>1, <3>1 DEF Apart
    <3>2. CASE Creates(u)
      BY <1>11, <1>13, <2>2, <3>2
    <3>3. CASE u.kind \in {"move", "update"}
      <4>1. u.row \notin v.held \cup DOMAIN v.put
        BY <1>3, <1>25, <2>1, <3>3 DEF Apart
      <4> QED
        BY <1>12, <3>3, <4>1
    <3> QED
      BY <1>15, <3>1, <3>2, <3>3
  <2>4. \A r \in DOMAIN out, s \in DOMAIN v.put : out[r] = v.put[s] => out[r] = Inconsistent
    BY <1>5, <1>16
  <2> QED
    BY <1>22, <2>1, <2>3, <2>4 DEF Apart
<1>32. made' \in 0..MaxRequests
  BY <1>1, <1>2
<1> QED
  BY <1>2, <1>14, <1>30, <1>31, <1>32, LocalStep

-------------------------------------------------------------------------------
(* A commit.                                                                 *)

(* new is the table ord with what t has written.                             *)
Merges(new, t, ord) ==
  /\ \A s \in DOMAIN ord \ DOMAIN t.put : s \in DOMAIN new /\ new[s] = ord[s]
  /\ \A s \in DOMAIN t.put : t.put[s] # Inconsistent => s \in DOMAIN new
  /\ \A s \in DOMAIN new :
        \/ s \in DOMAIN t.put /\ t.put[s] # Inconsistent /\ new[s] = t.put[s]
        \/ s \in DOMAIN ord \ DOMAIN t.put /\ new[s] = ord[s]

LEMMA OverlappedIs ==
  ASSUME NEW u \in Tx, NEW t, u.kind # "idle"
  PROVE  LET v == Overlapped(u, t) IN
         /\ v \in Tx /\ v.kind = u.kind /\ v.row = u.row /\ v.prev = u.prev /\ v.at = u.at
         /\ v.old = u.old /\ v.held = u.held /\ v.want = u.want /\ v.put = u.put
         /\ v.attempt = u.attempt /\ v.calm = FALSE
         /\ v.created = IF Creates(t) THEN u.created + 1 ELSE u.created
         /\ v.moved = (u.moved \/ ~ (Creates(t) \/ Locked(u)))
         /\ u.at = "look" => v.seen = u.seen
         /\ u.at # "look" => v.seen = [r \in DOMAIN u.seen \ Removed(t) |-> u.seen[r]]
<1> DEFINE seen == IF u.at = "look" THEN u.seen ELSE [r \in DOMAIN u.seen \ Removed(t) |-> u.seen[r]]
           created == IF Creates(t) THEN u.created + 1 ELSE u.created
           moved == u.moved \/ ~ (Creates(t) \/ Locked(u))
           v == [u EXCEPT !.calm = FALSE, !.seen = seen, !.created = created, !.moved = moved]
<1>1. Overlapped(u, t) = v
  BY DEF Overlapped
<1>2. seen \in Maps(SUBSET Nat)
  <2>1. u.seen \in Maps(SUBSET Nat)
    BY DEF Tx
  <2>2. DOMAIN u.seen \in SUBSET Nat /\ u.seen \in [DOMAIN u.seen -> SUBSET Nat]
    BY <2>1, MapIs
  <2>3. CASE u.at = "look"
    BY <2>1, <2>3
  <2>4. CASE u.at # "look"
    <3>1. seen = [r \in DOMAIN u.seen \ Removed(t) |-> u.seen[r]]
      BY <2>4
    <3> DEFINE S == DOMAIN u.seen \ Removed(t)
    <3>2. \A r \in S : u.seen[r] \in SUBSET Nat
      BY <2>2
    <3>3. seen = [r \in S |-> u.seen[r]]
      BY <3>1
    <3> HIDE DEF S
    <3>4. seen \in [S -> SUBSET Nat]
      BY <3>2, <3>3
    <3>5. seen \in [DOMAIN u.seen \ Removed(t) -> SUBSET Nat]
      BY <3>4 DEF S
    <3> QED
      BY <2>2, <3>5, MapIs
  <2> QED
    BY <2>3, <2>4
<1>3. created \in Nat /\ moved \in BOOLEAN
  BY DEF Tx
<1>4. (u.at = "look" => seen = u.seen)
      /\ (u.at # "look" => seen = [r \in DOMAIN u.seen \ Removed(t) |-> u.seen[r]])
  OBVIOUS
<1> HIDE DEF seen, created, moved
<1>5. v \in Tx
  BY <1>2, <1>3 DEF Tx
<1>6. /\ v.kind = u.kind /\ v.row = u.row /\ v.prev = u.prev /\ v.at = u.at
      /\ v.old = u.old /\ v.held = u.held /\ v.want = u.want /\ v.put = u.put
      /\ v.attempt = u.attempt /\ v.calm = FALSE /\ v.created = created
      /\ v.moved = moved /\ v.seen = seen
  BY DEF Tx
<1> HIDE DEF v
<1> QED
  BY <1>1, <1>4, <1>5, <1>6 DEF created, moved

LEMMA OtherStays ==
  ASSUME NEW ord, NEW new, NEW pk, NEW grp, NEW t, NEW u,
         Local(t, ord, pk, grp), t.at = "commit", Merges(new, t, ord),
         Local(u, ord, pk, grp), u.kind # "idle", Apart(t, u)
  PROVE  Local(Overlapped(u, t), new, pk, grp)
<1> DEFINE v == Overlapped(u, t)
<1>1. /\ Form(u) /\ WantIs(u) /\ PutIs(u, ord) /\ Holds(u, ord, pk)
      /\ Appends(u, ord) /\ Places(u, ord, grp) /\ PutIs(t, ord)
  BY DEF Local
<1>2. u \in Tx /\ u.attempt \in Nat /\ u.created \in Nat
  BY <1>1 DEF Form, Tx
<1>3. /\ v \in Tx /\ v.kind = u.kind /\ v.row = u.row /\ v.prev = u.prev /\ v.at = u.at
      /\ v.old = u.old /\ v.held = u.held /\ v.want = u.want /\ v.put = u.put
      /\ v.attempt = u.attempt /\ v.calm = FALSE
      /\ v.created = IF Creates(t) THEN u.created + 1 ELSE u.created
      /\ v.moved = (u.moved \/ ~ (Creates(t) \/ Locked(u)))
      /\ u.at = "look" => v.seen = u.seen
      /\ u.at # "look" => v.seen = [r \in DOMAIN u.seen \ Removed(t) |-> u.seen[r]]
  BY <1>2, OverlappedIs
<1> HIDE DEF v
<1>4. Form(v) /\ WantIs(v)
  BY <1>1, <1>3 DEF Form, WantIs
<1>5. \A s \in DOMAIN ord : s \notin DOMAIN t.put => s \in DOMAIN new /\ new[s] = ord[s]
  BY DEF Merges
<1>6. \A s \in u.held : s \notin DOMAIN t.put /\ s \in DOMAIN ord /\ s \in DOMAIN new /\ new[s] = ord[s]
  BY <1>1, <1>5 DEF Apart, Holds
<1>7. PutIs(v, new)
  <2> SUFFICES ASSUME u.at = "commit" PROVE PutIs(v, new)
    BY <1>3 DEF PutIs
  <2>1. DOMAIN u.put \cap DOMAIN t.put = {}
    BY DEF Apart
  <2>2. \A r \in DOMAIN u.put : r \notin DOMAIN ord => r \notin DOMAIN new
    BY <2>1 DEF Merges
  <2>3. \A r \in DOMAIN u.put : \A s \in DOMAIN new \ DOMAIN u.put : u.put[r] # new[s]
    <3> TAKE r \in DOMAIN u.put
    <3> TAKE s \in DOMAIN new \ DOMAIN u.put
    <3>1. CASE s \in DOMAIN t.put /\ t.put[s] # Inconsistent /\ new[s] = t.put[s]
      BY <3>1 DEF Apart
    <3>2. CASE s \in DOMAIN ord \ DOMAIN t.put /\ new[s] = ord[s]
      BY <1>1, <3>2 DEF PutIs
    <3> QED
      BY <3>1, <3>2 DEF Merges
  <2>4. Creates(v) = Creates(u)
    BY <1>3 DEF Creates
  <2>5. Creates(u) => /\ u.put \in Maps(Keys) /\ DOMAIN u.put \cap DOMAIN new = {}
                      /\ \A r, s \in DOMAIN u.put : u.put[r] = u.put[s] => r = s
                      /\ u.kind # "insert" =>
                            \A r, s \in DOMAIN u.put : r < s => Before(u.put[r], u.put[s])
    BY <1>1, <2>2 DEF PutIs
  <2>6. u.kind \in {"move", "update"} =>
          /\ DOMAIN u.put = {u.row} /\ u.put[u.row] \in Keys
          /\ u.row \in u.held \/ u.row \notin DOMAIN new
    BY <1>1, <2>2 DEF PutIs
  <2>7. u.kind = "delete" =>
          DOMAIN u.put = u.held /\ \A r \in DOMAIN u.put : u.put[r] = Inconsistent
    BY <1>1 DEF PutIs
  <2> QED
    BY <1>3, <2>3, <2>4, <2>5, <2>6, <2>7 DEF PutIs
<1>8. Holds(v, new, pk)
  <2>1. ASSUME u.at # "look", NEW s \in DOMAIN v.seen PROVE s \in DOMAIN new
    <3>1. s \in DOMAIN u.seen /\ s \notin Removed(t)
      BY <1>3, <2>1
    <3>2. s \in DOMAIN ord
      BY <1>1, <2>1, <3>1 DEF Holds
    <3>3. s \in DOMAIN t.put => t.put[s] # Inconsistent
      BY <3>1 DEF Removed
    <3> QED
      BY <1>5, <3>2, <3>3 DEF Merges
  <2> QED
    BY <1>1, <1>3, <1>6, <2>1 DEF Holds
<1>9. ASSUME Creates(t)
      PROVE  /\ \A s \in DOMAIN ord : s \in DOMAIN new /\ new[s] = ord[s]
             /\ u.at # "look" => v.seen = u.seen
  <2>1. /\ DOMAIN t.put \cap DOMAIN ord = {} /\ t.put \in Maps(Keys)
    BY <1>1, <1>9 DEF PutIs
  <2>2. \A r \in DOMAIN t.put : t.put[r] \in Keys
    BY <2>1, MapIs
  <2>3. Removed(t) = {}
    BY <2>2, KeyNotInconsistent DEF Removed
  <2>4. u.at # "look" => v.seen = [r \in DOMAIN u.seen |-> u.seen[r]]
    BY <1>3, <2>3
  <2>5. u.seen = [r \in DOMAIN u.seen |-> u.seen[r]]
    <3>1. u.seen \in Maps(SUBSET Nat)
      BY <1>2 DEF Tx
    <3> QED
      BY <3>1, MapIs
  <2> QED
    BY <1>5, <2>1, <2>4, <2>5
<1>10. Appends(v, new)
  <2> SUFFICES ASSUME u.kind \in {"append", "bulk"}, ~ v.moved PROVE Appends(v, new)
    BY <1>3 DEF Appends
  <2>1. ~ u.moved /\ Creates(t)
    BY <1>3 DEF Locked, LocksAll
  <2>2. /\ Same(u, ord) /\ u.attempt <= u.created
        /\ u.at = "lock" =>
              /\ DOMAIN u.old \subseteq DOMAIN u.seen
              /\ \A r, s \in DOMAIN u.seen : s \in u.seen[r] <=> Before(ord[r], ord[s])
        /\ u.at = "write" => \A i \in 1..Len(u.want) : \A s \in DOMAIN u.old : Before(ord[s], u.want[i])
        /\ u.at = "commit" =>
              \A r \in DOMAIN u.put : \A s \in DOMAIN u.old : Before(ord[s], u.put[r])
    BY <1>1, <2>1 DEF Appends
  <2>3. Same(v, new) /\ \A s \in DOMAIN u.old : new[s] = ord[s]
    BY <1>3, <1>9, <2>1, <2>2 DEF Same
  <2>4. v.attempt <= v.created /\ v.created # v.attempt
    BY <1>2, <1>3, <2>1, <2>2
  <2>5. u.at = "lock" => /\ DOMAIN v.old \subseteq DOMAIN v.seen
                         /\ \A r, s \in DOMAIN v.seen : s \in v.seen[r] <=> Before(new[r], new[s])
    <3> HAVE u.at = "lock"
    <3>1. v.seen = u.seen /\ DOMAIN u.seen \subseteq DOMAIN ord
      BY <1>1, <1>9, <2>1 DEF Holds
    <3>2. \A r \in DOMAIN u.seen : new[r] = ord[r]
      BY <1>9, <2>1, <3>1
    <3> QED
      BY <1>3, <2>2, <3>1, <3>2
  <2>6. u.at = "write" => \A i \in 1..Len(v.want) : \A s \in DOMAIN v.old : Before(new[s], v.want[i])
    BY <1>3, <2>2, <2>3
  <2>7. u.at = "commit" =>
              \A r \in DOMAIN v.put : \A s \in DOMAIN v.old : Before(new[s], v.put[r])
    BY <1>3, <2>2, <2>3
  <2> QED
    BY <1>3, <2>3, <2>4, <2>5, <2>6, <2>7 DEF Appends
<1>11. Places(v, new, grp)
  <2> SUFFICES ASSUME u.kind \in {"insert", "move"}, ~ v.moved PROVE Places(v, new, grp)
    BY <1>3 DEF Places
  <2>1. ~ u.moved /\ (Creates(t) \/ Locked(u))
    BY <1>3
  <2>2. Same(v, new)
    <3>1. Same(u, ord)
      BY <1>1, <2>1 DEF Places
    <3>2. CASE Creates(t)
      BY <1>3, <1>9, <3>1, <3>2 DEF Same
    <3>3. CASE Locked(u)
      <4>1. DOMAIN u.old \subseteq u.held
        BY <1>1, <2>1, <3>3 DEF Places
      <4> QED
        BY <1>3, <1>6, <3>1, <4>1 DEF Same
    <3> QED
      BY <2>1, <3>2, <3>3
  <2>3. Locked(v) = Locked(u)
    BY <1>3 DEF Locked, LocksAll
  <2>4. u.at \in {"look", "lock"} => v.seen = u.seen
    BY <1>3, <1>9, <2>1 DEF Locked
  <2>5. \A k : LandsAt(v, k) = LandsAt(u, k)
    BY <1>3 DEF LandsAt
  <2>6. /\ u.at \in {"look", "lock"} =>
              \A r, s \in DOMAIN u.old :
                 r \in DOMAIN u.seen /\ (s \in u.seen[r] <=> ShownIn(u.old, grp, s, r))
        /\ u.at = "look" => DOMAIN u.seen = DOMAIN u.old
        /\ u.at = "lock" => \A r \in DOMAIN u.seen \ DOMAIN u.old : u.seen[r] = DOMAIN u.old
        /\ Locked(u) => DOMAIN u.old \subseteq u.held
        /\ ByKey(u.old, grp) =>
              /\ u.at = "write" /\ u.want[1] # Inconsistent => LandsAt(u, u.want[1])
              /\ u.at = "commit" => \A r \in DOMAIN u.put : LandsAt(u, u.put[r])
    BY <1>1, <2>1 DEF Places
  <2> QED
    BY <1>3, <2>2, <2>3, <2>4, <2>5, <2>6 DEF Places
<1>12. Calm(v, new, grp)
  BY <1>3 DEF Calm
<1> QED
  BY <1>4, <1>7, <1>8, <1>10, <1>11, <1>12 DEF Local, v

LEMMA CommitMerges ==
  ASSUME Inv, NEW p \in Process, Commit(p)
  PROVE  Merges(order', tx[p], order) /\ Table(order', lastPk)
<1> DEFINE t == tx[p]
<1>1. /\ Local(t, order, lastPk, grouped) /\ t \in Tx /\ lastPk \in Nat
      /\ order \in [Live -> Keys] /\ Live \subseteq 1..lastPk /\ Live \subseteq Nat
      /\ \A r, s \in Live : order[r] = order[s] => r = s
  BY Mine
<1>2. /\ t.at = "commit"
      /\ order' = [r \in (Live \cup DOMAIN t.put) \ Removed(t) |->
                      IF r \in DOMAIN t.put THEN t.put[r] ELSE order[r]]
  BY DEF Commit
<1> HIDE DEF t
<1>3. PutIs(t, order) /\ Holds(t, order, lastPk) /\ Form(t)
  BY <1>1 DEF Local
<1>4. Merges(order', t, order)
  BY <1>2 DEF Merges, Removed, Live
<1>5. t.put \in [DOMAIN t.put -> Keys \cup {Inconsistent}] /\ DOMAIN t.put \subseteq Nat
  <2>1. t.put \in Maps(Keys \cup {Inconsistent})
    BY <1>1 DEF Tx
  <2> QED
    BY <2>1, MapIs
<1>6. DOMAIN order' \subseteq 1..lastPk /\ DOMAIN order' \subseteq Nat
  <2>1. DOMAIN order' \subseteq Live \cup DOMAIN t.put
    BY <1>2
  <2>2. DOMAIN t.put \subseteq 1..lastPk
    BY <1>3 DEF Holds
  <2> QED
    BY <1>1, <1>5, <2>1, <2>2
<1>7. \A r \in DOMAIN order' : order'[r] \in Keys
  BY <1>1, <1>4, <1>5 DEF Merges, Live
<1>8. order' \in Maps(Keys)
  BY <1>2, <1>6, <1>7, MapIs
<1>9. t.kind \in AllKinds
  <2>1. t.kind # "idle"
    BY <1>2, <1>3 DEF Form, Idle
  <2> QED
    BY <1>1, <2>1 DEF Tx
<1>10. \A r, s \in DOMAIN t.put : t.put[r] = t.put[s] /\ t.put[r] # Inconsistent => r = s
  <2>1. CASE Creates(t)
    BY <1>2, <1>3, <2>1 DEF PutIs
  <2>2. CASE t.kind \in {"move", "update"}
    BY <1>2, <1>3, <2>2 DEF PutIs
  <2>3. CASE t.kind = "delete"
    BY <1>2, <1>3, <2>3 DEF PutIs
  <2> QED
    BY <1>9, <2>1, <2>2, <2>3 DEF AllKinds, Creates
<1>11. \A r \in DOMAIN t.put : \A s \in Live \ DOMAIN t.put : t.put[r] # order[s]
  BY <1>2, <1>3 DEF PutIs, Live
<1>12. ASSUME NEW r \in DOMAIN order', NEW s \in DOMAIN order', order'[r] = order'[s]
       PROVE  r = s
  <2>1. CASE r \in DOMAIN t.put /\ s \in DOMAIN t.put
    BY <1>4, <1>10, <1>12, <2>1 DEF Merges
  <2>2. CASE r \in DOMAIN t.put /\ s \notin DOMAIN t.put
    BY <1>4, <1>11, <1>12, <2>2 DEF Merges, Live
  <2>3. CASE r \notin DOMAIN t.put /\ s \in DOMAIN t.put
    BY <1>4, <1>11, <1>12, <2>3 DEF Merges, Live
  <2>4. CASE r \notin DOMAIN t.put /\ s \notin DOMAIN t.put
    BY <1>1, <1>4, <1>12, <2>4 DEF Merges, Live
  <2> QED
    BY <2>1, <2>2, <2>3, <2>4
<1> QED
  BY <1>1, <1>4, <1>6, <1>8, <1>12 DEF Table, t

LEMMA CommitStep ==
  ASSUME Inv, NEW p \in Process, Commit(p)
  PROVE  Inv'
<1>1. Merges(order', tx[p], order) /\ Table(order', lastPk)
  BY CommitMerges
<1>2. /\ tx[p].at = "commit" /\ grouped' = grouped /\ lastPk' = lastPk /\ made' = made
      /\ tx' = [q \in Process |-> IF q = p THEN Idle ELSE Overlapped(tx[q], tx[p])]
  BY DEF Commit
<1>3. \A q \in Process : Local(tx[q], order, lastPk, grouped) /\ tx[q] \in Tx
  BY DEF Inv
<1>4. Idle \in Tx /\ \A u : Apart(Idle, u)
  BY IdleIsLocal DEF Local, Form
<1>5. ASSUME NEW q \in Process
      PROVE  /\ tx'[q] \in Tx /\ Local(tx'[q], order', lastPk, grouped)
             /\ tx'[q].held \cup DOMAIN tx'[q].put = IF q = p THEN {} ELSE tx[q].held \cup DOMAIN tx[q].put
             /\ q # p => tx'[q].held = tx[q].held /\ tx'[q].put = tx[q].put
  <2>1. CASE q = p
    <3>1. tx'[q] = Idle
      BY <1>2, <2>1
    <3>2. Idle.held \cup DOMAIN Idle.put = {}
      BY DEF Idle, NoRows
    <3> QED
      BY <1>4, <2>1, <3>1, <3>2, IdleIsLocal
  <2>2. CASE q # p /\ tx[q].kind = "idle"
    <3>1. tx'[q] = tx[q]
      BY <1>2, <2>2 DEF Overlapped
    <3>2. tx[q] = Idle
      BY <1>3, <2>2 DEF Local, Form
    <3> QED
      BY <1>4, <2>2, <3>1, <3>2, IdleIsLocal
  <2>3. CASE q # p /\ tx[q].kind # "idle"
    <3>1. tx'[q] = Overlapped(tx[q], tx[p])
      BY <1>2, <2>3
    <3>2. Apart(tx[p], tx[q])
      BY <2>3 DEF Inv
    <3>3. Local(Overlapped(tx[q], tx[p]), order', lastPk, grouped)
      BY <1>1, <1>2, <1>3, <2>3, <3>2, OtherStays
    <3>4. LET v == Overlapped(tx[q], tx[p])
          IN  v \in Tx /\ v.held = tx[q].held /\ v.put = tx[q].put
      BY <1>3, <2>3, OverlappedIs
    <3> QED
      BY <2>3, <3>1, <3>3, <3>4
  <2> QED
    BY <2>1, <2>2, <2>3
<1>6. tx' \in [Process -> Tx]
  BY <1>2, <1>5
<1>7. \A q, r \in Process : q # r => Apart(tx'[q], tx'[r])
  <2> TAKE q, r \in Process
  <2> HAVE q # r
  <2>1. CASE q = p \/ r = p
    <3>1. tx'[p] = Idle
      BY <1>2
    <3>2. Apart(Idle, tx'[q]) /\ Apart(Idle, tx'[r])
      BY <1>4
    <3> QED
      BY <2>1, <3>1, <3>2, ApartBoth
  <2>2. CASE q # p /\ r # p
    <3>1. Apart(tx[q], tx[r])
      BY DEF Inv
    <3> QED
      BY <1>5, <2>2, <3>1 DEF Apart
  <2> QED
    BY <2>1, <2>2
<1>8. Table(order', lastPk') /\ grouped' \subseteq 1..lastPk' /\ made' \in 0..MaxRequests
  BY <1>1, <1>2 DEF Inv
<1>9. \A q \in Process : Local(tx'[q], order', lastPk', grouped')
  BY <1>2, <1>5
<1> QED
  BY <1>6, <1>7, <1>8, <1>9 DEF Inv

-------------------------------------------------------------------------------
(* The invariant.                                                            *)

LEMMA InitInv == Init => Inv
<1> SUFFICES ASSUME Init PROVE Inv
  OBVIOUS
<1>1. PICK n \in 0..MaxInitial : order = OrderFromNone(n) /\ lastPk = n /\ grouped \in SUBSET (1..n)
  BY DEF Init
<1>2. made = 0 /\ tx = [p \in Process |-> Idle]
  BY DEF Init
<1>3. n \in Nat /\ MaxRequests \in Nat
  BY OrderedTableAssumption
<1>4. order \in [1..n -> Keys] /\ \A i, j \in 1..n : i < j => Before(order[i], order[j])
  BY <1>1, <1>3, OrdersAre, FirstKeyIs
<1>5. Table(order, lastPk)
  <2>1. DOMAIN order = 1..n /\ 1..n \in SUBSET Nat
    BY <1>4
  <2>2. order \in Maps(Keys)
    BY <1>4, <2>1, MapIs
  <2>3. ASSUME NEW r \in 1..n, NEW s \in 1..n, order[r] = order[s] PROVE r = s
    <3>1. order[r] \in Keys /\ order[s] \in Keys
      BY <1>4
    <3>2. ~ (r < s) /\ ~ (s < r)
      BY <1>4, <2>3, <3>1, KeysDiffer
    <3> QED
      BY <3>2
  <2> QED
    BY <1>1, <1>3, <2>1, <2>2, <2>3 DEF Table
<1>6. Idle \in Tx /\ Local(Idle, order, lastPk, grouped) /\ Apart(Idle, Idle)
  BY IdleIsLocal DEF Local, Form
<1> QED
  BY <1>1, <1>2, <1>3, <1>5, <1>6 DEF Inv

LEMMA NextInv == Inv /\ [Next]_vars => Inv'
<1> SUFFICES ASSUME Inv, [Next]_vars PROVE Inv'
  OBVIOUS
<1>1. ASSUME NEW p \in Process, Begin(p) PROVE Inv'
  BY <1>1, BeginStep
<1>2. ASSUME NEW p \in Process, Look(p) PROVE Inv'
  BY <1>2, LookStep
<1>3. ASSUME NEW p \in Process, Lock(p) PROVE Inv'
  BY <1>3, LockStep
<1>4. ASSUME NEW p \in Process, Write(p) PROVE Inv'
  BY <1>4, WriteStep
<1>5. ASSUME NEW p \in Process, Retry(p) PROVE Inv'
  BY <1>5, RetryStep
<1>6. ASSUME NEW p \in Process, Refuse(p) PROVE Inv'
  BY <1>6, RefuseStep
<1>7. ASSUME NEW p \in Process, Commit(p) PROVE Inv'
  BY <1>7, CommitStep
<1>8. CASE UNCHANGED vars
  BY <1>8 DEF vars, Inv
<1> QED
  BY <1>1, <1>2, <1>3, <1>4, <1>5, <1>6, <1>7, <1>8 DEF Next, Rest

(* The invariant of a table that requests overlap on: each of them, as long *)
(* as only rows were created meanwhile, still sees the rows it began with   *)
(* under the keys they had, has locked what it reckons with, and is about   *)
(* to write where it was asked to; and no two write the same row or key.    *)
(* serializers.py:82-148, managers.py:102-179.                              *)
THEOREM TableInvCorrect == Spec => []Inv
<1> QED
  BY InitInv, NextInv, PTL DEF Spec

(* The rows of a table have keys, all different, and no two requests lock   *)
(* or write the same row, however many overlap (the row locks of            *)
(* serializers.py:96, 135 and managers.py:151).                             *)
THEOREM TableTypeCorrect == Spec => []TypeOK
<1>1. Inv => TypeOK
  <2> SUFFICES ASSUME Inv PROVE TypeOK
    OBVIOUS
  <2>1. /\ lastPk \in Nat /\ Live \subseteq 1..lastPk
        /\ \A r, s \in Live : order[r] = order[s] => r = s
    BY DEF Inv, Table, Live
  <2>2. \A p \in Process : \A q \in Process \ {p} :
          (tx[p].held \cup DOMAIN tx[p].put) \cap (tx[q].held \cup DOMAIN tx[q].put) = {}
    BY DEF Inv, Apart
  <2>3. grouped \subseteq 1..lastPk /\ made \in 0..MaxRequests
    BY DEF Inv
  <2> QED
    BY <2>1, <2>2, <2>3 DEF TypeOK
<1> QED
  BY <1>1, TableInvCorrect, PTL

-------------------------------------------------------------------------------
(* What requests promise.                                                    *)

LEMMA AppendsThere ==
  ASSUME Inv, NEW p \in Process, Commit(p), tx[p].kind \in {"append", "bulk"}, ~ tx[p].moved
  PROVE  \A r \in DOMAIN tx[p].put :
            /\ \A s \in DOMAIN tx[p].old : Before(order[s], tx[p].put[r])
            /\ \A s \in DOMAIN tx[p].put : s < r => Before(tx[p].put[s], tx[p].put[r])
<1>1. PutIs(tx[p], order) /\ Appends(tx[p], order)
  BY Mine DEF Local
<1>2. tx[p].at = "commit" /\ Creates(tx[p])
  BY DEF Commit, Creates
<1> QED
  BY <1>1, <1>2 DEF PutIs, Appends

LEMMA ByKeyThen ==
  ASSUME NEW t, Same(t, order), ShownByKey
  PROVE  ByKey(t.old, grouped)
BY DEF Same, ShownByKey, ByKey, Shown, ShownIn, Smaller, Live

LEMMA LandsWhere ==
  ASSUME Inv, NEW p \in Process, Commit(p), tx[p].kind \in {"insert", "move"},
         ~ tx[p].moved, ShownByKey
  PROVE  LET t == tx[p]
         IN  /\ t.prev \in Live \cup {None}
             /\ \A r \in DOMAIN t.put : \A s \in DOMAIN t.old \ {r} :
                   Before(t.put[r], order[s])
                   <=> s # t.prev /\ (t.prev # None => Smaller(t.prev, s))
<1> DEFINE t == tx[p]
<1>1. /\ Form(t) /\ PutIs(t, order) /\ Places(t, order, grouped) /\ t.at = "commit"
      /\ None \notin Live
  BY Mine DEF Local, Commit
<1> HIDE DEF t
<1>2. t.kind \in {"insert", "move"} /\ ~ t.moved
  BY DEF t
<1>3. Same(t, order)
  BY <1>1, <1>2 DEF Places
<1>4. \A r \in DOMAIN t.put : LandsAt(t, t.put[r])
  BY <1>1, <1>2, <1>3, ByKeyThen DEF Places
<1>5. \A s \in DOMAIN t.old : s \in Live /\ order[s] = t.old[s]
  BY <1>3 DEF Same, Live
<1>6. t.prev \in DOMAIN t.old \cup {None}
  BY <1>1, <1>2 DEF Form
<1>7. ASSUME NEW r \in DOMAIN t.put, NEW s \in DOMAIN t.old \ {r}
      PROVE  Before(t.put[r], order[s])
             <=> s # t.prev /\ (t.prev # None => Smaller(t.prev, s))
  <2>1. s # t.row
    <3>1. CASE t.kind = "insert"
      BY <1>1, <1>5, <3>1 DEF Form
    <3>2. CASE t.kind = "move"
      BY <1>1, <3>2 DEF PutIs
    <3> QED
      BY <1>2, <3>1, <3>2
  <2>2. Before(t.put[r], t.old[s])
        <=> s # t.prev /\ (t.prev # None => Before(t.old[t.prev], t.old[s]))
    BY <1>4, <2>1 DEF LandsAt
  <2> QED
    BY <1>5, <1>6, <2>2 DEF Smaller
<1> QED
  BY <1>5, <1>6, <1>7 DEF t

LEMMA RefusedFor ==
  ASSUME Inv, NEW p \in Process, Refuse(p)
  PROVE  /\ tx[p].calm /\ ShownByKey => NoRoom(tx[p])
         /\ tx[p].kind = "bulk" => tx[p].created > 1 \/ tx[p].moved
<1> DEFINE t == tx[p]
<1>1. /\ Local(t, order, lastPk, grouped) /\ t \in Tx /\ order \in [Live -> Keys]
      /\ \A r, s \in Live : order[r] = order[s] => r = s
  BY Mine
<1>2. /\ t.at = "write"
      /\ \/ Inconsistent \in Range(t.want)
         \/ /\ Taken(p) /\ Inconsistent \notin Range(t.want)
            /\ t.kind = "bulk" => t.attempt >= 1
  BY DEF Refuse, Conflict, Undisputed, MaxUniqueConstraintRecursions
<1>3. Taken(p) => \/ \E r \in Live \ {t.row} : order[r] \in Range(t.want)
                  \/ t.kind = "update" /\ t.row \notin t.held
  BY DEF Taken, Reinserts
<1> HIDE DEF t
<1>4. /\ Form(t) /\ WantIs(t) /\ Holds(t, order, lastPk) /\ Appends(t, order)
      /\ Places(t, order, grouped) /\ Calm(t, order, grouped)
  BY <1>1 DEF Local
<1>5. t.kind # "idle" /\ t.kind \in AllKinds
  <2>1. t.kind # "idle"
    BY <1>2, <1>4 DEF Form, Idle
  <2> QED
    BY <1>1, <2>1 DEF Tx
<1>6. Len(t.want) \in Nat /\ Range(t.want) = {t.want[i] : i \in 1..Len(t.want)}
  BY <1>1, WantsAre
<1>7. t.attempt \in Nat /\ t.created \in Nat
  BY <1>1 DEF Tx
<1>8. t.kind \in {"append", "bulk"} => Inconsistent \notin Range(t.want)
  <2> HAVE t.kind \in {"append", "bulk"}
  <2>1. t.want \in Seq(Keys)
    BY <1>2, <1>4 DEF WantIs
  <2>2. \A i \in 1..Len(t.want) : t.want[i] \in Keys
    BY <2>1
  <2> QED
    BY <1>6, <2>2, KeyNotInconsistent
(* No key above all rows is taken.                                           *)
<1>9. t.kind \in {"append", "bulk"} /\ ~ t.moved => Taken(p) /\ t.attempt < t.created
  <2> SUFFICES ASSUME t.kind \in {"append", "bulk"}, ~ t.moved
               PROVE  Taken(p) /\ t.attempt < t.created
    OBVIOUS
  <2>1. Taken(p)
    BY <1>2, <1>8
  <2>2. PICK r \in Live : order[r] \in Range(t.want)
    BY <1>3, <2>1
  <2>3. PICK i \in 1..Len(t.want) : order[r] = t.want[i]
    BY <1>6, <2>2
  <2>4. ~ Before(order[r], t.want[i])
    BY <1>1, <2>3, KeysDiffer
  <2>5. t.attempt <= t.created
        /\ (t.created = t.attempt => \A s \in Live : Before(order[s], t.want[i]))
    BY <1>2, <1>4 DEF Appends, Live
  <2> QED
    BY <1>7, <2>1, <2>4, <2>5
<1>10. t.kind = "bulk" => t.created > 1 \/ t.moved
  BY <1>2, <1>7, <1>8, <1>9
<1>11. ASSUME t.calm, ShownByKey PROVE NoRoom(t)
  <2>1. t.old = order /\ t.created = 0 /\ ~ t.moved
    BY <1>4, <1>5, <1>11 DEF Calm
  <2>2. ByKey(t.old, grouped)
    BY <1>11, <2>1, ByKeyThen DEF Same
  <2>3. CASE t.kind \in {"append", "bulk"}
    BY <1>7, <1>9, <2>1, <2>3
  <2>4. CASE t.kind = "delete"
    <3>1. Range(t.want) = {}
      BY <1>2, <1>4, <1>6, <2>4 DEF WantIs
    <3> QED
      BY <1>2, <1>3, <2>4, <3>1
  <2>5. CASE t.kind \in KindsOfOne
    <3>1. Range(t.want) = {t.want[1]}
      <4>1. Len(t.want) = 1
        BY <1>2, <1>4, <2>5 DEF WantIs
      <4> QED
        BY <1>6, <4>1
    <3>2. CASE t.kind = "update"
      <4>1. t.row \in t.held /\ t.want[1] = order[t.row] /\ t.row \in Live
        BY <1>2, <1>4, <1>5, <1>11, <3>2 DEF Calm, Holds, Live
      <4>2. order[t.row] # Inconsistent
        BY <1>1, <4>1, KeyNotInconsistent
      <4> QED
        BY <1>1, <1>2, <1>3, <3>1, <4>1, <4>2
    <3>3. CASE t.kind \in {"insert", "move"}
      <4>1. t.want[1] # Inconsistent => LandsAt(t, t.want[1])
        BY <1>2, <1>4, <2>1, <2>2, <3>3 DEF Places
      <4>2. t.want[1] = Inconsistent => NoRoomIn(t, t.old)
        BY <1>2, <1>4, <1>5, <1>11, <2>2, <3>3 DEF Calm
      <4>3. t.want[1] = Inconsistent
        <5> SUFFICES ASSUME t.want[1] # Inconsistent PROVE FALSE
          OBVIOUS
        <5>1. PICK r \in Live \ {t.row} : order[r] = t.want[1]
          BY <1>2, <1>3, <3>1, <3>3
        <5> QED
          BY <2>1, <4>1, <5>1 DEF LandsAt, Live
      <4> QED
        BY <2>1, <3>3, <4>2, <4>3 DEF NoRoom, NoRoomIn, Smaller, Live
    <3> QED
      BY <2>5, <3>2, <3>3 DEF KindsOfOne
  <2> QED
    BY <1>5, <2>3, <2>4, <2>5 DEF AllKinds, KindsOfOne
<1> QED
  BY <1>10, <1>11 DEF t

(* A request that no other overlapped is refused only where there is no key, *)
(* and a bulk create only if two requests that created rows came in between: *)
(* one retry makes good one conflict (managers.py:13-19, 166-179).           *)
THEOREM RefusedForAReasonCorrect == Spec => RefusedForAReason
<1>1. Inv /\ [Next]_vars =>
        [\A p \in Process :
           Refuse(p) =>
             /\ tx[p].calm /\ ShownByKey => NoRoom(tx[p])
             /\ tx[p].kind = "bulk" => tx[p].created > 1 \/ tx[p].moved]_vars
  BY RefusedFor
<1> QED
  BY <1>1, TableInvCorrect, PTL DEF Spec, RefusedForAReason

(* What is appended, by one request or by many at once, goes after all the   *)
(* rows there were when the request began, in the order given, unless rows   *)
(* were moved or deleted meanwhile (serializers.py:104-113, managers.py:73). *)
THEOREM AppendsGoLastCorrect == Spec => AppendsGoLast
<1>1. Inv /\ [Next]_vars =>
        [\A p \in Process :
          Commit(p) /\ tx[p].kind \in {"append", "bulk"} /\ ~ tx[p].moved =>
             \A r \in DOMAIN tx[p].put :
                /\ \A s \in DOMAIN tx[p].old : Before(order[s], tx[p].put[r])
                /\ \A s \in DOMAIN tx[p].put :
                      s < r => Before(tx[p].put[s], tx[p].put[r])]_vars
  BY AppendsThere
<1> QED
  BY <1>1, TableInvCorrect, PTL DEF Spec, AppendsGoLast

(* A row that is inserted or moved lands right after the row named, or at    *)
(* the top, among the rows there were when the request began, whatever was   *)
(* created meanwhile and whatever others did once it had locked the table    *)
(* (serializers.py:59-80, 115-146).                                          *)
THEOREM LandsWhereAskedCorrect == Spec => LandsWhereAsked
<1>1. Inv /\ [Next]_vars =>
        [\A p \in Process :
          LET t == tx[p]
          IN  /\ Commit(p) /\ t.kind \in {"insert", "move"} /\ ~ t.moved /\ ShownByKey
              => /\ t.prev \in Live \cup {None}
                 /\ \A r \in DOMAIN t.put : \A s \in DOMAIN t.old \ {r} :
                       Before(t.put[r], order[s])
                       <=> s # t.prev /\ (t.prev # None => Smaller(t.prev, s))]_vars
  BY LandsWhere
<1> QED
  BY <1>1, TableInvCorrect, PTL DEF Spec, LandsWhereAsked

================================================================================
