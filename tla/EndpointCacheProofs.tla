-------------------------- MODULE EndpointCacheProofs --------------------------
(* Theorems about the cached responses, for any tree of rows, any number of  *)
(* users and edits.                                                          *)
EXTENDS EndpointCache, TLAPS, FiniteSetTheorems, WellFoundedInduction

-------------------------------------------------------------------------------
(* The rows above a row. *)

Above(x) == IF x = Budget THEN {} ELSE {ParentOf[x]}

LEMMA ParentIsRow ==
  ASSUME NEW x \in Row
  PROVE  Above(x) \subseteq Row
BY EndpointCacheAssumption DEF Above, Row

(* What is true of a row whenever it is true of the one above, and of the    *)
(* budget, is true of all.                                                   *)
LEMMA TreeInduction ==
  ASSUME NEW S \in SUBSET Row, Budget \in S,
         \A x \in Row \ {Budget} : ParentOf[x] \in S => x \in S
  PROVE  S = Row
<1> SUFFICES ASSUME Row \ S # {} PROVE FALSE
  OBVIOUS
<1>1. Row \ S \in SUBSET (Account \cup SubAccount)
  BY DEF Row
<1>2. PICK x \in Row \ S : ParentOf[x] \notin Row \ S
  BY <1>1, EndpointCacheAssumption
<1>3. x # Budget /\ ParentOf[x] \in Row
  BY <1>2, ParentIsRow DEF Above
<1> QED
  BY <1>2, <1>3

(* up climbs from each row to the budget and gathers what mine gives each.   *)
Climbs(up, mine) ==
  up = [x \in Row |-> mine[x] \cup IF x = Budget THEN {} ELSE up[ParentOf[x]]]

LEMMA ClimbsAre ==
  ASSUME NEW up, NEW mine, Climbs(up, mine), NEW x \in Row
  PROVE  up[x] = mine[x] \cup IF x = Budget THEN {} ELSE up[ParentOf[x]]
BY DEF Climbs

LEMMA ClimbUnique ==
  ASSUME NEW f, NEW g, NEW mine, Climbs(f, mine), Climbs(g, mine)
  PROVE  f = g
<1> DEFINE S == {x \in Row : f[x] = g[x]}
<1>1. Budget \in Row
  BY DEF Row
<1>2. Budget \in S
  <2>1. f[Budget] = mine[Budget] \cup {} /\ g[Budget] = mine[Budget] \cup {}
    BY <1>1, ClimbsAre
  <2> QED
    BY <1>1, <2>1
<1>3. \A x \in Row \ {Budget} : ParentOf[x] \in S => x \in S
  <2> SUFFICES ASSUME NEW x \in Row \ {Budget}, ParentOf[x] \in S PROVE x \in S
    OBVIOUS
  <2>1. f[x] = mine[x] \cup f[ParentOf[x]] /\ g[x] = mine[x] \cup g[ParentOf[x]]
    BY ClimbsAre
  <2> QED
    BY <2>1
<1>4. S = Row
  <2> HIDE DEF S
  <2>1. S \in SUBSET Row
    BY DEF S
  <2> QED
    BY <1>2, <1>3, <2>1, TreeInduction
<1>5. \A x \in Row : f[x] = g[x]
  BY <1>4
<1>6. f = [x \in Row |-> f[x]] /\ g = [x \in Row |-> g[x]]
  BY DEF Climbs
<1> QED
  BY <1>5, <1>6

(* x and the rows above it, as the rows that are in every set that holds x   *)
(* and with a row the one above it.                                          *)
Closed(S) == \A z \in S \ {Budget} : ParentOf[z] \in S
Ancestors(x) == {y \in Row : \A S \in SUBSET Row : x \in S /\ Closed(S) => y \in S}

LEMMA AncestorsClimb ==
  ASSUME NEW x \in Row
  PROVE  Ancestors(x) = {x} \cup IF x = Budget THEN {} ELSE Ancestors(ParentOf[x])
<1>1. CASE x = Budget
  <2>1. {x} \in SUBSET Row /\ Closed({x})
    BY <1>1 DEF Closed
  <2>2. Ancestors(x) \subseteq {x}
    BY <2>1 DEF Ancestors
  <2>3. x \in Ancestors(x)
    BY DEF Ancestors
  <2> QED
    BY <1>1, <2>2, <2>3
<1>2. CASE x # Budget
  <2> DEFINE p == ParentOf[x]
  <2>1. p \in Row
    BY <1>2, ParentIsRow DEF Above
  <2>2. Ancestors(x) \subseteq {x} \cup Ancestors(p)
    <3> SUFFICES ASSUME NEW y \in Ancestors(x), y # x, NEW S \in SUBSET Row,
                        p \in S, Closed(S)
                 PROVE  y \in S
      BY DEF Ancestors
    <3>1. S \cup {x} \in SUBSET Row /\ Closed(S \cup {x})
      BY DEF Closed
    <3> QED
      BY <3>1 DEF Ancestors
  <2>3. x \in Ancestors(x)
    BY DEF Ancestors
  <2>4. Ancestors(p) \subseteq Ancestors(x)
    <3> SUFFICES ASSUME NEW y \in Ancestors(p), NEW S \in SUBSET Row,
                        x \in S, Closed(S)
                 PROVE  y \in S
      BY DEF Ancestors
    <3>1. p \in S
      BY <1>2 DEF Closed
    <3> QED
      BY <3>1 DEF Ancestors
  <2> QED
    BY <1>2, <2>2, <2>3, <2>4
<1> QED
  BY <1>1, <1>2

LEMMA ChainIs ==
  ASSUME NEW r \in Row
  PROVE  Chain(r) = Ancestors(r)
<1> DEFINE mine == [x \in Row |-> {x}]
           f == [x \in Row |-> Ancestors(x)]
           up == CHOOSE g : g = [x \in Row |-> {x} \cup IF x = Budget THEN {}
                                                        ELSE g[ParentOf[x]]]
<1>1. \A x \in Row : f[x] = mine[x] \cup IF x = Budget THEN {} ELSE f[ParentOf[x]]
  <2> SUFFICES ASSUME NEW x \in Row
               PROVE  f[x] = {x} \cup IF x = Budget THEN {} ELSE f[ParentOf[x]]
    OBVIOUS
  <2>1. x # Budget => ParentOf[x] \in Row
    BY ParentIsRow DEF Above
  <2> QED
    BY <2>1, AncestorsClimb
<1>2. Climbs(f, mine)
  BY <1>1 DEF Climbs
<1>3. f = [x \in Row |-> {x} \cup IF x = Budget THEN {} ELSE f[ParentOf[x]]]
  BY <1>1
<1>4. up = [x \in Row |-> {x} \cup IF x = Budget THEN {} ELSE up[ParentOf[x]]]
  <2> HIDE DEF f
  <2> QED
    BY <1>3
<1> HIDE DEF up
<1>5. Climbs(up, mine)
  BY <1>4 DEF Climbs
<1>6. up = f
  <2> HIDE DEF f, mine
  <2> QED
    BY <1>2, <1>5, ClimbUnique
<1>7. Chain(r) = up[r]
  BY DEF Chain, up
<1> QED
  BY <1>6, <1>7

(* What the dependencies declared between the caches reach from a row is its *)
(* detail and those of all rows above it.                                    *)
LEMMA DependenciesReach ==
  ASSUME NEW r \in Row
  PROVE  InvalidateDetail(r) = DetailsChanged(r)
<1> DEFINE mine == [x \in Row |-> {Detail(x)}]
           f == [x \in Row |-> {Detail(y) : y \in Ancestors(x)}]
           up == CHOOSE g : g = [x \in Row |-> {Detail(x)} \cup IF x = Budget THEN {}
                                                        ELSE g[ParentOf[x]]]
<1>1. \A x \in Row : f[x] = {Detail(x)} \cup IF x = Budget THEN {} ELSE f[ParentOf[x]]
  <2> SUFFICES ASSUME NEW x \in Row
               PROVE  f[x] = {Detail(x)} \cup IF x = Budget THEN {} ELSE f[ParentOf[x]]
    OBVIOUS
  <2>1. CASE x = Budget
    <3>1. Ancestors(x) = {x}
      BY <2>1, AncestorsClimb
    <3> QED
      BY <2>1, <3>1
  <2>2. CASE x # Budget
    <3>1. ParentOf[x] \in Row
      BY <2>2, ParentIsRow DEF Above
    <3>2. Ancestors(x) = {x} \cup Ancestors(ParentOf[x])
      BY <2>2, AncestorsClimb
    <3>3. f[x] = {Detail(y) : y \in Ancestors(x)}
      OBVIOUS
    <3>4. f[ParentOf[x]] = {Detail(y) : y \in Ancestors(ParentOf[x])}
      BY <3>1
    <3> HIDE DEF f
    <3> QED
      BY <2>2, <3>2, <3>3, <3>4
  <2> QED
    BY <2>1, <2>2
<1>2. f = [x \in Row |-> {Detail(x)} \cup IF x = Budget THEN {} ELSE f[ParentOf[x]]]
  <2>1. f = [x \in Row |-> f[x]]
    OBVIOUS
  <2> HIDE DEF f
  <2> QED
    BY <1>1, <2>1
<1>3. up = [x \in Row |-> {Detail(x)} \cup IF x = Budget THEN {} ELSE up[ParentOf[x]]]
  <2> HIDE DEF f
  <2> QED
    BY <1>2
<1>4. InvalidateDetail(r) = up[r]
  BY DEF InvalidateDetail
<1>5. f[r] = {Detail(y) : y \in Chain(r)}
  BY ChainIs
<1> HIDE DEF up, f
<1>6. Climbs(f, mine) /\ Climbs(up, mine)
  BY <1>2, <1>3 DEF Climbs
<1>7. up = f
  <2> HIDE DEF mine
  <2> QED
    BY <1>6, ClimbUnique
<1> QED
  BY <1>4, <1>5, <1>7 DEF DetailsChanged

LEMMA ChangedAreEndpoints ==
  ASSUME NEW r \in Row
  PROVE  DetailsChanged(r) \subseteq Endpoint
<1>1. Chain(r) \subseteq Row
  BY ChainIs DEF Ancestors
<1>2. \A x \in Row : Detail(x) \in Endpoint
  BY DEF Detail, Endpoint
<1> QED
  BY <1>1, <1>2 DEF DetailsChanged


(* What an edit says of the rows themselves it also names, in requests that  *)
(* avoid the situations.                                                     *)
EditIs(e) == /\ e.changed \in SUBSET Endpoint /\ e.around \in SUBSET Endpoint
             /\ e.stale \in SUBSET Endpoint
             /\ Situations \subseteq Avoided => e.changed \subseteq e.stale

LEMMA Names ==
  ASSUME NEW c \in SUBSET Endpoint, NEW n \in SUBSET Endpoint, NEW st \in SUBSET Endpoint,
         Situations \subseteq Avoided => c \subseteq st
  PROVE  EditIs(Edit(c, n, st))
BY DEF Edit, EditIs

LEMMA EditsAre ==
  ASSUME NEW e \in Edits
  PROVE  EditIs(e)
<1>1. \A r \in Row \ {Budget} : ParentOf[r] \in Row
  BY ParentIsRow DEF Above
<1>2. /\ \A r \in Row : DetailsChanged(r) \subseteq Endpoint
      /\ \A r \in Row : InvalidateDetail(r) = DetailsChanged(r)
  BY ChangedAreEndpoints, DependenciesReach
<1>3. \A r \in Row : /\ GroupsOf(r) \in Endpoint /\ MarkupsOf(r) \in Endpoint
                     /\ Detail(r) \in Endpoint
  BY DEF GroupsOf, MarkupsOf, Detail, Endpoint
<1>4. Budget \in Row /\ Detail(Budget) \in Endpoint /\ FringesOf(Budget) \in Endpoint
  BY DEF Row, Detail, FringesOf, Endpoint
<1>5. DetailsChanged(Budget) = {Detail(Budget)}
  <2>1. Chain(Budget) = {Budget}
    BY <1>4, ChainIs, AncestorsClimb
  <2> QED
    BY <2>1 DEF DetailsChanged
<1>6. SubAccount \subseteq Row /\ Account \subseteq Row
  BY DEF Row
<1>7. \A r \in Row : Mentions(r) \subseteq Endpoint
  BY <1>3 DEF Mentions, Children, Below
<1>8. CASE e \in {SaveRow(r) : r \in Row \ {Budget}}
  <2>1. PICK r \in Row \ {Budget} : e = SaveRow(r)
    BY <1>8
  <2> QED
    BY Names, <1>1, <1>2, <1>3, <1>7, <2>1 DEF SaveRow
<1>9. ASSUME NEW r \in Row \ {Budget}, NEW linked \in BOOLEAN, e = DeleteRow(r, linked),
             linked => "markup link" \notin Avoided
      PROVE  EditIs(e)
  <2> DEFINE l == IF linked THEN {MarkupsOf(ParentOf[r])} ELSE {}
             below == {GroupsOf(x) : x \in Below(r)} \cup {MarkupsOf(x) : x \in Below(r)}
  <2>1. below \subseteq Endpoint
    BY <1>3 DEF Below
  <2>2. l \subseteq Endpoint /\ (Situations \subseteq Avoided => l = {})
    BY <1>1, <1>3, <1>9 DEF Situations
  <2>3. e = Edit(DetailsChanged(r) \cup {GroupsOf(ParentOf[r])} \cup l, Mentions(r) \cup below,
                 InvalidateDetail(r) \cup {GroupsOf(ParentOf[r])})
    BY <1>9 DEF DeleteRow
  <2> HIDE DEF l, below
  <2> QED
    BY Names, <1>1, <1>2, <1>3, <1>7, <2>1, <2>2, <2>3
<1>10. CASE e \in {DeleteRow(r, FALSE) : r \in Row \ {Budget}}
  BY <1>9, <1>10
<1>11. CASE e \in {DeleteRow(r, TRUE) : r \in Unless("markup link", Row \ {Budget})}
  BY <1>9, <1>11 DEF Unless
<1>12. CASE e \in {AddChild(p) : p \in Row}
  <2>1. PICK p \in Row : e = AddChild(p)
    BY <1>12
  <2>2. {Detail(x) : x \in Children(p)} \subseteq Endpoint
    BY <1>3 DEF Children
  <2> QED
    BY Names, <1>2, <1>3, <2>1, <2>2 DEF AddChild
<1>13. CASE e \in {SaveGroup(p) : p \in Row}
  BY Names, <1>3, <1>13 DEF SaveGroup
<1>14. CASE e \in {SaveFlatMarkup(p) : p \in {Budget} \cup Unless("nested markup", Row)}
  <2>1. PICK p \in Row : e = SaveFlatMarkup(p) /\ ("nested markup" \in Avoided => p = Budget)
    BY <1>4, <1>14 DEF Unless
  <2>2. Situations \subseteq Avoided => p = Budget
    BY <2>1 DEF Situations
  <2> QED
    BY Names, <1>2, <1>3, <1>4, <1>5, <2>1, <2>2 DEF SaveFlatMarkup
<1>15. CASE e \in {SavePercentMarkup(r) : r \in Row \ {Budget}}
  <2>1. PICK r \in Row \ {Budget} : e = SavePercentMarkup(r)
    BY <1>15
  <2> QED
    BY Names, <1>1, <1>2, <1>3, <1>4, <2>1 DEF SavePercentMarkup
<1>16. CASE e \in {LinkMarkup(r) : r \in SubAccount \cup Unless("markup link", Account)}
  <2>1. PICK r \in SubAccount \cup Account :
          e = LinkMarkup(r) /\ ("markup link" \in Avoided => r \in SubAccount)
    BY <1>16 DEF Unless
  <2>2. Situations \subseteq Avoided => r \in SubAccount
    BY <2>1 DEF Situations
  <2>3. r \in Row /\ ParentOf[r] \in Row
    BY <1>1, <1>6, EndpointCacheAssumption
  <2> QED
    BY Names, <1>2, <1>3, <1>4, <2>1, <2>2, <2>3 DEF LinkMarkup
<1>17. CASE e \in {SaveActual(r) : r \in Row \ {Budget}}
  BY Names, <1>2, <1>17 DEF SaveActual
<1>18. CASE e \in {SaveActualOfMarkup(p) : p \in Unless("markup actual", Row)}
  <2>1. PICK p \in Row : e = SaveActualOfMarkup(p) /\ "markup actual" \notin Avoided
    BY <1>18 DEF Unless
  <2>2. ~ (Situations \subseteq Avoided)
    BY <2>1 DEF Situations
  <2> QED
    BY Names, <1>2, <1>3, <2>1, <2>2 DEF SaveActualOfMarkup
<1>19. CASE e \in {SaveFringe(R) : R \in SUBSET SubAccount}
  <2>1. PICK R \in SUBSET SubAccount : e = SaveFringe(R)
    BY <1>19
  <2> DEFINE c == UNION {DetailsChanged(r) : r \in R}
             st == UNION {InvalidateDetail(r) : r \in R}
  <2>2. c \subseteq Endpoint /\ c = st
    BY <1>2, <1>6, <2>1
  <2> DEFINE none == {}
  <2>3. e.around = none
    BY <2>1 DEF SaveFringe, Edit
  <2>5. \A x : x \in e.changed <=> x \in c \/ x = FringesOf(Budget)
    BY <2>1 DEF SaveFringe, Edit
  <2>6. \A x : x \in e.stale <=> x \in st \/ x = FringesOf(Budget)
    BY <2>1 DEF SaveFringe, Edit
  <2>4. none \in SUBSET Endpoint
    OBVIOUS
  <2> HIDE DEF c, st, none
  <2> QED
    BY <1>4, <2>2, <2>3, <2>4, <2>5, <2>6 DEF EditIs
<1>20. CASE e \in {DeleteContact(r) : r \in Unless("contact", SubAccount)}
  <2>1. PICK r \in SubAccount : e = DeleteContact(r) /\ "contact" \notin Avoided
    BY <1>20 DEF Unless
  <2>2. ~ (Situations \subseteq Avoided)
    BY <2>1 DEF Situations
  <2> QED
    BY Names, <1>3, <1>6, <2>1, <2>2 DEF DeleteContact
<1>21. CASE e = SaveBudget
  <2>1. {Detail(x) : x \in Row \ {Budget}} \subseteq Endpoint
    BY <1>3
  <2> QED
    BY Names, <1>4, <1>21, <2>1 DEF SaveBudget
<1>22. CASE e = DeleteBudget
  BY Names, <1>4, <1>22 DEF DeleteBudget
<1> QED
  BY <1>8, <1>10, <1>11, <1>12, <1>13, <1>14, <1>15, <1>16, <1>17, <1>18, <1>19, <1>20,
     <1>21, <1>22 DEF Edits

-------------------------------------------------------------------------------
(* Edits are numbered as they commit: an edit under way leaves a number free *)
(* for itself.                                                               *)

Busy == {u \in User : edit[u].at # "idle"}

LEMMA Least ==
  ASSUME NEW T \in SUBSET Nat, T # {}
  PROVE  \E x \in T : \A y \in T : x <= y
<1>1. IsWellFoundedOn(OpToRel(<, Nat), Nat)
  BY NatLessThanWellFounded
<1>2. PICK x \in T : \A y \in T : <<y, x>> \notin OpToRel(<, Nat)
  BY <1>1, WFMin
<1>3. \A y \in T : ~ (y < x)
  BY <1>2 DEF OpToRel
<1> QED
  BY <1>3

LastNumber ==
  CHOOSE n \in 0..MaxEdits :
     /\ \A e \in Endpoint : content[e] <= n
     /\ n = 0 \/ \E e \in Endpoint : content[e] = n

LEMMA LastNumberIs ==
  ASSUME content \in [Endpoint -> 0..MaxEdits]
  PROVE  /\ LastNumber \in 0..MaxEdits
         /\ \A e \in Endpoint : content[e] <= LastNumber
         /\ LastNumber = 0 \/ \E e \in Endpoint : content[e] = LastNumber
<1> DEFINE Is(n) == /\ \A e \in Endpoint : content[e] <= n
                    /\ n = 0 \/ \E e \in Endpoint : content[e] = n
           T == {n \in 0..MaxEdits : \A e \in Endpoint : content[e] <= n}
<1>1. MaxEdits \in Nat
  BY EndpointCacheAssumption
<1>2. \A e \in Endpoint : content[e] \in 0..MaxEdits
  OBVIOUS
<1>3. PICK n \in T : \A m \in T : n <= m
  <2>1. T \in SUBSET Nat /\ MaxEdits \in T
    BY <1>1, <1>2
  <2> HIDE DEF T
  <2> QED
    BY <2>1, Least
<1>4. n \in 0..MaxEdits /\ Is(n)
  <2> SUFFICES ASSUME n # 0, \A e \in Endpoint : content[e] # n PROVE FALSE
    BY <1>1, <1>3
  <2>1. n - 1 \in T
    <3>1. n - 1 \in 0..MaxEdits
      BY <1>1, <1>3
    <3>2. \A e \in Endpoint : content[e] <= n - 1
      BY <1>1, <1>2, <1>3
    <3> QED
      BY <3>1, <3>2
  <2> QED
    BY <1>1, <1>3, <2>1
<1>5. LastNumber = CHOOSE m \in 0..MaxEdits : Is(m)
  BY DEF LastNumber
<1> HIDE DEF Is
<1>6. LastNumber \in 0..MaxEdits /\ Is(LastNumber)
  BY <1>4, <1>5
<1> QED
  BY <1>6 DEF Is

(* What is kept, read or numbered is of the right kind.                      *)
TypeInv ==
  /\ TypeOK
  /\ \A u \in User : get[u].at = "store" => get[u].key \in Key /\ get[u].body \in -1..MaxEdits
  /\ IsFiniteSet(Busy)
  /\ \A e \in Endpoint : content[e] + Cardinality(Busy) <= edits

LEMMA InitTypeInv == Init => TypeInv
<1> SUFFICES ASSUME Init PROVE TypeInv
  OBVIOUS
<1>1. MaxEdits \in Nat
  BY EndpointCacheAssumption
<1>2. TypeOK
  <2>1. content \in [Endpoint -> 0..MaxEdits] /\ edits \in 0..MaxEdits
    BY <1>1 DEF Init
  <2>2. /\ cached \in [User -> [Key -> -1..MaxEdits \cup {None}]]
        /\ own \in [User -> [Endpoint -> 0..MaxEdits]]
        /\ beside \in [User -> [Endpoint -> 0..MaxEdits]]
    BY <1>1 DEF Init
  <2>3. get \in [User -> [at : {"idle", "store"}, key : Key \cup {None},
                          body : -1..MaxEdits \cup {None}]]
    BY DEF Init, NoGet
  <2>4. edit \in [User -> [at : {"idle", "work", "commit"}, changed : SUBSET Endpoint,
                           around : SUBSET Endpoint, stale : SUBSET Endpoint]]
    BY DEF Init, NoEdit
  <2> QED
    BY <2>1, <2>2, <2>3, <2>4 DEF TypeOK
<1>3. Busy = {}
  BY DEF Init, NoEdit, Busy
<1>4. IsFiniteSet(Busy) /\ Cardinality(Busy) = 0
  BY <1>3, FS_EmptySet
<1>5. \A e \in Endpoint : content[e] + Cardinality(Busy) <= edits
  BY <1>4 DEF Init
<1>6. \A u \in User : get[u].at # "store"
  BY DEF Init, NoGet
<1> QED
  BY <1>2, <1>4, <1>5, <1>6 DEF TypeInv


LEMMA NextTypeInv == TypeInv /\ [Next]_vars => TypeInv'
<1> SUFFICES ASSUME TypeInv, [Next]_vars PROVE TypeInv'
  OBVIOUS
<1>1. /\ MaxEdits \in Nat /\ None \notin Int
      /\ content \in [Endpoint -> 0..MaxEdits]
      /\ cached \in [User -> [Key -> -1..MaxEdits \cup {None}]]
      /\ get \in [User -> [at : {"idle", "store"}, key : Key \cup {None},
                           body : -1..MaxEdits \cup {None}]]
      /\ edit \in [User -> [at : {"idle", "work", "commit"}, changed : SUBSET Endpoint,
                            around : SUBSET Endpoint, stale : SUBSET Endpoint]]
      /\ own \in [User -> [Endpoint -> 0..MaxEdits]]
      /\ beside \in [User -> [Endpoint -> 0..MaxEdits]]
      /\ edits \in 0..MaxEdits
  BY EndpointCacheAssumption DEF TypeInv, TypeOK
<1>2. /\ \A u \in User : get[u].at = "store" => get[u].key \in Key /\ get[u].body \in -1..MaxEdits
      /\ IsFiniteSet(Busy) /\ Cardinality(Busy) \in Nat
      /\ \A e \in Endpoint : content[e] + Cardinality(Busy) <= edits
  BY FS_CardinalityType DEF TypeInv
<1>3. ASSUME NEW u \in User, NEW k \in Key, Miss(u, k)
      PROVE  TypeInv'
  <2>1. PICK body \in {content[k[1]]} \cup {ErrorBody} :
          get' = [get EXCEPT ![u] = [at |-> "store", key |-> k, body |-> body]]
    BY <1>3 DEF Miss
  <2>2. content' = content /\ cached' = cached /\ edit' = edit /\ own' = own /\ beside' = beside /\ edits' = edits
    BY <1>3 DEF Miss
  <2>3. k[1] \in Endpoint
    BY DEF Key
  <2>4. body \in -1..MaxEdits
    BY <1>1, <2>3 DEF ErrorBody
  <2>5. get' \in [User -> [at : {"idle", "store"}, key : Key \cup {None},
                           body : -1..MaxEdits \cup {None}]]
    BY <1>1, <2>1, <2>4
  <2>6. \A v \in User : get'[v].at = "store" => get'[v].key \in Key /\ get'[v].body \in -1..MaxEdits
    BY <1>1, <1>2, <2>1, <2>4
  <2>7. Busy' = Busy
    BY <2>2 DEF Busy
  <2> QED
    BY <1>1, <1>2, <2>2, <2>5, <2>6, <2>7 DEF TypeInv, TypeOK
<1>4. ASSUME NEW u \in User, Store(u)
      PROVE  TypeInv'
  <2>1. /\ get[u].at = "store" /\ cached' = [cached EXCEPT ![u][get[u].key] = get[u].body]
        /\ get' = [get EXCEPT ![u] = NoGet]
        /\ content' = content /\ edit' = edit /\ own' = own /\ beside' = beside /\ edits' = edits
    BY <1>4 DEF Store
  <2>2. cached' \in [User -> [Key -> -1..MaxEdits \cup {None}]]
    BY <1>1, <1>2, <2>1
  <2>3. get' \in [User -> [at : {"idle", "store"}, key : Key \cup {None},
                           body : -1..MaxEdits \cup {None}]]
    BY <1>1, <2>1 DEF NoGet
  <2>4. \A v \in User : get'[v].at = "store" => get'[v].key \in Key /\ get'[v].body \in -1..MaxEdits
    BY <1>1, <1>2, <2>1 DEF NoGet
  <2>5. Busy' = Busy
    BY <2>1 DEF Busy
  <2> QED
    BY <1>1, <1>2, <2>1, <2>2, <2>3, <2>4, <2>5 DEF TypeInv, TypeOK
<1>5. ASSUME NEW u \in User, BeginEdit(u)
      PROVE  TypeInv'
  <2>1. PICK e \in Edits :
          edit' = [edit EXCEPT ![u] = [at |-> "work", changed |-> e.changed,
                                       around |-> e.around, stale |-> e.stale]]
    BY <1>5 DEF BeginEdit
  <2>2. /\ edit[u].at = "idle" /\ edits < MaxEdits /\ edits' = edits + 1
        /\ content' = content /\ cached' = cached /\ get' = get /\ own' = own
        /\ beside' = beside
    BY <1>5 DEF BeginEdit
  <2>3. /\ e.changed \in SUBSET Endpoint /\ e.around \in SUBSET Endpoint
        /\ e.stale \in SUBSET Endpoint
    BY EditsAre DEF EditIs
  <2>4. edit' \in [User -> [at : {"idle", "work", "commit"}, changed : SUBSET Endpoint,
                            around : SUBSET Endpoint, stale : SUBSET Endpoint]]
    BY <1>1, <2>1, <2>3
  <2>5. edits' \in 0..MaxEdits
    BY <1>1, <2>2
  <2>6. Busy' = Busy \cup {u} /\ u \notin Busy
    BY <1>1, <2>1, <2>2 DEF Busy
  <2>7. IsFiniteSet(Busy') /\ Cardinality(Busy') = Cardinality(Busy) + 1
    BY <1>2, <2>6, FS_AddElement
  <2>8. \A x \in Endpoint : content'[x] + Cardinality(Busy') <= edits'
    BY <1>1, <1>2, <2>2, <2>7
  <2> QED
    BY <1>1, <1>2, <2>2, <2>4, <2>5, <2>7, <2>8 DEF TypeInv, TypeOK
<1>6. ASSUME NEW u \in User, Invalidate(u)
      PROVE  TypeInv'
  <2>1. /\ edit[u].at = "work" /\ edit' = [edit EXCEPT ![u].at = "commit"]
        /\ content' = content /\ get' = get /\ own' = own /\ beside' = beside /\ edits' = edits
    BY <1>6 DEF Invalidate
  <2>2. cached' \in [User -> [Key -> -1..MaxEdits \cup {None}]]
    <3> DEFINE old == cached[u]
               new == [k \in Key |-> IF k \in {Plain(e) : e \in edit[u].stale}
                                     THEN None ELSE old[k]]
    <3>1. cached' = [cached EXCEPT ![u] = new]
      BY <1>1, <1>6 DEF Invalidate
    <3>2. old \in [Key -> -1..MaxEdits \cup {None}]
      BY <1>1
    <3>3. new \in [Key -> -1..MaxEdits \cup {None}]
      BY <3>2
    <3> HIDE DEF new
    <3> QED
      BY <1>1, <3>1, <3>3
  <2>3. edit' \in [User -> [at : {"idle", "work", "commit"}, changed : SUBSET Endpoint,
                            around : SUBSET Endpoint, stale : SUBSET Endpoint]]
    <3> DEFINE E == [at : {"idle", "work", "commit"}, changed : SUBSET Endpoint,
                     around : SUBSET Endpoint, stale : SUBSET Endpoint]
    <3>1. edit[u] \in E
      BY <1>1
    <3>2. [edit[u] EXCEPT !.at = "commit"] \in E
      BY <3>1
    <3>3. edit' \in [User -> E]
      <4> HIDE DEF E
      <4> QED
        BY <1>1, <2>1, <3>2 DEF E
    <3> QED
      BY <3>3
  <2>4. Busy' = Busy
    BY <1>1, <2>1 DEF Busy
  <2> QED
    BY <1>1, <1>2, <2>1, <2>2, <2>3, <2>4 DEF TypeInv, TypeOK
<1>7. ASSUME NEW u \in User, edit[u].at # "idle", edit' = [edit EXCEPT ![u] = NoEdit]
      PROVE  /\ edit' \in [User -> [at : {"idle", "work", "commit"}, changed : SUBSET Endpoint,
                                    around : SUBSET Endpoint, stale : SUBSET Endpoint]]
             /\ IsFiniteSet(Busy') /\ Cardinality(Busy') = Cardinality(Busy) - 1
             /\ 1 <= Cardinality(Busy)
  <2>1. edit' \in [User -> [at : {"idle", "work", "commit"}, changed : SUBSET Endpoint,
                            around : SUBSET Endpoint, stale : SUBSET Endpoint]]
    <3> DEFINE E == [at : {"idle", "work", "commit"}, changed : SUBSET Endpoint,
                     around : SUBSET Endpoint, stale : SUBSET Endpoint]
    <3>1. NoEdit \in E
      BY DEF NoEdit
    <3>2. edit \in [User -> E]
      BY <1>1
    <3>3. edit' \in [User -> E]
      <4> HIDE DEF E
      <4> QED
        BY <1>7, <3>1, <3>2
    <3> QED
      BY <3>3
  <2>2. Busy' = Busy \ {u} /\ u \in Busy
    BY <1>1, <1>7 DEF Busy, NoEdit
  <2>3. IsFiniteSet(Busy') /\ Cardinality(Busy') = Cardinality(Busy) - 1
    BY <1>2, <2>2, FS_RemoveElement
  <2>4. Cardinality(Busy) # 0
    BY <1>2, <2>2, FS_EmptySet
  <2> QED
    BY <1>2, <2>1, <2>3, <2>4
<1>8. ASSUME NEW u \in User, Commit(u)
      PROVE  TypeInv'
  <2> DEFINE n == 1 + LastNumber
             all == edit[u].changed \cup edit[u].around
             seen == [e \in Endpoint |-> IF e \in edit[u].changed THEN n ELSE own[u][e]]
             by == [e \in Endpoint |-> IF e \in edit[u].around THEN n ELSE beside[u][e]]
  <2>1. /\ edit[u].at = "commit" /\ edit' = [edit EXCEPT ![u] = NoEdit]
        /\ content' = [e \in Endpoint |-> IF e \in all THEN n ELSE content[e]]
        /\ own' = [own EXCEPT ![u] = seen] /\ beside' = [beside EXCEPT ![u] = by]
        /\ cached' = cached /\ get' = get /\ edits' = edits
    BY <1>8 DEF Commit, LastNumber
  <2>2. /\ LastNumber \in Nat
        /\ \A e \in Endpoint : content[e] <= LastNumber
        /\ LastNumber = 0 \/ \E e \in Endpoint : content[e] = LastNumber
    BY <1>1, LastNumberIs
  <2>3. LastNumber + Cardinality(Busy) <= edits
    <3>1. Detail(Budget) \in Endpoint
      BY DEF Detail, Endpoint, Row
    <3>2. \A e \in Endpoint : content[e] \in Nat
      BY <1>1
    <3>3. Cardinality(Busy) <= edits
      BY <1>1, <1>2, <3>1, <3>2
    <3> QED
      BY <1>2, <2>2, <3>3
  <2> HIDE DEF n
  <2>4. /\ edit' \in [User -> [at : {"idle", "work", "commit"}, changed : SUBSET Endpoint,
                               around : SUBSET Endpoint, stale : SUBSET Endpoint]]
        /\ IsFiniteSet(Busy') /\ Cardinality(Busy') = Cardinality(Busy) - 1
        /\ 1 <= Cardinality(Busy)
    BY <1>7, <2>1
  <2>5. n \in 0..MaxEdits /\ n + Cardinality(Busy') <= edits
    BY <1>1, <1>2, <2>2, <2>3, <2>4 DEF n
  <2>6. content' \in [Endpoint -> 0..MaxEdits]
    BY <1>1, <2>1, <2>5
  <2>7. own' \in [User -> [Endpoint -> 0..MaxEdits]]
    <3>1. seen \in [Endpoint -> 0..MaxEdits]
      BY <1>1, <2>5
    <3> HIDE DEF seen
    <3> QED
      BY <1>1, <2>1, <3>1
  <2>9. beside' \in [User -> [Endpoint -> 0..MaxEdits]]
    <3>1. by \in [Endpoint -> 0..MaxEdits]
      BY <1>1, <2>5
    <3> HIDE DEF by
    <3> QED
      BY <1>1, <2>1, <3>1
  <2>8. \A e \in Endpoint : content'[e] + Cardinality(Busy') <= edits'
    <3> SUFFICES ASSUME NEW e \in Endpoint
                 PROVE  content'[e] + Cardinality(Busy') <= edits'
      OBVIOUS
    <3>1. content[e] + Cardinality(Busy) <= edits /\ content[e] \in Int
      BY <1>1, <1>2
    <3>2. content'[e] = n \/ content'[e] = content[e]
      BY <2>1
    <3> QED
      BY <1>1, <1>2, <2>1, <2>4, <2>5, <3>1, <3>2
  <2> QED
    BY <1>1, <1>2, <2>1, <2>4, <2>6, <2>7, <2>8, <2>9 DEF TypeInv, TypeOK
<1>9. ASSUME NEW u \in User, Rollback(u)
      PROVE  TypeInv'
  <2>1. /\ edit[u].at # "idle" /\ edit' = [edit EXCEPT ![u] = NoEdit]
        /\ content' = content /\ cached' = cached /\ get' = get /\ own' = own /\ beside' = beside /\ edits' = edits
    BY <1>9 DEF Rollback
  <2>2. /\ edit' \in [User -> [at : {"idle", "work", "commit"}, changed : SUBSET Endpoint,
                               around : SUBSET Endpoint, stale : SUBSET Endpoint]]
        /\ IsFiniteSet(Busy') /\ Cardinality(Busy') = Cardinality(Busy) - 1
    BY <1>7, <2>1
  <2>3. \A e \in Endpoint : content'[e] + Cardinality(Busy') <= edits'
    BY <1>1, <1>2, <2>1, <2>2
  <2> QED
    BY <1>1, <1>2, <2>1, <2>2, <2>3 DEF TypeInv, TypeOK
<1>10. ASSUME NEW u \in User, NEW k \in Key, Expire(u, k)
       PROVE  TypeInv'
  <2>1. /\ cached' = [cached EXCEPT ![u][k] = None]
        /\ content' = content /\ get' = get /\ edit' = edit /\ own' = own /\ beside' = beside /\ edits' = edits
    BY <1>10 DEF Expire
  <2>2. cached' \in [User -> [Key -> -1..MaxEdits \cup {None}]]
    BY <1>1, <2>1
  <2>3. Busy' = Busy
    BY <2>1 DEF Busy
  <2> QED
    BY <1>1, <1>2, <2>1, <2>2, <2>3 DEF TypeInv, TypeOK
<1>11. CASE UNCHANGED vars
  BY <1>11 DEF vars, TypeInv, TypeOK, Busy
<1> QED
  BY <1>3, <1>4, <1>5, <1>6, <1>8, <1>9, <1>10, <1>11 DEF Next

(* Numbers, keys and requests under way keep their kinds; an edit always     *)
(* finds a number, since each edit under way leaves one free.                *)
THEOREM TypeCorrect == Spec => []TypeOK
<1>1. TypeInv => TypeOK
  BY DEF TypeInv
<1> QED
  BY <1>1, InitTypeInv, NextTypeInv, PTL DEF Spec


-------------------------------------------------------------------------------
(* Requests that avoid the situations.                                       *)

(* Nothing kept or read for a user is older than the user's last edit of it; *)
(* an edit about to commit has deleted all it changes.                       *)
OwnInv ==
  /\ \A u \in User : edit[u].at # "idle" => get[u].at # "store"
  /\ \A u \in User : edit[u].changed \subseteq edit[u].stale
  /\ \A u \in User, e \in Endpoint : own[u][e] <= content[e]
  /\ \A u \in User : get[u].at = "store" => own[u][get[u].key[1]] <= get[u].body
  /\ \A u \in User, k \in Key :
        edit[u].at = "commit" /\ k[1] \in edit[u].changed => cached[u][k] = None
  /\ OwnEditsVisible

LEMMA InitOwnInv == Init => OwnInv
<1> SUFFICES ASSUME Init PROVE OwnInv
  OBVIOUS
<1>1. \A k \in Key : k[1] \in Endpoint
  BY DEF Key
<1> QED
  BY <1>1 DEF Init, NoGet, NoEdit, OwnInv, OwnEditsVisible

LEMMA NextOwnInv ==
  ASSUME Situations \subseteq Avoided, TypeInv, TypeInv', OwnInv, [Next]_vars
  PROVE  OwnInv'
<1>1. /\ MaxEdits \in Nat /\ None \notin Int
      /\ content \in [Endpoint -> 0..MaxEdits]
      /\ cached \in [User -> [Key -> -1..MaxEdits \cup {None}]]
      /\ get \in [User -> [at : {"idle", "store"}, key : Key \cup {None},
                           body : -1..MaxEdits \cup {None}]]
      /\ edit \in [User -> [at : {"idle", "work", "commit"}, changed : SUBSET Endpoint,
                            around : SUBSET Endpoint, stale : SUBSET Endpoint]]
      /\ own \in [User -> [Endpoint -> 0..MaxEdits]]
      /\ edits \in 0..MaxEdits
  BY EndpointCacheAssumption DEF TypeInv, TypeOK
<1>2. \A u \in User : get[u].at = "store" => get[u].key \in Key /\ get[u].body \in -1..MaxEdits
  BY DEF TypeInv
<1>3. {"own overlap", "query", "error"} \subseteq Avoided
  BY DEF Situations
<1>4. \A k \in Key : k[1] \in Endpoint /\ k = Plain(k[1])
  <2>1. Key = Endpoint \X {FALSE}
    BY <1>3 DEF Key
  <2> DEFINE no == FALSE
  <2>2. \A k \in Endpoint \X {no} : k[1] \in Endpoint /\ k = <<k[1], no>>
    <3> HIDE DEF no
    <3> QED
      OBVIOUS
  <2> QED
    BY <2>1, <2>2 DEF Plain
<1>5. /\ \A u \in User : edit[u].at # "idle" => get[u].at # "store"
      /\ \A u \in User : edit[u].changed \subseteq edit[u].stale
      /\ \A u \in User, e \in Endpoint : own[u][e] <= content[e]
      /\ \A u \in User : get[u].at = "store" => own[u][get[u].key[1]] <= get[u].body
      /\ \A u \in User, k \in Key :
            edit[u].at = "commit" /\ k[1] \in edit[u].changed => cached[u][k] = None
      /\ \A u \in User, k \in Key : cached[u][k] # None => cached[u][k] >= own[u][k[1]]
  BY DEF OwnInv, OwnEditsVisible
<1>6. ASSUME NEW u \in User, NEW k \in Key, Miss(u, k)
      PROVE  OwnInv'
  <2>1. /\ get' = [get EXCEPT ![u] = [at |-> "store", key |-> k, body |-> content[k[1]]]]
        /\ edit[u].at = "idle"
        /\ content' = content /\ cached' = cached /\ edit' = edit /\ own' = own
    BY <1>3, <1>6 DEF Miss
  <2>2. \A v \in User : edit'[v].at # "idle" => get'[v].at # "store"
    BY <1>1, <1>5, <2>1
  <2>3. \A v \in User : get'[v].at = "store" => own'[v][get'[v].key[1]] <= get'[v].body
    BY <1>1, <1>4, <1>5, <2>1
  <2> QED
    BY <1>5, <2>1, <2>2, <2>3 DEF OwnInv, OwnEditsVisible
<1>7. ASSUME NEW u \in User, Store(u)
      PROVE  OwnInv'
  <2>1. /\ get[u].at = "store" /\ cached' = [cached EXCEPT ![u][get[u].key] = get[u].body]
        /\ get' = [get EXCEPT ![u] = NoGet]
        /\ content' = content /\ edit' = edit /\ own' = own
    BY <1>7 DEF Store
  <2>2. edit[u].at = "idle"
    BY <1>5, <2>1
  <2>3. \A v \in User : edit'[v].at # "idle" => get'[v].at # "store"
    BY <1>1, <1>5, <2>1 DEF NoGet
  <2>4. \A v \in User : get'[v].at = "store" => own'[v][get'[v].key[1]] <= get'[v].body
    BY <1>1, <1>5, <2>1 DEF NoGet
  <2>5. \A v \in User, k \in Key :
            edit'[v].at = "commit" /\ k[1] \in edit'[v].changed => cached'[v][k] = None
    BY <1>1, <1>5, <2>1, <2>2
  <2>6. \A v \in User, k \in Key : cached'[v][k] # None => cached'[v][k] >= own'[v][k[1]]
    <3> SUFFICES ASSUME NEW v \in User, NEW k \in Key, cached'[v][k] # None
                 PROVE  cached'[v][k] >= own'[v][k[1]]
      OBVIOUS
    <3>1. CASE v = u /\ k = get[u].key
      <4>1. cached'[v][k] = get[u].body
        BY <1>1, <2>1, <3>1
      <4>2. own[u][k[1]] <= get[u].body /\ get[u].body \in Int
        BY <1>1, <1>2, <1>5, <2>1, <3>1
      <4>3. own[u][k[1]] \in Int
        BY <1>1, <1>4
      <4> QED
        BY <2>1, <3>1, <4>1, <4>2, <4>3
    <3>2. CASE ~ (v = u /\ k = get[u].key)
      <4>1. cached'[v][k] = cached[v][k]
        BY <1>1, <2>1, <3>2
      <4> QED
        BY <1>5, <2>1, <4>1
    <3> QED
      BY <3>1, <3>2
  <2> QED
    BY <1>5, <2>1, <2>3, <2>4, <2>5, <2>6 DEF OwnInv, OwnEditsVisible
<1>8. ASSUME NEW u \in User, BeginEdit(u)
      PROVE  OwnInv'
  <2>1. PICK e \in Edits :
          edit' = [edit EXCEPT ![u] = [at |-> "work", changed |-> e.changed,
                                       around |-> e.around, stale |-> e.stale]]
    BY <1>8 DEF BeginEdit
  <2>2. /\ edit[u].at = "idle" /\ get[u].at = "idle"
        /\ content' = content /\ cached' = cached /\ get' = get /\ own' = own
    BY <1>3, <1>8 DEF BeginEdit
  <2>3. e.changed \subseteq e.stale
    BY EditsAre DEF EditIs
  <2>4. \A v \in User : edit'[v].at # "idle" => get'[v].at # "store"
    BY <1>1, <1>5, <2>1, <2>2
  <2>5. \A v \in User : edit'[v].changed \subseteq edit'[v].stale
    BY <1>1, <1>5, <2>1, <2>3
  <2>6. \A v \in User, k \in Key :
            edit'[v].at = "commit" /\ k[1] \in edit'[v].changed => cached'[v][k] = None
    BY <1>1, <1>5, <2>1, <2>2
  <2> QED
    BY <1>5, <2>2, <2>4, <2>5, <2>6 DEF OwnInv, OwnEditsVisible
<1>9. ASSUME NEW u \in User, Invalidate(u)
      PROVE  OwnInv'
  <2> DEFINE gone == {Plain(e) : e \in edit[u].stale}
  <2>1. /\ edit[u].at = "work" /\ edit' = [edit EXCEPT ![u].at = "commit"]
        /\ cached' = [cached EXCEPT ![u] = [k \in Key |-> IF k \in gone THEN None ELSE @[k]]]
        /\ content' = content /\ get' = get /\ own' = own
    BY <1>9 DEF Invalidate
  <2>2. \A v \in User, k \in Key :
          cached'[v][k] = IF v = u /\ k \in gone THEN None ELSE cached[v][k]
    <3> HIDE DEF gone
    <3> QED
      BY <1>1, <2>1
  <2>3. \A v \in User : edit'[v].at # "idle" => get'[v].at # "store"
    BY <1>1, <1>5, <2>1
  <2>4. \A v \in User : edit'[v].changed = edit[v].changed /\ edit'[v].stale = edit[v].stale
    BY <1>1, <2>1
  <2>5. \A v \in User, k \in Key :
            edit'[v].at = "commit" /\ k[1] \in edit'[v].changed => cached'[v][k] = None
    <3> SUFFICES ASSUME NEW v \in User, NEW k \in Key,
                        edit'[v].at = "commit", k[1] \in edit'[v].changed
                 PROVE  cached'[v][k] = None
      OBVIOUS
    <3>1. CASE v = u
      <4>1. k[1] \in edit[u].stale
        BY <1>5, <2>4, <3>1
      <4>2. k \in gone
        BY <1>4, <4>1
      <4> HIDE DEF gone
      <4> QED
        BY <2>2, <3>1, <4>2
    <3>2. CASE v # u
      <4>1. edit'[v] = edit[v]
        BY <1>1, <2>1, <3>2
      <4> HIDE DEF gone
      <4> QED
        BY <1>5, <2>2, <3>2, <4>1
    <3> QED
      BY <3>1, <3>2
  <2>6. \A v \in User, k \in Key : cached'[v][k] # None => cached'[v][k] >= own'[v][k[1]]
    <3> HIDE DEF gone
    <3> QED
      BY <1>5, <2>1, <2>2
  <2> QED
    BY <1>5, <2>1, <2>3, <2>4, <2>5, <2>6 DEF OwnInv, OwnEditsVisible
<1>10. ASSUME NEW u \in User, Commit(u)
       PROVE  OwnInv'
  <2> DEFINE n == 1 + LastNumber
             all == edit[u].changed \cup edit[u].around
             seen == [e \in Endpoint |-> IF e \in edit[u].changed THEN n ELSE own[u][e]]
  <2>1. /\ edit[u].at = "commit" /\ edit' = [edit EXCEPT ![u] = NoEdit]
        /\ content' = [e \in Endpoint |-> IF e \in all THEN n ELSE content[e]]
        /\ own' = [own EXCEPT ![u] = seen]
        /\ cached' = cached /\ get' = get
    BY <1>10 DEF Commit, LastNumber
  <2>2. LastNumber \in Nat /\ \A e \in Endpoint : content[e] <= LastNumber
    BY <1>1, LastNumberIs
  <2>3. n \in Int /\ \A e \in Endpoint : content[e] <= n /\ content[e] \in Int
    BY <1>1, <2>2
  <2> HIDE DEF n
  <2>4. \A v \in User, e \in Endpoint :
          own'[v][e] = IF v = u /\ e \in edit[u].changed THEN n ELSE own[v][e]
    BY <1>1, <2>1
  <2>5. \A v \in User, e \in Endpoint : own'[v][e] <= content'[e]
    <3> SUFFICES ASSUME NEW v \in User, NEW e \in Endpoint PROVE own'[v][e] <= content'[e]
      OBVIOUS
    <3>1. own[v][e] <= content[e] /\ own[v][e] \in Int /\ content[e] \in Int /\ content[e] <= n
      BY <1>1, <1>5, <2>3
    <3>2. content'[e] = IF e \in all THEN n ELSE content[e]
      BY <2>1
    <3> QED
      BY <2>3, <2>4, <3>1, <3>2
  <2>6. \A v \in User : edit'[v].at # "idle" => get'[v].at # "store"
    BY <1>1, <1>5, <2>1 DEF NoEdit
  <2>7. \A v \in User : edit'[v].changed \subseteq edit'[v].stale
    BY <1>1, <1>5, <2>1 DEF NoEdit
  <2>8. \A v \in User : get'[v].at = "store" => own'[v][get'[v].key[1]] <= get'[v].body
    BY <1>2, <1>4, <1>5, <2>1, <2>4
  <2>9. \A v \in User, k \in Key :
            edit'[v].at = "commit" /\ k[1] \in edit'[v].changed => cached'[v][k] = None
    BY <1>1, <1>5, <2>1 DEF NoEdit
  <2>10. \A v \in User, k \in Key : cached'[v][k] # None => cached'[v][k] >= own'[v][k[1]]
    BY <1>4, <1>5, <2>1, <2>4
  <2> QED
    BY <2>5, <2>6, <2>7, <2>8, <2>9, <2>10 DEF OwnInv, OwnEditsVisible
<1>11. ASSUME NEW u \in User, Rollback(u)
       PROVE  OwnInv'
  <2>1. /\ edit' = [edit EXCEPT ![u] = NoEdit]
        /\ content' = content /\ cached' = cached /\ get' = get /\ own' = own
    BY <1>11 DEF Rollback
  <2>2. \A v \in User : /\ edit'[v].at # "idle" => edit'[v] = edit[v]
                        /\ edit'[v].changed \subseteq edit'[v].stale
    BY <1>1, <1>5, <2>1 DEF NoEdit
  <2>3. \A v \in User, k \in Key :
            edit'[v].at = "commit" /\ k[1] \in edit'[v].changed => cached'[v][k] = None
    <3>1. \A v \in User : edit'[v].at = "commit" => edit'[v] = edit[v]
      BY <2>2
    <3> QED
      BY <1>5, <2>1, <3>1
  <2> QED
    BY <1>5, <2>1, <2>2, <2>3 DEF OwnInv, OwnEditsVisible
<1>12. ASSUME NEW u \in User, NEW k \in Key, Expire(u, k)
       PROVE  OwnInv'
  <2>1. /\ cached' = [cached EXCEPT ![u][k] = None]
        /\ content' = content /\ get' = get /\ edit' = edit /\ own' = own
    BY <1>12 DEF Expire
  <2>2. \A v \in User, l \in Key : cached'[v][l] = None \/ cached'[v][l] = cached[v][l]
    BY <1>1, <2>1
  <2>3. \A v \in User, l \in Key :
            edit'[v].at = "commit" /\ l[1] \in edit'[v].changed => cached'[v][l] = None
    BY <1>5, <2>1, <2>2
  <2>4. \A v \in User, l \in Key : cached'[v][l] # None => cached'[v][l] >= own'[v][l[1]]
    BY <1>5, <2>1, <2>2
  <2> QED
    BY <1>5, <2>1, <2>3, <2>4 DEF OwnInv, OwnEditsVisible
<1>13. CASE UNCHANGED vars
  BY <1>13 DEF vars, OwnInv, OwnEditsVisible
<1> QED
  BY <1>6, <1>7, <1>8, <1>9, <1>10, <1>11, <1>12, <1>13 DEF Next

(* Requests that avoid the situations: a user who waits for an edit before   *)
(* the next GET is never served anything older, at any endpoint whose own    *)
(* row or list the edit changed (the dependencies of the caches and the      *)
(* calls of invalidate in the handlers).  Nothing is said of what a detail   *)
(* mentions of other rows, which no handler invalidates.                     *)
THEOREM OwnEditsVisibleCorrect ==
  ASSUME Situations \subseteq Avoided
  PROVE  Spec => []OwnEditsVisible
<1>1. Init => TypeInv /\ OwnInv
  BY InitTypeInv, InitOwnInv
<1>2. TypeInv /\ OwnInv /\ [Next]_vars => (TypeInv /\ OwnInv)'
  BY NextTypeInv, NextOwnInv
<1>3. TypeInv /\ OwnInv => OwnEditsVisible
  BY DEF OwnInv
<1> QED
  BY <1>1, <1>2, <1>3, PTL DEF Spec

================================================================================
