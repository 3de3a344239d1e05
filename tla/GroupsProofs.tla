---------------------------- MODULE GroupsProofs ----------------------------
(* Theorems about Groups, for any sets of rows, groups and processes.      *)
(*                                                                         *)
(* Any number of requests and sweeps are in progress at a time, and each   *)
(* step is of one.  The invariant says of each by itself what it is in the *)
(* middle of: what its kind and its point allow (Shape), and, as long as   *)
(* nothing else was committed since it started, how what it has loaded,    *)
(* written, deleted and has left to do fit what is committed.  A step that *)
(* commits nothing concerns one request only (Carries); a commit takes     *)
(* from the others all but their shape.                                    *)
EXTENDS Groups, TLAPS

(* What the proofs are about: t is the transaction of some process, and    *)
(* group and live are what is committed.                                   *)

Ops == {"idle", "row", "post", "patch", "drop", "bulk", "erase", "delete", "sweep"}
Points == {"write", "children", "look", "collect", "purge"}

Tx == [op : Ops, ask : Partial, at : Points, to : Group \cup {None},
       out : SUBSET Row, aim : Partial, seen : Partial, put : Partial,
       made : SUBSET Group, dead : SUBSET Group, watch : SUBSET Group,
       doomed : SUBSET Group, caught : SUBSET Row, calm : BOOLEAN]

(* What a statement of t reads.                                            *)
Read(t, r) == IF r \in DOMAIN t.put THEN t.put[r] ELSE group[r]
ReadGroups(t) == (live \cup t.made) \ t.dead
NoneIn(t, g) == \A r \in Row : Read(t, r) # g
Unused(g) == \A r \in Row : group[r] # g

(* The requests that write the rows they name.                             *)
Writing == {"row", "post", "patch", "bulk", "erase", "delete"}

-----------------------------------------------------------------------------
(* The shape of a transaction.                                             *)

(* What the kind of request leaves empty.                                  *)
Kinds(t) ==
  /\ t.op \notin Writing => DOMAIN t.aim = {}
  /\ t.op # "patch" => t.out = {} /\ t.at # "children"
  /\ t.op = "bulk" => \A r \in DOMAIN t.aim : t.aim[r] # Absent
  /\ t.op # "post" => t.made = {}

(* What is empty at each point.                                            *)
Stages(t) ==
  /\ t.at = "write" =>
       /\ t.doomed = {} /\ t.caught = {}
       /\ t.watch = {} \/ (t.op \in {"bulk", "erase"} /\ DOMAIN t.aim # {})
  /\ t.at = "children" =>
       /\ DOMAIN t.put = {} /\ t.out = {} /\ t.dead = {}
       /\ t.watch = {} /\ t.doomed = {} /\ t.caught = {}
  /\ t.at = "look" => t.doomed = {} /\ t.caught = {}
  /\ t.at = "collect" => t.watch = {} /\ t.caught = {}
  /\ t.at = "purge" => t.watch = {}
  /\ t.op \in {"bulk", "erase"} /\ t.at # "write" => DOMAIN t.aim = {}
  /\ t.op \in {"drop", "sweep"} =>
       /\ t.at \in {"write", "collect", "purge"}
       /\ t.at # "write" => DOMAIN t.put = {} /\ t.dead = {}
  /\ t.op = "drop" /\ t.at = "collect" => t.doomed = {t.to}

Shape(t) == t \in Tx /\ DOMAIN t.aim = DOMAIN t.seen /\ Kinds(t) /\ Stages(t)

-----------------------------------------------------------------------------
(* A transaction while nothing else is committed.                          *)

(* What it has loaded is so still.                                         *)
Loaded(t) ==
  /\ \A r \in DOMAIN t.seen :
       \/ group[r] # Absent /\ t.seen[r] = group[r]
       \/ group[r] = Absent /\ t.seen[r] = None /\ t.op = "row"
  /\ \A r \in t.out : group[r] = t.to
  /\ t.op \in {"patch", "drop"} => t.to \in live
  /\ t.made \cap live = {}
  /\ t.watch \cup t.doomed \cup t.dead \subseteq live

(* A row is written once.                                                  *)
Once(t) ==
  /\ (DOMAIN t.aim \cup t.out) \cap DOMAIN t.put = {}
  /\ DOMAIN t.aim \cap t.out = {}
  /\ t.op \in {"row", "delete"} =>
       \A r, s \in DOMAIN t.aim : r = s

(* Rows are put where there is a group, or none.                           *)
Aimed(t) ==
  /\ \A r \in DOMAIN t.aim :
       /\ t.op = "post" => t.aim[r] \in t.made
       /\ t.op = "patch" => t.aim[r] = t.to
       /\ t.op \in {"erase", "delete"} => t.aim[r] = Absent
       /\ t.op \in {"row", "bulk"} => t.aim[r] \in {None} \cup live
  /\ \A r \in DOMAIN t.put : t.put[r] \in live \cup t.made \cup {None, Absent}

(* What it takes for empty is empty.                                       *)
Emptied(t) ==
  /\ t.op # "drop" => \A g \in t.doomed : NoneIn(t, g)
  /\ t.op = "drop" /\ t.at = "purge" => t.doomed = {t.to}
  /\ t.at = "purge" => \A r \in Row : r \in t.caught <=> Read(t, r) \in t.doomed

Undisturbed(t) == t.calm => Loaded(t) /\ Once(t) /\ Aimed(t) /\ Emptied(t)

(* A group it deletes stays empty.                                         *)
StayEmpty(t) ==
  /\ \A g \in t.dead : NoneIn(t, g)
  /\ t.watch \cap t.dead = {}
  /\ t.op = "row" /\ DOMAIN t.aim # {} =>
       t.watch = {} /\ t.doomed = {} /\ t.dead = {}
  /\ t.op = "bulk" =>
       /\ t.dead = {} /\ t.doomed = {}
       /\ \A g \in t.watch : \E r \in DOMAIN t.put : t.put[r] = g
  /\ t.op = "patch" /\ DOMAIN t.aim # {} =>
       \/ Unused(t.to) /\ t.to \notin t.watch \cup t.doomed \cup t.dead
       \/ \E r \in Row : /\ group[r] = t.to /\ r \notin DOMAIN t.put \cup t.out
                         /\ t.at = "children" => r \in DOMAIN t.aim

(* Rows are where the request asks, or on their way.                       *)
AskedFor(t) ==
  /\ \A r \in DOMAIN t.put : r \in DOMAIN t.ask /\ t.put[r] = t.ask[r]
  /\ \A r \in DOMAIN t.aim : r \in DOMAIN t.ask /\ t.aim[r] = t.ask[r]
  /\ \A r \in t.out : r \in DOMAIN t.ask /\ t.ask[r] = None

(* The rows of its group have yet to be read.                              *)
Unread(t) == t.at = "children" \/ (t.op = "drop" /\ t.at # "write")

ToLeave(t) ==
  Unread(t) =>
    \A r \in Row \ DOMAIN t.aim :
      group[r] = t.to => r \in DOMAIN t.ask /\ t.ask[r] = None

OnlyThese(t) ==
  \A r \in DOMAIN t.ask :
    \/ r \in DOMAIN t.put \/ r \in DOMAIN t.aim \/ r \in t.out
    \/ group[r] = t.ask[r]
    \/ Unread(t) /\ group[r] = t.to

OnTheirWay(t) == AskedFor(t) /\ ToLeave(t) /\ OnlyThese(t)

(* A group that loses its last row is looked at or goes.                   *)
NotLost(t) ==
  \A g \in live :
    Unused(g) \/ ~NoneIn(t, g) \/ g \in t.watch \cup t.doomed \cup t.dead

(* Those that would lose it unnoticed do not.                              *)
Stays(t) ==
  /\ t.op = "bulk" => \A r \in DOMAIN t.aim : group[r] \in {None, t.aim[r]}
  /\ t.op = "delete" =>
       \A r \in DOMAIN t.aim :
         \/ group[r] = None
         \/ \E s \in Row \ {r} : s \notin DOMAIN t.put /\ group[s] = group[r]

(* A group that it made gets its rows.                                     *)
Founded(t) ==
  \A g \in t.made :
    \/ \E r \in DOMAIN t.aim : t.aim[r] = g
    \/ \E r \in DOMAIN t.put : t.put[r] = g

LookedAt(t) == NotLost(t) /\ Stays(t) /\ Founded(t)

-----------------------------------------------------------------------------
(* The invariant.                                                          *)

(* A row points to a group that there is.                                  *)
KeysExist == \A r \in Row : group[r] \in live \cup {None, Absent}

(* What is committed.                                                      *)
Settled ==
  /\ group \in [Row -> Place] /\ live \subseteq Group /\ old \subseteq live
  /\ KeysExist

(* What holds of a transaction; some of it only when the requests avoid    *)
(* the situations that would break it.                                     *)
Sound(t) ==
  /\ Shape(t) /\ Undisturbed(t)
  /\ t.calm => /\ "disjoint patch" \in Avoided => StayEmpty(t)
               /\ "patch without rows" \in Avoided => OnTheirWay(t)
               /\ {"bulk move", "single delete"} \subseteq Avoided => LookedAt(t)

Inv == Settled /\ tx \in [Process -> Tx] /\ \A p \in Process : Sound(tx[p])

-----------------------------------------------------------------------------
(* Functions on sets of rows.                                              *)

LEMMA PartialIs ==
  ASSUME NEW f
  PROVE  f \in Partial <=> /\ DOMAIN f \subseteq Row
                           /\ f = [r \in DOMAIN f |-> f[r]]
                           /\ \A r \in DOMAIN f : f[r] \in Place
<1>1. ASSUME f \in Partial
      PROVE  /\ DOMAIN f \subseteq Row
             /\ f = [r \in DOMAIN f |-> f[r]]
             /\ \A r \in DOMAIN f : f[r] \in Place
  <2>1. PICK S \in SUBSET Row : f \in [S -> Place]
    BY <1>1 DEF Partial
  <2> QED
    BY <2>1
<1>2. ASSUME DOMAIN f \subseteq Row, f = [r \in DOMAIN f |-> f[r]],
             \A r \in DOMAIN f : f[r] \in Place
      PROVE  f \in Partial
  <2>1. f \in [DOMAIN f -> Place]
    BY <1>2
  <2> QED
    BY <1>2, <2>1 DEF Partial
<1> QED
  BY <1>1, <1>2

LEMMA PlacesAre ==
  /\ None \in Place /\ Absent \in Place /\ None # Absent
  /\ None \notin Group /\ Absent \notin Group /\ Group \subseteq Place
BY GroupsAssumption DEF Place

LEMMA NothingPartial == Nothing \in Partial /\ DOMAIN Nothing = {}
BY PartialIs DEF Nothing

LEMMA AllPartial ==
  ASSUME NEW S \in SUBSET Row, NEW g \in Place
  PROVE  /\ All(S, g) \in Partial /\ DOMAIN All(S, g) = S
         /\ \A r \in S : All(S, g)[r] = g
BY PartialIs DEF All

LEMMA LoadPartial ==
  ASSUME group \in [Row -> Place], NEW S \in SUBSET Row
  PROVE  /\ Load(S) \in Partial /\ DOMAIN Load(S) = S
         /\ \A r \in S : Load(S)[r] = group[r]
BY PartialIs DEF Load

LEMMA PutPartial ==
  ASSUME NEW f, NEW S, NEW g, f \in Partial, S \subseteq Row, g \in Place
  PROVE  /\ Put(f, S, g) \in Partial /\ DOMAIN Put(f, S, g) = DOMAIN f \cup S
         /\ \A r \in S : Put(f, S, g)[r] = g
         /\ \A r \in DOMAIN f \ S : Put(f, S, g)[r] = f[r]
BY PartialIs DEF Put

LEMMA LessPartial ==
  ASSUME NEW f \in Partial, NEW S
  PROVE  [r \in DOMAIN f \ S |-> f[r]] \in Partial
BY PartialIs

-----------------------------------------------------------------------------
(* The invariants speak of one transaction at a time.                      *)

(* A step of p that commits nothing.                                       *)
LEMMA Carries ==
  ASSUME Inv, NEW p \in Process, NEW u, Sound(u),
         tx' = [tx EXCEPT ![p] = u], UNCHANGED <<group, live>>, old' \subseteq live
  PROVE  Inv'
<1>1. Settled'
  BY DEF Inv, Settled, KeysExist
<1>2. u \in Tx
  BY DEF Sound, Shape
<1>3. tx' \in [Process -> Tx]
  BY <1>2 DEF Inv
<1>4. ASSUME NEW q \in Process PROVE Sound(tx[q])'
  <2>1. PICK v : v = tx'[q] /\ Sound(v)
    BY DEF Inv
  <2>2. Shape(tx[q])'
    BY <2>1 DEF Sound, Shape, Kinds, Stages
  <2>3. \A g : NoneIn(v, g) <=> NoneIn(tx[q], g)'
    BY <2>1 DEF NoneIn, Read
  <2>4. \A r : Read(v, r) = Read(tx[q], r)'
    BY <2>1 DEF Read
  <2>5. tx[q].calm' => Loaded(tx[q])'
    BY <2>1 DEF Sound, Undisturbed, Loaded
  <2>6. tx[q].calm' => Once(tx[q])'
    BY <2>1 DEF Sound, Undisturbed, Once
  <2>7. tx[q].calm' => Aimed(tx[q])'
    BY <2>1 DEF Sound, Undisturbed, Aimed
  <2>8. tx[q].calm' => Emptied(tx[q])'
    BY <2>1 DEF Sound, Undisturbed, Emptied, NoneIn, Read
  <2>9. tx[q].calm' => (Loaded(tx[q]) /\ Once(tx[q]) /\ Aimed(tx[q]) /\ Emptied(tx[q]))'
    BY <2>5, <2>6, <2>7, <2>8
  <2>10. tx[q].calm' /\ "disjoint patch" \in Avoided => StayEmpty(tx[q])'
    BY <2>1, <2>3, <2>4 DEF Sound, StayEmpty, Unused
  <2>11. tx[q].calm' /\ "patch without rows" \in Avoided => OnTheirWay(tx[q])'
    <3>1. ASSUME v.calm, "patch without rows" \in Avoided
          PROVE  AskedFor(v) /\ ToLeave(v) /\ OnlyThese(v)
      BY <2>1, <3>1 DEF Sound, OnTheirWay
    <3>2. AskedFor(v) => AskedFor(tx[q])'
      BY <2>1 DEF AskedFor
    <3>3. ToLeave(v) => ToLeave(tx[q])'
      BY <2>1 DEF ToLeave, Unread
    <3>4. OnlyThese(v) => OnlyThese(tx[q])'
      BY <2>1 DEF OnlyThese, Unread
    <3> QED
      BY <2>1, <3>1, <3>2, <3>3, <3>4 DEF OnTheirWay
  <2>12. tx[q].calm' /\ {"bulk move", "single delete"} \subseteq Avoided => NotLost(tx[q])'
    BY <2>1, <2>3 DEF Sound, LookedAt, NotLost, Unused
  <2>13. tx[q].calm' /\ {"bulk move", "single delete"} \subseteq Avoided => Stays(tx[q])'
    BY <2>1 DEF Sound, LookedAt, Stays
  <2>14. tx[q].calm' /\ {"bulk move", "single delete"} \subseteq Avoided => Founded(tx[q])'
    BY <2>1 DEF Sound, LookedAt, Founded
  <2>15. tx[q].calm' /\ {"bulk move", "single delete"} \subseteq Avoided => LookedAt(tx[q])'
    BY <2>12, <2>13, <2>14 DEF LookedAt
  <2> QED
    BY <2>1, <2>2, <2>9, <2>10, <2>11, <2>15 DEF Sound, Undisturbed
<1> QED
  BY <1>1, <1>3, <1>4 DEF Inv

-----------------------------------------------------------------------------
(* How a transaction begins.                                               *)

Begun(u) ==
  /\ u \in Tx /\ DOMAIN u.aim = DOMAIN u.seen /\ DOMAIN u.put = {}
  /\ u.out = {} /\ u.dead = {} /\ u.watch = {} /\ u.caught = {}

LEMMA IdleBegun ==
  /\ Begun(Idle) /\ Idle.op = "idle" /\ Idle.at = "write" /\ Idle.to = None
  /\ DOMAIN Idle.aim = {} /\ DOMAIN Idle.ask = {} /\ Idle.made = {} /\ Idle.doomed = {}
BY NothingPartial DEF Idle, Begun, Tx, Ops, Points

LEMMA NamingBegun ==
  ASSUME group \in [Row -> Place], NEW op \in Ops, NEW f \in Partial,
         NEW u, u = Naming(op, f)
  PROVE  /\ Begun(u) /\ u.op = op /\ u.at = "write" /\ u.to = None
         /\ u.ask = f /\ u.aim = f /\ DOMAIN u.seen = DOMAIN f
         /\ \A r \in DOMAIN f : u.seen[r] = group[r]
         /\ u.made = {} /\ u.doomed = {}
<1>1. DOMAIN f \in SUBSET Row
  BY PartialIs
<1>2. Load(DOMAIN f) \in Partial /\ DOMAIN Load(DOMAIN f) = DOMAIN f
      /\ \A r \in DOMAIN f : Load(DOMAIN f)[r] = group[r]
  BY <1>1, LoadPartial
<1> QED
  BY <1>2, NothingPartial DEF Naming, Idle, Begun, Tx, Ops, Points

LEMMA SweepingBegun ==
  ASSUME NEW groups \in SUBSET Group, NEW u, u = Sweeping(groups)
  PROVE  /\ Begun(u) /\ u.op = "sweep" /\ u.at = "collect" /\ u.doomed = groups
         /\ DOMAIN u.aim = {} /\ DOMAIN u.ask = {} /\ u.made = {}
BY NothingPartial DEF Sweeping, Idle, Begun, Tx, Ops, Points

(* What there is to see to when a transaction begins.                      *)
LEMMA Begins ==
  ASSUME NEW u, Begun(u), Kinds(u), Stages(u), Loaded(u), Aimed(u),
         u.op \in {"row", "delete"} => \A r, s \in DOMAIN u.aim : r = s,
         u.op # "drop" => \A g \in u.doomed : Unused(g),
         u.at # "purge", u.op \in {"row", "bulk"} => u.doomed = {},
         u.op = "patch" /\ DOMAIN u.aim # {} /\ "disjoint patch" \in Avoided =>
           \/ Unused(u.to) /\ u.doomed = {}
           \/ \E r \in DOMAIN u.aim : group[r] = u.to,
         "patch without rows" \in Avoided => OnTheirWay(u),
         {"bulk move", "single delete"} \subseteq Avoided => Stays(u),
         Founded(u)
  PROVE  Sound(u)
<1>1. \A r : Read(u, r) = group[r]
  BY DEF Begun, Read
<1>2. \A g : NoneIn(u, g) <=> Unused(g)
  BY <1>1 DEF NoneIn, Unused
<1>3. Shape(u)
  BY DEF Begun, Shape
<1>4. Once(u)
  BY DEF Begun, Once
<1>5. Emptied(u)
  BY <1>2 DEF Emptied
<1>6. "disjoint patch" \in Avoided => StayEmpty(u)
  <2>1. DOMAIN u.aim \subseteq Row
    BY PartialIs DEF Begun, Tx
  <2> QED
    BY <2>1 DEF Begun, StayEmpty
<1>7. NotLost(u)
  BY <1>2 DEF NotLost
<1> QED
  BY <1>3, <1>4, <1>5, <1>6, <1>7 DEF Sound, Undisturbed, LookedAt

LEMMA IdleSound == Sound(Idle)
<1> DEFINE u == Idle
<1>1. /\ Begun(u) /\ u.op = "idle" /\ u.at = "write" /\ u.to = None
      /\ DOMAIN u.aim = {} /\ DOMAIN u.ask = {} /\ u.made = {} /\ u.doomed = {}
  BY IdleBegun
<1> HIDE DEF u
<1>2. Kinds(u) /\ Stages(u)
  BY <1>1 DEF Kinds, Stages, Begun, Writing
<1>3. Loaded(u) /\ Aimed(u)
  BY <1>1 DEF Loaded, Aimed, Begun
<1>4. OnTheirWay(u) /\ Stays(u) /\ Founded(u)
  BY <1>1 DEF OnTheirWay, AskedFor, ToLeave, OnlyThese, Unread, Stays, Founded, Begun
<1>5. Sound(u)
  BY <1>1, <1>2, <1>3, <1>4, Begins
<1> QED
  BY <1>5 DEF u

(* A request that writes rows it names, all to the same place.             *)
NamesAll(u, op, S, g) ==
  /\ Begun(u) /\ u.op = op /\ u.at = "write" /\ u.to = None
  /\ DOMAIN u.ask = S /\ DOMAIN u.aim = S /\ DOMAIN u.seen = S
  /\ \A r \in S : u.aim[r] = g /\ u.ask[r] = g /\ u.seen[r] = group[r]
  /\ u.made = {} /\ u.doomed = {}

LEMMA AllNaming ==
  ASSUME group \in [Row -> Place], NEW op \in Ops, NEW S \in SUBSET Row,
         NEW g \in Place
  PROVE  NamesAll(Naming(op, All(S, g)), op, S, g)
<1>1. PICK u : u = Naming(op, All(S, g))
  OBVIOUS
<1>2. /\ All(S, g) \in Partial /\ DOMAIN All(S, g) = S
      /\ \A r \in S : All(S, g)[r] = g
  BY AllPartial
<1>3. /\ Begun(u) /\ u.op = op /\ u.at = "write" /\ u.to = None
      /\ u.ask = All(S, g) /\ u.aim = All(S, g) /\ DOMAIN u.seen = DOMAIN All(S, g)
      /\ \A r \in DOMAIN All(S, g) : u.seen[r] = group[r]
      /\ u.made = {} /\ u.doomed = {}
  BY <1>1, <1>2, NamingBegun
<1> QED
  BY <1>1, <1>2, <1>3 DEF NamesAll

LEMMA PatchRowSound ==
  ASSUME Inv, NEW w, NEW r \in Row, NEW g \in Place, PatchRow(w, r, g)
  PROVE  Sound(Naming("row", All({r}, g)))
<1>1. group \in [Row -> Place] /\ {r} \in SUBSET Row /\ "row" \in Ops
  BY DEF Inv, Settled, Ops
<1>2. PICK u : u = Naming("row", All({r}, g)) /\ NamesAll(u, "row", {r}, g)
  BY <1>1, AllNaming
<1>3. group[r] # Absent /\ g \in {None} \cup live
  BY DEF PatchRow, Rows, Assignable, Inv, Settled, KeysExist
<1>4. Kinds(u) /\ Stages(u)
  BY <1>2, <1>3, PlacesAre DEF NamesAll, Kinds, Stages, Begun, Writing, Inv, Settled
<1>5. Loaded(u) /\ Aimed(u)
  BY <1>2, <1>3 DEF NamesAll, Loaded, Aimed, Begun
<1>6. OnTheirWay(u) /\ Stays(u) /\ Founded(u)
  BY <1>2 DEF NamesAll, OnTheirWay, AskedFor, ToLeave, OnlyThese, Unread, Stays, Founded, Begun
<1>7. Begun(u) /\ u.op = "row" /\ DOMAIN u.aim = {r} /\ u.doomed = {} /\ u.at = "write"
  BY <1>2 DEF NamesAll
<1>8. Sound(u)
  BY <1>7, <1>4, <1>5, <1>6, Begins
<1> QED
  BY <1>2, <1>8

LEMMA PostRowSound ==
  ASSUME Inv, NEW w, NEW r \in Row, NEW g \in Place, PostRow(w, r, g)
  PROVE  Sound([Naming("row", All({r}, g)) EXCEPT !.seen = All({r}, None)])
<1>1. group \in [Row -> Place] /\ {r} \in SUBSET Row /\ "row" \in Ops
  BY DEF Inv, Settled, Ops
<1>2. PICK v : v = Naming("row", All({r}, g)) /\ NamesAll(v, "row", {r}, g)
  BY <1>1, AllNaming
<1>3. PICK s : /\ s = All({r}, None) /\ s \in Partial /\ DOMAIN s = {r} /\ s[r] = None
  BY <1>1, AllPartial, PlacesAre
<1>4. PICK u : u = [v EXCEPT !.seen = s]
  OBVIOUS
<1>5. group[r] = Absent /\ g \in {None} \cup live
  BY DEF PostRow, Assignable
<1>6. /\ Begun(u) /\ u.op = "row" /\ u.at = "write" /\ u.doomed = {} /\ u.made = {}
      /\ u.seen = s /\ DOMAIN u.aim = {r} /\ u.aim[r] = g
      /\ DOMAIN u.ask = {r} /\ u.ask[r] = g
  BY <1>2, <1>3, <1>4 DEF NamesAll, Begun, Tx
<1>7. Kinds(u) /\ Stages(u)
  BY <1>6, <1>5, PlacesAre DEF Kinds, Stages, Begun, Writing, Inv, Settled
<1>8. Loaded(u) /\ Aimed(u)
  BY <1>3, <1>5, <1>6 DEF Loaded, Aimed, Begun
<1>9. OnTheirWay(u) /\ Stays(u) /\ Founded(u)
  BY <1>6 DEF OnTheirWay, AskedFor, ToLeave, OnlyThese, Unread, Stays, Founded, Begun
<1>10. Sound(u)
  BY <1>6, <1>7, <1>8, <1>9, Begins
<1> QED
  BY <1>2, <1>3, <1>4, <1>10

LEMMA PostGroupSound ==
  ASSUME Inv, NEW w, NEW g \in Group, NEW S \in SUBSET Row, PostGroup(w, g, S)
  PROVE  Sound([Naming("post", All(S, g)) EXCEPT !.made = {g}])
<1>1. group \in [Row -> Place] /\ "post" \in Ops /\ g \in Place
  BY PlacesAre DEF Inv, Settled, Ops
<1>2. PICK v : v = Naming("post", All(S, g)) /\ NamesAll(v, "post", S, g)
  BY <1>1, AllNaming
<1>3. PICK u : u = [v EXCEPT !.made = {g}]
  OBVIOUS
<1>4. g \notin live /\ S # {} /\ \A r \in S : group[r] # Absent
  BY DEF PostGroup, Fresh, Rows
<1>5. /\ Begun(u) /\ u.op = "post" /\ u.at = "write" /\ u.doomed = {} /\ u.made = {g}
      /\ DOMAIN u.seen = S /\ DOMAIN u.aim = S /\ DOMAIN u.ask = S
      /\ \A r \in S : u.aim[r] = g /\ u.ask[r] = g /\ u.seen[r] = group[r]
  BY <1>2, <1>3 DEF NamesAll, Begun, Tx
<1>6. Kinds(u) /\ Stages(u)
  BY <1>5 DEF Kinds, Stages, Begun, Writing
<1>7. Loaded(u) /\ Aimed(u)
  BY <1>4, <1>5 DEF Loaded, Aimed, Begun
<1>8. OnTheirWay(u) /\ Stays(u) /\ Founded(u)
  BY <1>4, <1>5 DEF OnTheirWay, AskedFor, ToLeave, OnlyThese, Unread, Stays, Founded, Begun
<1>9. Sound(u)
  BY <1>5, <1>6, <1>7, <1>8, Begins
<1> QED
  BY <1>2, <1>3, <1>9

(* What a PATCH of a group asks of rows.                                   *)
Regrouped(g, S) ==
  [r \in IF S = {} THEN {} ELSE S \cup Members(g) |-> IF r \in S THEN g ELSE None]

LEMMA PatchGroupSound ==
  ASSUME Inv, NEW w, NEW g \in Group, NEW S \in SUBSET Row, PatchGroup(w, g, S)
  PROVE  Sound([Naming("patch", All(S, g)) EXCEPT
                  !.at = "children", !.to = g, !.ask = Regrouped(g, S)])
<1>1. group \in [Row -> Place] /\ "patch" \in Ops /\ g \in Place
  BY PlacesAre DEF Inv, Settled, Ops
<1>2. PICK v : v = Naming("patch", All(S, g)) /\ NamesAll(v, "patch", S, g)
  BY <1>1, AllNaming
<1>3. PICK a : /\ a = Regrouped(g, S) /\ a \in Partial
               /\ DOMAIN a = IF S = {} THEN {} ELSE S \cup Members(g)
               /\ \A r \in DOMAIN a : a[r] = IF r \in S THEN g ELSE None
  <2>1. PICK rows : rows = (IF S = {} THEN {} ELSE S \cup Members(g)) /\ rows \subseteq Row
    BY DEF Members
  <2>2. PICK a : a = [r \in rows |-> IF r \in S THEN g ELSE None]
    OBVIOUS
  <2>3. a \in Partial
    BY <1>1, <2>1, <2>2, PlacesAre, PartialIs
  <2>4. a = Regrouped(g, S)
    BY <2>1, <2>2 DEF Regrouped
  <2> QED
    BY <2>1, <2>2, <2>3, <2>4
<1>4. PICK u : u = [v EXCEPT !.at = "children", !.to = g, !.ask = a]
  OBVIOUS
<1>5. /\ g \in live /\ \A r \in S : group[r] # Absent
      /\ "patch without rows" \in Avoided => S # {}
      /\ "disjoint patch" \in Avoided =>
           Unused(g) \/ S = {} \/ \E r \in S : group[r] = g
  BY DEF PatchGroup, Rows, Members, Unused
<1>6. /\ Begun(u) /\ u.op = "patch" /\ u.at = "children" /\ u.to = g
      /\ u.doomed = {} /\ u.made = {}
      /\ DOMAIN u.seen = S /\ DOMAIN u.aim = S /\ u.ask = a
      /\ \A r \in S : u.aim[r] = g /\ u.seen[r] = group[r]
  BY <1>2, <1>3, <1>4 DEF NamesAll, Begun, Tx, Points
<1>7. Kinds(u) /\ Stages(u)
  BY <1>6 DEF Kinds, Stages, Begun, Writing
<1>8. Loaded(u) /\ Aimed(u)
  BY <1>5, <1>6 DEF Loaded, Aimed, Begun
<1>9. "patch without rows" \in Avoided => OnTheirWay(u)
  BY <1>3, <1>5, <1>6 DEF OnTheirWay, AskedFor, ToLeave, OnlyThese, Unread, Begun, Members
<1>10. Stays(u) /\ Founded(u)
  BY <1>6 DEF Stays, Founded, Begun
<1>11. Sound(u)
  BY <1>5, <1>6, <1>7, <1>8, <1>9, <1>10, Begins
<1> QED
  BY <1>2, <1>3, <1>4, <1>11

LEMMA DeleteGroupSound ==
  ASSUME Inv, NEW w, NEW g \in Group, DeleteGroup(w, g)
  PROVE  Sound([Idle EXCEPT !.op = "drop", !.at = "collect", !.to = g,
                            !.doomed = {g}, !.ask = All(Members(g), None)])
<1>1. PICK a : /\ a = All(Members(g), None) /\ a \in Partial /\ DOMAIN a = Members(g)
               /\ \A r \in Members(g) : a[r] = None
  <2>1. Members(g) \in SUBSET Row
    BY DEF Members
  <2> QED
    BY <2>1, AllPartial, PlacesAre
<1>2. PICK v : /\ v = Idle /\ Begun(v) /\ DOMAIN v.aim = {} /\ v.made = {}
  BY IdleBegun
<1>3. PICK u : u = [v EXCEPT !.op = "drop", !.at = "collect", !.to = g,
                             !.doomed = {g}, !.ask = a]
  OBVIOUS
<1>4. g \in live
  BY DEF DeleteGroup
<1>5. /\ Begun(u) /\ u.op = "drop" /\ u.at = "collect" /\ u.to = g /\ u.doomed = {g}
      /\ u.made = {} /\ DOMAIN u.aim = {} /\ u.ask = a
  BY <1>1, <1>2, <1>3 DEF Begun, Tx, Ops, Points
<1>6. Kinds(u) /\ Stages(u)
  BY <1>5 DEF Kinds, Stages, Begun, Writing
<1>7. Loaded(u) /\ Aimed(u)
  BY <1>4, <1>5 DEF Loaded, Aimed, Begun
<1>8. OnTheirWay(u) /\ Stays(u) /\ Founded(u)
  BY <1>1, <1>5 DEF OnTheirWay, AskedFor, ToLeave, OnlyThese, Unread, Stays, Founded, Begun, Members
<1>9. Sound(u)
  BY <1>5, <1>6, <1>7, <1>8, Begins
<1> QED
  BY <1>1, <1>2, <1>3, <1>9

LEMMA BulkUpdateSound ==
  ASSUME Inv, NEW w, NEW S \in SUBSET Row, NEW f \in [S -> Group \cup {None}],
         BulkUpdate(w, S, f)
  PROVE  Sound(Naming("bulk", f))
<1>1. group \in [Row -> Place] /\ "bulk" \in Ops
  BY DEF Inv, Settled, Ops
<1>2. f \in Partial /\ DOMAIN f = S
  BY PartialIs, PlacesAre
<1>3. PICK u : u = Naming("bulk", f)
  OBVIOUS
<1>4. /\ Begun(u) /\ u.op = "bulk" /\ u.at = "write" /\ u.ask = f /\ u.aim = f
      /\ DOMAIN u.seen = S /\ \A r \in S : u.seen[r] = group[r]
      /\ u.made = {} /\ u.doomed = {}
  BY <1>1, <1>2, <1>3, NamingBegun
<1>5. /\ \A r \in S : group[r] # Absent
      /\ \A r \in S : f[r] \in {None} \cup live
      /\ "bulk move" \in Avoided => \A r \in S : group[r] \in {None, f[r]}
  BY DEF BulkUpdate, Rows, Assignable
<1>6. Kinds(u) /\ Stages(u)
  BY <1>2, <1>4, <1>5, PlacesAre DEF Kinds, Stages, Begun, Writing, Inv, Settled
<1>7. Loaded(u) /\ Aimed(u)
  BY <1>2, <1>4, <1>5 DEF Loaded, Aimed, Begun
<1>8. OnTheirWay(u) /\ Founded(u)
  BY <1>4 DEF OnTheirWay, AskedFor, ToLeave, OnlyThese, Unread, Founded, Begun
<1>9. "bulk move" \in Avoided => Stays(u)
  BY <1>2, <1>4, <1>5 DEF Stays
<1>10. Sound(u)
  BY <1>4, <1>6, <1>7, <1>8, <1>9, Begins
<1> QED
  BY <1>3, <1>10

LEMMA BulkDeleteSound ==
  ASSUME Inv, NEW w, NEW S \in SUBSET Row, BulkDelete(w, S)
  PROVE  Sound(Naming("erase", All(S, Absent)))
<1>1. group \in [Row -> Place] /\ "erase" \in Ops /\ Absent \in Place
  BY PlacesAre DEF Inv, Settled, Ops
<1>2. PICK u : u = Naming("erase", All(S, Absent)) /\ NamesAll(u, "erase", S, Absent)
  BY <1>1, AllNaming
<1>3. S # {} /\ \A r \in S : group[r] # Absent
  BY DEF BulkDelete, Rows
<1>4. Kinds(u) /\ Stages(u)
  BY <1>2, <1>3 DEF NamesAll, Kinds, Stages, Begun, Writing
<1>5. Loaded(u) /\ Aimed(u)
  BY <1>2, <1>3 DEF NamesAll, Loaded, Aimed, Begun
<1>6. OnTheirWay(u) /\ Stays(u) /\ Founded(u)
  BY <1>2 DEF NamesAll, OnTheirWay, AskedFor, ToLeave, OnlyThese, Unread, Stays, Founded, Begun
<1>7. Begun(u) /\ u.op = "erase" /\ u.doomed = {} /\ u.at = "write"
  BY <1>2 DEF NamesAll
<1>8. Sound(u)
  BY <1>7, <1>4, <1>5, <1>6, Begins
<1> QED
  BY <1>2, <1>8

LEMMA DeleteRowSound ==
  ASSUME Inv, NEW w, NEW r \in Row, DeleteRow(w, r)
  PROVE  Sound(Naming("delete", All({r}, Absent)))
<1>1. /\ group \in [Row -> Place] /\ "delete" \in Ops /\ Absent \in Place
      /\ {r} \in SUBSET Row
  BY PlacesAre DEF Inv, Settled, Ops
<1>2. PICK u : /\ u = Naming("delete", All({r}, Absent))
               /\ NamesAll(u, "delete", {r}, Absent)
  BY <1>1, AllNaming
<1>3. /\ group[r] # Absent
      /\ "single delete" \in Avoided =>
           group[r] = None \/ \E s \in Row \ {r} : group[s] = group[r]
  BY DEF DeleteRow, Rows, Members
<1>4. Kinds(u) /\ Stages(u)
  BY <1>2, <1>3 DEF NamesAll, Kinds, Stages, Begun, Writing
<1>5. Loaded(u) /\ Aimed(u)
  BY <1>2, <1>3 DEF NamesAll, Loaded, Aimed, Begun
<1>6. OnTheirWay(u) /\ Founded(u)
  BY <1>2 DEF NamesAll, OnTheirWay, AskedFor, ToLeave, OnlyThese, Unread, Founded, Begun
<1>7. "single delete" \in Avoided => Stays(u)
  BY <1>2, <1>3 DEF NamesAll, Stays, Begun
<1>8. /\ Begun(u) /\ u.op = "delete" /\ DOMAIN u.aim = {r}
      /\ u.doomed = {} /\ u.at = "write"
  BY <1>2 DEF NamesAll
<1>9. Sound(u)
  BY <1>8, <1>4, <1>5, <1>6, <1>7, Begins
<1> QED
  BY <1>2, <1>9

LEMMA SweepSound ==
  ASSUME Inv
  PROVE  Sound(Sweeping(Strays \cap old))
<1>1. Strays \cap old \in SUBSET Group
  BY DEF Strays, Inv, Settled
<1>2. PICK u : /\ u = Sweeping(Strays \cap old)
               /\ Begun(u) /\ u.op = "sweep" /\ u.at = "collect"
               /\ u.doomed = Strays \cap old
               /\ DOMAIN u.aim = {} /\ DOMAIN u.ask = {} /\ u.made = {}
  BY <1>1, SweepingBegun
<1>3. Kinds(u) /\ Stages(u)
  BY <1>2 DEF Kinds, Stages, Begun, Writing
<1>4. Loaded(u) /\ Aimed(u)
  BY <1>2 DEF Loaded, Aimed, Begun, Strays
<1>5. OnTheirWay(u) /\ Stays(u) /\ Founded(u)
  BY <1>2 DEF OnTheirWay, AskedFor, ToLeave, OnlyThese, Unread, Stays, Founded, Begun
<1>6. \A g \in u.doomed : Unused(g)
  BY <1>2 DEF Strays, Members, Unused
<1>7. Sound(u)
  BY <1>2, <1>3, <1>4, <1>5, <1>6, Begins
<1> QED
  BY <1>2, <1>7

-----------------------------------------------------------------------------
(* The steps of a transaction.                                             *)

(* What none of them changes.                                              *)
SameRequest(t, u) ==
  u.op = t.op /\ u.ask = t.ask /\ u.to = t.to /\ u.made = t.made /\ u.calm = t.calm

SameRows(t, u) == u.aim = t.aim /\ u.seen = t.seen /\ u.out = t.out

(* A step that commits nothing takes p to u.                               *)
Goes(p, u) == tx' = [tx EXCEPT ![p] = u] /\ UNCHANGED <<group, live, old>>

LEMMA GoesKeeps ==
  ASSUME Inv, NEW p \in Process, NEW u, Sound(u), Goes(p, u)
  PROVE  Inv'
<1>1. old' \subseteq live
  BY DEF Goes, Inv, Settled
<1> QED
  BY <1>1, Carries DEF Goes

LEMMA FailKeeps ==
  ASSUME Inv, NEW p \in Process, Fail(p)
  PROVE  Inv'
BY IdleSound, GoesKeeps DEF Fail, Now, Goes

LEMMA ReadChildrenKeeps ==
  ASSUME Inv, NEW p \in Process, ReadChildren(p)
  PROVE  Inv'
<1>1. PICK t : t = tx[p] /\ Sound(t) /\ t \in Tx
  BY DEF Inv
<1>2. DOMAIN t.put = {} /\ t.at = "children" /\ t.op = "patch"
  BY <1>1 DEF ReadChildren, Sound, Shape, Kinds, Stages
<1>3. PICK leaving : leaving = {r \in Row : group[r] = t.to} \ DOMAIN t.aim
  OBVIOUS
<1>4. leaving = SeenIn(p, t.to) \ DOMAIN t.aim
  BY <1>1, <1>2, <1>3 DEF SeenIn, Seen
<1>5. PICK u : u = [t EXCEPT !.at = "write", !.out = leaving]
  OBVIOUS
<1>6. Goes(p, u)
  BY <1>1, <1>4, <1>5 DEF ReadChildren, Now, Goes
<1>7. /\ u \in Tx /\ SameRequest(t, u) /\ u.aim = t.aim /\ u.seen = t.seen
      /\ u.put = t.put /\ u.dead = t.dead /\ u.watch = t.watch
      /\ u.doomed = t.doomed /\ u.caught = t.caught
      /\ u.at = "write" /\ u.out = leaving
  BY <1>1, <1>3, <1>5 DEF Tx, Points, SameRequest
<1>8. Shape(u)
  BY <1>1, <1>2, <1>7 DEF Sound, Shape, Kinds, Stages, SameRequest, Writing
<1>9. ASSUME t.calm PROVE Loaded(u)
  BY <1>1, <1>3, <1>7, <1>9 DEF Sound, Undisturbed, Loaded, SameRequest
<1>10. ASSUME t.calm PROVE Once(u) /\ Aimed(u)
  <2>1. Once(t) /\ Aimed(t)
    BY <1>1, <1>10 DEF Sound, Undisturbed
  <2>2. Once(u)
    BY <1>2, <1>3, <1>7, <2>1 DEF Once, SameRequest, SameRows
  <2>3. Aimed(u)
    BY <1>2, <1>3, <1>7, <2>1 DEF Aimed, SameRequest, SameRows
  <2> QED
    BY <2>2, <2>3
<1>11. ASSUME t.calm PROVE Emptied(u)
  BY <1>1, <1>2, <1>7, <1>11 DEF Sound, Shape, Stages, Emptied, SameRequest
<1>12. ASSUME t.calm, "disjoint patch" \in Avoided PROVE StayEmpty(u)
  <2>1. StayEmpty(t)
    BY <1>1, <1>12 DEF Sound
  <2>2. t.dead = {} /\ t.watch = {} /\ t.doomed = {}
    BY <1>1, <1>2 DEF Sound, Shape, Stages
  <2> QED
    BY <1>2, <1>3, <1>7, <2>1, <2>2 DEF StayEmpty, SameRequest
<1>13. ASSUME t.calm, "patch without rows" \in Avoided PROVE OnTheirWay(u)
  <2>1. OnTheirWay(t)
    BY <1>1, <1>13 DEF Sound
  <2>2. AskedFor(u)
    BY <1>2, <1>3, <1>7, <2>1 DEF OnTheirWay, AskedFor, ToLeave, Unread, SameRequest, SameRows
  <2>3. ToLeave(u)
    BY <1>2, <1>3, <1>7, <2>1 DEF OnTheirWay, ToLeave, Unread, SameRequest, SameRows
  <2>4. DOMAIN t.ask \subseteq Row
    BY <1>1, PartialIs DEF Tx
  <2>5. OnlyThese(u)
    <3> SUFFICES ASSUME NEW r \in DOMAIN t.ask
                 PROVE  \/ r \in DOMAIN t.put \/ r \in DOMAIN t.aim \/ r \in leaving
                        \/ group[r] = t.ask[r]
      BY <1>7 DEF OnlyThese, SameRequest
    <3>1. r \in Row
      BY <2>4
    <3>2. t.out = {}
      BY <1>1, <1>2 DEF Sound, Shape, Stages
    <3> QED
      BY <1>3, <2>1, <3>1, <3>2 DEF OnTheirWay, OnlyThese
  <2> QED
    BY <2>2, <2>3, <2>5 DEF OnTheirWay
<1>14. ASSUME t.calm, {"bulk move", "single delete"} \subseteq Avoided PROVE LookedAt(u)
  <2>1. LookedAt(t)
    BY <1>1, <1>14 DEF Sound
  <2>2. \A r : Read(u, r) = Read(t, r)
    BY <1>7 DEF Read
  <2>3. NotLost(u)
    BY <1>7, <2>1, <2>2 DEF LookedAt, NotLost, NoneIn
  <2> QED
    BY <1>7, <2>1, <2>3 DEF LookedAt, Stays, Founded, SameRequest
<1>15. Sound(u)
  BY <1>7, <1>8, <1>9, <1>10, <1>11, <1>12, <1>13, <1>14
     DEF Sound, Undisturbed, SameRequest
<1> QED
  BY <1>6, <1>15, GoesKeeps

(* The groups found empty are there, or the handler raises.                *)
LEMMA LookKeeps ==
  ASSUME Inv, NEW p \in Process, Look(p), ~Fail(p)
  PROVE  Inv'
<1>1. PICK t : t = tx[p] /\ Sound(t) /\ t \in Tx
  BY DEF Inv
<1>2. PICK empty : empty = {g \in t.watch : NoneIn(t, g)}
  OBVIOUS
<1>3. empty = {g \in t.watch : SeenIn(p, g) = {}}
  BY <1>1, <1>2 DEF SeenIn, Seen, NoneIn, Read
<1>4. PICK u : u = [t EXCEPT !.at = IF empty = {} THEN "write" ELSE "collect",
                             !.watch = {}, !.doomed = empty]
  OBVIOUS
<1>5. Goes(p, u)
  BY <1>1, <1>3, <1>4 DEF Look, Now, Goes
<1>6. t.at = "look"
  BY <1>1 DEF Look
<1>7. /\ u \in Tx /\ SameRequest(t, u) /\ SameRows(t, u)
      /\ u.put = t.put /\ u.dead = t.dead /\ u.caught = t.caught
      /\ u.at = (IF empty = {} THEN "write" ELSE "collect")
      /\ u.watch = {} /\ u.doomed = empty
  BY <1>1, <1>2, <1>4 DEF Tx, Points, SameRequest, SameRows
<1>8. Shape(u)
  BY <1>1, <1>6, <1>7 DEF Sound, Shape, Kinds, Stages, SameRequest, SameRows, Writing
<1>9. t.op # "drop"
  BY <1>1, <1>6 DEF Sound, Shape, Stages
<1>10. \A r : Read(u, r) = Read(t, r)
  BY <1>7 DEF Read
<1>11. ASSUME t.calm PROVE Loaded(u)
  BY <1>1, <1>2, <1>7, <1>11 DEF Sound, Undisturbed, Loaded, SameRequest, SameRows
<1>12. ASSUME t.calm PROVE Once(u) /\ Aimed(u)
  <2>1. Once(t) /\ Aimed(t)
    BY <1>1, <1>12 DEF Sound, Undisturbed
  <2>2. Once(u)
    BY <1>7, <2>1 DEF Once, SameRequest, SameRows
  <2>3. Aimed(u)
    BY <1>7, <2>1 DEF Aimed, SameRequest, SameRows
  <2> QED
    BY <2>2, <2>3
<1>13. ASSUME t.calm PROVE Emptied(u)
  BY <1>2, <1>7, <1>10 DEF Emptied, NoneIn
<1>14. ASSUME t.calm, "disjoint patch" \in Avoided PROVE StayEmpty(u)
  <2>1. StayEmpty(t)
    BY <1>1, <1>14 DEF Sound
  <2>2. DOMAIN t.put \subseteq Row
    BY <1>1, PartialIs DEF Tx
  <2>3. t.op = "bulk" => empty = {}
    BY <1>2, <2>1, <2>2 DEF StayEmpty, NoneIn, Read
  <2> QED
    BY <1>2, <1>6, <1>7, <1>10, <2>1, <2>3 DEF StayEmpty, NoneIn, SameRequest, SameRows
<1>15. ASSUME t.calm, "patch without rows" \in Avoided PROVE OnTheirWay(u)
  <2>1. OnTheirWay(t)
    BY <1>1, <1>15 DEF Sound
  <2>2. AskedFor(u)
    BY <1>6, <1>7, <1>9, <2>1 DEF OnTheirWay, AskedFor, ToLeave, Unread, SameRequest, SameRows
  <2>3. ToLeave(u)
    BY <1>6, <1>7, <1>9, <2>1 DEF OnTheirWay, ToLeave, Unread, SameRequest, SameRows
  <2>4. OnlyThese(u)
    BY <1>6, <1>7, <1>9, <2>1 DEF OnTheirWay, OnlyThese, Unread, SameRequest, SameRows
  <2> QED
    BY <2>2, <2>3, <2>4 DEF OnTheirWay
<1>16. ASSUME t.calm, {"bulk move", "single delete"} \subseteq Avoided PROVE LookedAt(u)
  <2>1. LookedAt(t)
    BY <1>1, <1>16 DEF Sound
  <2>2. NotLost(u)
    <3>1. ASSUME NEW g \in live, ~Unused(g), NoneIn(u, g)
          PROVE  g \in u.watch \cup u.doomed \cup u.dead
      <4>1. NoneIn(t, g)
        BY <3>1, <1>10 DEF NoneIn
      <4>2. g \in t.watch \cup t.doomed \cup t.dead
        BY <2>1, <3>1, <4>1 DEF LookedAt, NotLost
      <4>3. t.doomed = {}
        BY <1>1, <1>6 DEF Sound, Shape, Stages
      <4> QED
        BY <1>2, <1>7, <4>1, <4>2, <4>3
    <3> QED
      BY <3>1 DEF NotLost
  <2> QED
    BY <1>7, <2>1, <2>2 DEF LookedAt, Stays, Founded, SameRequest, SameRows
<1>17. Sound(u)
  BY <1>7, <1>8, <1>11, <1>12, <1>13, <1>14, <1>15, <1>16
     DEF Sound, Undisturbed, SameRequest
<1> QED
  BY <1>5, <1>17, GoesKeeps

LEMMA CollectKeeps ==
  ASSUME Inv, NEW p \in Process, Collect(p)
  PROVE  Inv'
<1>1. PICK t : t = tx[p] /\ Sound(t) /\ t \in Tx
  BY DEF Inv
<1>2. PICK doomed : doomed = t.doomed \cap ReadGroups(t)
  OBVIOUS
<1>3. PICK caught : caught = {r \in Row : Read(t, r) \in doomed}
  OBVIOUS
<1>4. /\ doomed = t.doomed \cap SeenGroups(p)
      /\ caught = UNION {SeenIn(p, g) : g \in doomed}
  BY <1>1, <1>2, <1>3 DEF SeenGroups, ReadGroups, SeenIn, Seen, Read
<1>5. PICK u : u = [t EXCEPT !.at = "purge", !.doomed = doomed, !.caught = caught]
  OBVIOUS
<1>6. Goes(p, u) /\ t.at = "collect"
  BY <1>1, <1>4, <1>5 DEF Collect, Now, Goes
<1>7. /\ u \in Tx /\ SameRequest(t, u) /\ SameRows(t, u)
      /\ u.put = t.put /\ u.dead = t.dead /\ u.watch = t.watch
      /\ u.at = "purge" /\ u.doomed = doomed /\ u.caught = caught
  BY <1>1, <1>2, <1>3, <1>5 DEF Tx, Points, SameRequest, SameRows
<1>8. Shape(u)
  BY <1>1, <1>6, <1>7 DEF Sound, Shape, Kinds, Stages, SameRequest, SameRows, Writing
<1>9. \A r : Read(u, r) = Read(t, r)
  BY <1>7 DEF Read
<1>10. ASSUME t.calm PROVE Loaded(u)
  BY <1>1, <1>2, <1>7, <1>10 DEF Sound, Undisturbed, Loaded, SameRequest, SameRows
<1>11. ASSUME t.calm PROVE Once(u) /\ Aimed(u)
  <2>1. Once(t) /\ Aimed(t)
    BY <1>1, <1>11 DEF Sound, Undisturbed
  <2>2. Once(u)
    BY <1>7, <2>1 DEF Once, SameRequest, SameRows
  <2>3. Aimed(u)
    BY <1>7, <2>1 DEF Aimed, SameRequest, SameRows
  <2> QED
    BY <2>2, <2>3
<1>12. ASSUME t.calm PROVE Emptied(u)
  <2>1. Emptied(t) /\ Loaded(t)
    BY <1>1, <1>12 DEF Sound, Undisturbed
  <2>2. t.op = "drop" => doomed = {t.to}
    <3>1. t.op = "drop" => t.doomed = {t.to} /\ t.dead = {} /\ t.to \in live
      BY <1>1, <1>6, <2>1 DEF Sound, Shape, Stages, Loaded
    <3> QED
      BY <1>2, <3>1 DEF ReadGroups
  <2> QED
    BY <1>2, <1>3, <1>7, <1>9, <2>1, <2>2 DEF Emptied, NoneIn, SameRequest
<1>13. ASSUME t.calm, "disjoint patch" \in Avoided PROVE StayEmpty(u)
  <2>1. StayEmpty(t)
    BY <1>1, <1>13 DEF Sound
  <2> QED
    BY <1>2, <1>6, <1>7, <1>9, <2>1 DEF StayEmpty, NoneIn, SameRequest, SameRows
<1>14. ASSUME t.calm, "patch without rows" \in Avoided PROVE OnTheirWay(u)
  <2>1. OnTheirWay(t)
    BY <1>1, <1>14 DEF Sound
  <2>2. AskedFor(u)
    BY <1>6, <1>7, <2>1 DEF OnTheirWay, AskedFor, ToLeave, Unread, SameRequest, SameRows
  <2>3. ToLeave(u)
    BY <1>6, <1>7, <2>1 DEF OnTheirWay, ToLeave, Unread, SameRequest, SameRows
  <2>4. OnlyThese(u)
    BY <1>6, <1>7, <2>1 DEF OnTheirWay, OnlyThese, Unread, SameRequest, SameRows
  <2> QED
    BY <2>2, <2>3, <2>4 DEF OnTheirWay
<1>15. ASSUME t.calm, {"bulk move", "single delete"} \subseteq Avoided PROVE LookedAt(u)
  <2>1. LookedAt(t)
    BY <1>1, <1>15 DEF Sound
  <2>2. NotLost(u)
    BY <1>2, <1>7, <1>9, <2>1 DEF LookedAt, NotLost, NoneIn, ReadGroups
  <2> QED
    BY <1>7, <2>1, <2>2 DEF LookedAt, Stays, Founded, SameRequest, SameRows
<1>16. Sound(u)
  BY <1>7, <1>8, <1>10, <1>11, <1>12, <1>13, <1>14, <1>15
     DEF Sound, Undisturbed, SameRequest
<1> QED
  BY <1>6, <1>16, GoesKeeps

LEMMA PurgeKeeps ==
  ASSUME Inv, NEW p \in Process, Purge(p)
  PROVE  Inv'
<1>1. PICK t : t = tx[p] /\ Sound(t) /\ t \in Tx
  BY DEF Inv
<1>2. PICK freed : freed = {r \in t.caught : Read(t, r) # Absent}
  OBVIOUS
<1>3. freed = {r \in t.caught : Seen(p, r) # Absent}
  BY <1>1, <1>2 DEF Seen, Read
<1>4. PICK put : /\ put = Put(t.put, freed, None) /\ put \in Partial
                 /\ DOMAIN put = DOMAIN t.put \cup freed
                 /\ \A r \in freed : put[r] = None
                 /\ \A r \in DOMAIN t.put \ freed : put[r] = t.put[r]
  <2>1. freed \subseteq Row /\ t.put \in Partial /\ None \in Place
    BY <1>1, <1>2, PlacesAre DEF Tx
  <2>2. PICK put : put = Put(t.put, freed, None)
    OBVIOUS
  <2>3. put \in Partial
    BY <2>1, <2>2, PutPartial
  <2>4. DOMAIN put = DOMAIN t.put \cup freed
    BY <2>2 DEF Put
  <2>5. \A r \in DOMAIN put : put[r] = IF r \in freed THEN None ELSE t.put[r]
    BY <2>2 DEF Put
  <2> QED
    BY <2>2, <2>3, <2>4, <2>5
<1>5. PICK u : u = [t EXCEPT !.at = "write", !.doomed = {}, !.caught = {},
                             !.put = put, !.dead = t.dead \cup t.doomed]
  OBVIOUS
<1>6. Goes(p, u) /\ t.at = "purge"
  BY <1>1, <1>3, <1>4, <1>5 DEF Purge, Now, Goes
<1>7. /\ u \in Tx /\ SameRequest(t, u) /\ SameRows(t, u) /\ u.watch = t.watch
      /\ u.at = "write" /\ u.doomed = {} /\ u.caught = {}
      /\ u.put = put /\ u.dead = t.dead \cup t.doomed
  BY <1>1, <1>4, <1>5 DEF Tx, Points, SameRequest, SameRows
<1>8. Shape(u)
  BY <1>1, <1>6, <1>7 DEF Sound, Shape, Kinds, Stages, SameRequest, SameRows, Writing
<1>9. \A r : Read(u, r) = IF r \in freed THEN None ELSE Read(t, r)
  BY <1>4, <1>7 DEF Read
<1>10. t.doomed \subseteq Group /\ t.dead \subseteq Group
  BY <1>1 DEF Tx
<1>11. ASSUME t.calm
       PROVE  \A r \in Row : r \in freed <=> Read(t, r) \in t.doomed
  <2>1. \A r \in Row : r \in t.caught <=> Read(t, r) \in t.doomed
    BY <1>1, <1>6, <1>11 DEF Sound, Undisturbed, Emptied
  <2> QED
    BY <1>2, <1>10, <2>1, PlacesAre
<1>12. freed \subseteq Row
  BY <1>1, <1>2 DEF Tx
<1>13. ASSUME t.calm, t.op # "drop" PROVE freed = {}
  <2>1. \A g \in t.doomed : NoneIn(t, g)
    BY <1>1, <1>13 DEF Sound, Undisturbed, Emptied
  <2> QED
    BY <1>11, <1>12, <1>13, <2>1 DEF NoneIn
<1>14. t.op = "drop" => DOMAIN t.aim = {} /\ t.out = {} /\ DOMAIN t.put = {}
  BY <1>1, <1>6 DEF Sound, Shape, Kinds, Stages, Writing
<1>15. ASSUME t.calm PROVE Loaded(u)
  BY <1>1, <1>7, <1>15 DEF Sound, Undisturbed, Loaded, SameRequest, SameRows
<1>16. ASSUME t.calm PROVE Once(u)
  <2>1. Once(t)
    BY <1>1, <1>16 DEF Sound, Undisturbed
  <2> QED
    BY <1>4, <1>7, <1>13, <1>14, <1>16, <2>1 DEF Once, SameRequest, SameRows
<1>17. ASSUME t.calm PROVE Aimed(u)
  <2>1. Aimed(t)
    BY <1>1, <1>17 DEF Sound, Undisturbed
  <2> QED
    BY <1>4, <1>7, <2>1 DEF Aimed, SameRequest, SameRows
<1>18. Emptied(u)
  BY <1>7 DEF Emptied
<1>19. ASSUME t.calm, "disjoint patch" \in Avoided PROVE StayEmpty(u)
  <2>1. StayEmpty(t)
    BY <1>1, <1>19 DEF Sound
  <2>2. \A g \in u.dead : NoneIn(u, g)
    <3> SUFFICES ASSUME NEW g \in u.dead, NEW r \in Row, Read(u, r) = g PROVE FALSE
      BY DEF NoneIn
    <3>1. g # None
      BY <1>7, <1>10, PlacesAre
    <3>2. r \notin freed /\ Read(t, r) = g
      BY <1>9, <3>1
    <3>3. g \notin t.doomed
      BY <1>11, <1>19, <3>2
    <3> QED
      BY <1>7, <2>1, <3>2, <3>3 DEF StayEmpty, NoneIn
  <2>3. t.watch = {} 
    BY <1>1, <1>6 DEF Sound, Shape, Stages
  <2>4. t.op = "patch" => freed = {}
    BY <1>13, <1>19
  <2> QED
    BY <1>4, <1>6, <1>7, <2>1, <2>2, <2>3, <2>4 DEF StayEmpty, SameRequest, SameRows
<1>20. ASSUME t.calm, "patch without rows" \in Avoided PROVE OnTheirWay(u)
  <2>1. OnTheirWay(t)
    BY <1>1, <1>20 DEF Sound
  <2>2. ASSUME t.op = "drop"
        PROVE  \A r \in Row : r \in freed <=> group[r] = t.to
    <3>1. t.doomed = {t.to}
      BY <1>1, <1>6, <1>20, <2>2 DEF Sound, Undisturbed, Emptied
    <3> QED
      BY <1>11, <1>14, <1>20, <2>2, <3>1 DEF Read
  <2>3. DOMAIN t.ask \subseteq Row
    BY <1>1, PartialIs DEF Tx
  <2>4. \A r \in freed : r \in DOMAIN t.ask /\ t.ask[r] = None
    BY <1>6, <1>12, <1>13, <1>14, <1>20, <2>1, <2>2 DEF OnTheirWay, ToLeave, Unread
  <2>5. AskedFor(u)
    BY <1>4, <1>7, <2>1, <2>4 DEF OnTheirWay, AskedFor, SameRequest, SameRows
  <2>6. ToLeave(u)
    BY <1>7 DEF ToLeave, Unread
  <2>7. OnlyThese(u)
    BY <1>4, <1>6, <1>7, <2>1, <2>2, <2>3 DEF OnTheirWay, OnlyThese, Unread, SameRequest, SameRows
  <2> QED
    BY <2>5, <2>6, <2>7 DEF OnTheirWay
<1>21. ASSUME t.calm, {"bulk move", "single delete"} \subseteq Avoided PROVE LookedAt(u)
  <2>1. LookedAt(t)
    BY <1>1, <1>21 DEF Sound
  <2>2. NotLost(u)
    <3>1. ASSUME NEW g \in live, ~Unused(g), NoneIn(u, g)
          PROVE  g \in u.watch \cup u.doomed \cup u.dead
      <4>1. CASE NoneIn(t, g)
        BY <1>7, <2>1, <3>1, <4>1 DEF LookedAt, NotLost
      <4>2. CASE ~NoneIn(t, g)
        <5>1. PICK r \in Row : Read(t, r) = g
          BY <4>2 DEF NoneIn
        <5>2. r \in freed
          BY <1>9, <3>1, <5>1 DEF NoneIn
        <5> QED
          BY <1>7, <1>11, <1>21, <5>1, <5>2
      <4> QED
        BY <4>1, <4>2
    <3> QED
      BY <3>1 DEF NotLost
  <2>3. Stays(u)
    BY <1>4, <1>7, <1>13, <1>21, <2>1 DEF LookedAt, Stays, SameRequest, SameRows
  <2>4. Founded(u)
    <3>1. t.made # {} => freed = {}
      BY <1>1, <1>13, <1>21 DEF Sound, Shape, Kinds
    <3> QED
      BY <1>4, <1>7, <2>1, <3>1 DEF LookedAt, Founded, SameRequest, SameRows
  <2> QED
    BY <2>2, <2>3, <2>4 DEF LookedAt
<1>22. Sound(u)
  BY <1>7, <1>8, <1>15, <1>16, <1>17, <1>18, <1>19, <1>20, <1>21
     DEF Sound, Undisturbed, SameRequest
<1> QED
  BY <1>6, <1>22, GoesKeeps

(* A row is dropped from what remains to be written.                       *)
Without(t, r, u) ==
  /\ u \in Tx /\ SameRequest(t, u)
  /\ u.at = t.at /\ u.put = t.put /\ u.dead = t.dead /\ u.watch = t.watch
  /\ u.doomed = t.doomed /\ u.caught = t.caught
  /\ u.out = t.out \ {r} /\ DOMAIN u.aim = DOMAIN u.seen
  /\ DOMAIN u.aim = IF r \in t.out THEN DOMAIN t.aim ELSE DOMAIN t.aim \ {r}
  /\ \A s \in DOMAIN u.aim : u.aim[s] = t.aim[s] /\ u.seen[s] = t.seen[s]

LEMMA DroppedIs ==
  ASSUME NEW t \in Tx, DOMAIN t.aim = DOMAIN t.seen, NEW r
  PROVE  Without(t, r, Dropped(t, r))
<1>1. CASE r \in t.out
  BY <1>1 DEF Dropped, Tx, SameRequest, Without
<1>2. CASE r \notin t.out
  <2>1. PICK aim : aim = [s \in DOMAIN t.aim \ {r} |-> t.aim[s]] /\ aim \in Partial
    BY LessPartial DEF Tx
  <2>2. PICK seen : seen = [s \in DOMAIN t.seen \ {r} |-> t.seen[s]] /\ seen \in Partial
    BY LessPartial DEF Tx
  <2>3. PICK u : u = [t EXCEPT !.aim = aim, !.seen = seen]
    OBVIOUS
  <2>4. u = Dropped(t, r)
    BY <1>2, <2>1, <2>2, <2>3 DEF Dropped
  <2>5. /\ u \in Tx /\ SameRequest(t, u)
        /\ u.at = t.at /\ u.put = t.put /\ u.dead = t.dead /\ u.watch = t.watch
        /\ u.doomed = t.doomed /\ u.caught = t.caught
        /\ u.out = t.out /\ u.aim = aim /\ u.seen = seen
    BY <2>1, <2>2, <2>3 DEF Tx, SameRequest
  <2>6. Without(t, r, u)
    BY <1>2, <2>1, <2>2, <2>5 DEF Without
  <2> QED
    BY <2>4, <2>6
<1> QED
  BY <1>1, <1>2

LEMMA RemainingIs ==
  ASSUME NEW t, Shape(t), NEW r \in Remaining(t)
  PROVE  /\ r \in Row
         /\ \/ r \in t.out /\ t.op = "patch"
            \/ r \notin t.out /\ t.out = {} /\ r \in DOMAIN t.aim /\ t.op \in Writing
<1>1. t.out \subseteq Row /\ DOMAIN t.aim \subseteq Row
  BY PartialIs DEF Shape, Tx
<1> QED
  BY <1>1 DEF Remaining, Shape, Kinds

(* A row that is where a PATCH of its group wants it.                      *)
LEMMA ThereKeeps ==
  ASSUME Inv, NEW p \in Process, NEW r \in Remaining(tx[p]),
         NEW t, t = tx[p], t.at = "write", t.op = "patch", r \notin t.out,
         Read(t, r) = t.to,
         NEW u, u = Dropped(t, r), Goes(p, u)
  PROVE  Inv'
<1>1. Sound(t) /\ Shape(t) /\ t \in Tx
  BY DEF Inv, Sound
<1>2. r \in Row /\ t.out = {} /\ r \in DOMAIN t.aim
  BY <1>1, RemainingIs
<1>3. /\ u \in Tx /\ SameRequest(t, u)
      /\ u.at = t.at /\ u.put = t.put /\ u.dead = t.dead /\ u.watch = t.watch
      /\ u.doomed = t.doomed /\ u.caught = t.caught
      /\ u.out = {} /\ DOMAIN u.aim = DOMAIN u.seen
      /\ DOMAIN u.aim = DOMAIN t.aim \ {r}
      /\ \A s \in DOMAIN u.aim : u.aim[s] = t.aim[s] /\ u.seen[s] = t.seen[s]
  <2>1. DOMAIN t.aim = DOMAIN t.seen
    BY <1>1 DEF Shape
  <2>2. Without(t, r, u)
    BY <1>1, <2>1, DroppedIs
  <2> QED
    BY <1>2, <2>2 DEF Without
<1>4. Shape(u)
  BY <1>1, <1>3 DEF Shape, Kinds, Stages, SameRequest, Writing
<1>5. \A s : Read(u, s) = Read(t, s)
  BY <1>3 DEF Read
<1>6. ASSUME t.calm PROVE Loaded(u)
  <2>1. Loaded(t) /\ DOMAIN t.aim = DOMAIN t.seen
    BY <1>1, <1>6 DEF Sound, Undisturbed, Shape
  <2> QED
    BY <1>2, <1>3, <2>1 DEF Loaded, SameRequest
<1>7. ASSUME t.calm PROVE Once(u)
  BY <1>1, <1>3, <1>7 DEF Sound, Undisturbed, Once, SameRequest
<1>8. ASSUME t.calm PROVE Aimed(u)
  <2>1. Aimed(t) /\ DOMAIN t.aim = DOMAIN t.seen
    BY <1>1, <1>8 DEF Sound, Undisturbed, Shape
  <2> QED
    BY <1>2, <1>3, <2>1 DEF Aimed, SameRequest
<1>9. Emptied(u)
  BY <1>1, <1>3 DEF Emptied, Shape, Stages, SameRequest
<1>10. t.calm => group[r] = t.to /\ t.aim[r] = t.to
  BY <1>1, <1>2 DEF Sound, Undisturbed, Once, Aimed, Read
<1>11. ASSUME t.calm, "disjoint patch" \in Avoided PROVE StayEmpty(u)
  <2>1. StayEmpty(t)
    BY <1>1, <1>11 DEF Sound
  <2> QED
    BY <1>2, <1>3, <1>5, <2>1 DEF StayEmpty, NoneIn, SameRequest
<1>12. ASSUME t.calm, "patch without rows" \in Avoided PROVE OnTheirWay(u)
  <2>1. OnTheirWay(t)
    BY <1>1, <1>12 DEF Sound
  <2>2. AskedFor(u)
    BY <1>3, <2>1 DEF OnTheirWay, AskedFor, SameRequest
  <2>3. ToLeave(u)
    BY <1>3 DEF ToLeave, Unread, SameRequest
  <2>4. t.ask[r] = t.to
    BY <1>2, <1>10, <1>12, <2>1 DEF OnTheirWay, AskedFor
  <2>5. OnlyThese(u)
    <3>1. OnlyThese(t)
      BY <2>1 DEF OnTheirWay
    <3>2. \A s : s \in DOMAIN t.aim => s = r \/ s \in DOMAIN u.aim
      BY <1>3
    <3>3. Unread(u) <=> Unread(t)
      BY <1>3 DEF Unread, SameRequest
    <3>4. u.ask = t.ask /\ u.to = t.to /\ u.put = t.put /\ u.out = {} /\ t.out = {}
      BY <1>2, <1>3 DEF SameRequest
    <3>5. group[r] = t.ask[r]
      BY <1>10, <1>12, <2>4
    <3> QED
      BY <3>1, <3>2, <3>3, <3>4, <3>5 DEF OnlyThese
  <2> QED
    BY <2>2, <2>3, <2>5 DEF OnTheirWay
<1>13. ASSUME t.calm, {"bulk move", "single delete"} \subseteq Avoided PROVE LookedAt(u)
  <2>1. LookedAt(t) /\ t.made = {}
    BY <1>1, <1>13 DEF Sound, Shape, Kinds
  <2>2. NotLost(u)
    BY <1>3, <1>5, <2>1 DEF LookedAt, NotLost, NoneIn
  <2>3. Stays(u) /\ Founded(u)
    BY <1>3, <2>1 DEF Stays, Founded, SameRequest
  <2> QED
    BY <2>2, <2>3 DEF LookedAt
<1>14. Sound(u)
  BY <1>3, <1>4, <1>6, <1>7, <1>8, <1>9, <1>11, <1>12, <1>13
     DEF Sound, Undisturbed, SameRequest
<1> QED
  BY <1>14, GoesKeeps

(* Where a row goes.                                                       *)
Target(t, r) == IF r \in t.out THEN None ELSE t.aim[r]

LEMMA TargetIs ==
  ASSUME NEW t, Shape(t), NEW r \in Remaining(t)
  PROVE  /\ Target(t, r) \in Place
         /\ t.op = "bulk" => Target(t, r) # Absent
<1>1. /\ \A s \in DOMAIN t.aim : t.aim[s] \in Place
      /\ t.op = "bulk" => \A s \in DOMAIN t.aim : t.aim[s] # Absent
  BY PartialIs DEF Shape, Tx, Kinds
<1> QED
  BY <1>1, RemainingIs, PlacesAre DEF Target

LEMMA WatchedIs ==
  ASSUME NEW t, Shape(t), NEW r \in Remaining(t), NEW W,
         W = Watched(t, r, Target(t, r))
  PROVE  /\ W \subseteq Group
         /\ r \in t.out => W = {t.to} \ {None, Absent}
         /\ r \notin t.out /\ t.op \in {"row", "post", "patch"} =>
              W = ({t.seen[r]} \ {Target(t, r)}) \ {None, Absent}
         /\ t.op = "bulk" => W = {Target(t, r)} \ {None}
         /\ t.op = "erase" => W = {t.seen[r]} \ {None, Absent}
         /\ t.op = "delete" => W = {}
<1>1. /\ DOMAIN t.aim = DOMAIN t.seen /\ t.to \in Group \cup {None}
      /\ \A s \in DOMAIN t.seen : t.seen[s] \in Group \cup {None, Absent}
  BY PartialIs DEF Shape, Tx, Place
<1>2. \/ r \in t.out /\ t.op = "patch"
      \/ r \notin t.out /\ r \in DOMAIN t.aim /\ t.op \in Writing
  BY RemainingIs
<1>3. /\ Target(t, r) \in Group \cup {None, Absent}
      /\ t.op = "bulk" => Target(t, r) # Absent
  BY TargetIs DEF Place
<1>4. CASE r \in t.out
  BY <1>1, <1>2, <1>4, PlacesAre DEF Watched
<1>5. CASE r \notin t.out /\ t.op \in {"row", "post", "patch"}
  BY <1>1, <1>2, <1>5, PlacesAre DEF Watched
<1>6. CASE r \notin t.out /\ t.op = "bulk"
  BY <1>3, <1>6 DEF Watched
<1>7. CASE r \notin t.out /\ t.op = "erase"
  BY <1>1, <1>2, <1>7, PlacesAre DEF Watched
<1>8. CASE r \notin t.out /\ t.op = "delete"
  BY <1>8 DEF Watched
<1> QED
  BY <1>2, <1>4, <1>5, <1>6, <1>7, <1>8 DEF Writing

(* A row is written; W is what is left to look at.                         *)
Written(t, r, W, u) ==
  /\ u \in Tx /\ SameRequest(t, u)
  /\ u.dead = t.dead /\ u.doomed = t.doomed /\ u.caught = t.caught
  /\ u.out = t.out \ {r} /\ DOMAIN u.aim = DOMAIN u.seen
  /\ DOMAIN u.aim = IF r \in t.out THEN DOMAIN t.aim ELSE DOMAIN t.aim \ {r}
  /\ \A s \in DOMAIN u.aim : u.aim[s] = t.aim[s] /\ u.seen[s] = t.seen[s]
  /\ u.watch = t.watch \cup W
  /\ u.at \in {"write", "look"}
  /\ u.at = "write" <=>
       u.watch = {} \/ (u.op \in {"bulk", "erase"} /\ DOMAIN u.aim # {})
  /\ IF Read(t, r) = Absent /\ t.op = "bulk" THEN u.put = t.put
     ELSE /\ DOMAIN u.put = DOMAIN t.put \cup {r} /\ u.put[r] = Target(t, r)
          /\ \A s \in DOMAIN t.put \ {r} : u.put[s] = t.put[s]

LEMMA WriteIs ==
  ASSUME Inv, NEW p \in Process, NEW r \in Row, Write(p, r), ~Fail(p)
  PROVE  /\ tx[p].at = "write" /\ r \in Remaining(tx[p])
         /\ Read(tx[p], r) = Absent => tx[p].op \in {"row", "bulk"}
         /\ \/ /\ tx[p].op = "patch" /\ r \notin tx[p].out
               /\ Read(tx[p], r) = tx[p].to
               /\ Goes(p, Dropped(tx[p], r))
            \/ /\ ~(tx[p].op = "patch" /\ r \notin tx[p].out /\ Read(tx[p], r) = tx[p].to)
               /\ \E W, u : /\ W = Watched(tx[p], r, Target(tx[p], r))
                            /\ Written(tx[p], r, W, u) /\ Goes(p, u)
<1>1. PICK t : t = tx[p] /\ Sound(t) /\ Shape(t) /\ t \in Tx
  BY DEF Inv, Sound
<1>2. PICK g : g = Target(t, r)
  OBVIOUS
<1>3. g = IF r \in t.out THEN None ELSE t.aim[r]
  BY <1>2 DEF Target
<1>4. Seen(p, r) = Read(t, r)
  BY <1>1 DEF Seen, Read
<1>5. PICK rest : rest = Dropped(t, r)
  OBVIOUS
<1>6. PICK W : W = Watched(t, r, g)
  OBVIOUS
<1>7. PICK looking : looking = [rest EXCEPT !.watch = rest.watch \cup W]
  OBVIOUS
<1>8. PICK put : put = IF Read(t, r) = Absent /\ t.op = "bulk" THEN looking.put
                       ELSE Put(looking.put, {r}, g)
  OBVIOUS
<1>9. PICK u : u = [looking EXCEPT !.at = AfterWrite(looking), !.put = put]
  OBVIOUS
<1>10. /\ t.at = "write" /\ r \in Remaining(t)
       /\ Read(t, r) = Absent => t.op \notin {"post", "patch", "erase", "delete"}
       /\ Now(p, IF t.op = "patch" /\ r \notin t.out /\ Read(t, r) = t.to THEN rest ELSE u)
       /\ UNCHANGED <<group, live, old>>
  BY <1>1, <1>3, <1>4, <1>5, <1>6, <1>7, <1>8, <1>9 DEF Write
<1>11. t.op \in Writing
  BY <1>1, <1>10, RemainingIs DEF Writing
<1>12. Without(t, r, rest)
  BY <1>1, <1>5, DroppedIs DEF Shape
<1>13. W \subseteq Group /\ g \in Place
  BY <1>1, <1>2, <1>6, <1>10, WatchedIs, TargetIs
<1>14. /\ looking \in Tx /\ SameRequest(t, looking) /\ looking.put = t.put
       /\ looking.dead = t.dead /\ looking.doomed = t.doomed
       /\ looking.caught = t.caught /\ looking.out = rest.out
       /\ looking.aim = rest.aim /\ looking.seen = rest.seen
       /\ looking.watch = t.watch \cup W
  BY <1>7, <1>12, <1>13 DEF Without, Tx, SameRequest
<1>15. put \in Partial
  <2>1. t.put \in Partial /\ {r} \subseteq Row
    BY <1>1 DEF Tx
  <2>2. Put(t.put, {r}, g) \in Partial
    BY <1>13, <2>1, PutPartial
  <2> QED
    BY <1>8, <1>14, <2>1, <2>2
<1>16. IF Read(t, r) = Absent /\ t.op = "bulk" THEN put = t.put
       ELSE /\ DOMAIN put = DOMAIN t.put \cup {r} /\ put[r] = g
            /\ \A s \in DOMAIN t.put \ {r} : put[s] = t.put[s]
  BY <1>8, <1>14 DEF Put
<1>17. /\ AfterWrite(looking) \in {"write", "look"}
       /\ AfterWrite(looking) = "write" <=>
            looking.watch = {} \/ (looking.op \in {"bulk", "erase"} /\ DOMAIN looking.aim # {})
  BY DEF AfterWrite
<1>18. /\ u \in Tx /\ SameRequest(t, u) /\ u.dead = t.dead /\ u.doomed = t.doomed
       /\ u.caught = t.caught /\ u.out = rest.out /\ u.aim = rest.aim
       /\ u.seen = rest.seen /\ u.watch = t.watch \cup W
       /\ u.at = AfterWrite(looking) /\ u.put = put
  BY <1>9, <1>14, <1>15, <1>17 DEF Tx, Points, SameRequest
<1>19. Written(t, r, W, u)
  <2>1. /\ u.at \in {"write", "look"}
        /\ u.at = "write" <=>
             u.watch = {} \/ (u.op \in {"bulk", "erase"} /\ DOMAIN u.aim # {})
    BY <1>14, <1>17, <1>18 DEF SameRequest
  <2>2. /\ u.out = t.out \ {r} /\ DOMAIN u.aim = DOMAIN u.seen
        /\ DOMAIN u.aim = IF r \in t.out THEN DOMAIN t.aim ELSE DOMAIN t.aim \ {r}
        /\ \A s \in DOMAIN u.aim : u.aim[s] = t.aim[s] /\ u.seen[s] = t.seen[s]
    BY <1>12, <1>18 DEF Without
  <2> QED
    BY <1>2, <1>16, <1>18, <2>1, <2>2 DEF Written
<1>20. CASE t.op = "patch" /\ r \notin t.out /\ Read(t, r) = t.to
  BY <1>1, <1>5, <1>10, <1>11, <1>20 DEF Goes, Now, Writing
<1>21. CASE ~(t.op = "patch" /\ r \notin t.out /\ Read(t, r) = t.to)
  <2>1. Goes(p, u)
    BY <1>10, <1>21 DEF Goes, Now
  <2>2. W = Watched(t, r, Target(t, r))
    BY <1>2, <1>6
  <2> QED
    BY <1>1, <1>10, <1>11, <1>19, <1>21, <2>1, <2>2 DEF Writing
<1> QED
  BY <1>20, <1>21

LEMMA WrittenShape ==
  ASSUME NEW t, Shape(t), t.at = "write", NEW r \in Remaining(t),
         NEW W, NEW u, Written(t, r, W, u)
  PROVE  Shape(u)
<1>1. /\ u \in Tx /\ u.op = t.op /\ u.made = t.made /\ u.to = t.to
      /\ u.dead = t.dead /\ u.doomed = {} /\ u.caught = {}
      /\ u.out = t.out \ {r} /\ DOMAIN u.aim = DOMAIN u.seen
      /\ DOMAIN u.aim \subseteq DOMAIN t.aim
      /\ \A s \in DOMAIN u.aim : u.aim[s] = t.aim[s]
      /\ u.at \in {"write", "look"}
      /\ u.at = "write" <=>
           u.watch = {} \/ (u.op \in {"bulk", "erase"} /\ DOMAIN u.aim # {})
  BY DEF Written, SameRequest, Shape, Stages
<1>2. t.op \in Writing
  BY RemainingIs DEF Writing
<1>3. Kinds(u)
  BY <1>1, <1>2 DEF Shape, Kinds
<1>4. Stages(u)
  BY <1>1, <1>2 DEF Stages, Writing
<1> QED
  BY <1>1, <1>3, <1>4 DEF Shape

(* What a calm transaction knows of the row it writes.                     *)
LEMMA WritesLoaded ==
  ASSUME Inv, NEW t \in Tx, Sound(t), t.calm, t.at = "write",
         NEW r \in Remaining(t)
  PROVE  /\ r \notin DOMAIN t.put /\ Read(t, r) = group[r]
         /\ r \in t.out => /\ group[r] = t.to /\ r \notin DOMAIN t.aim
                           /\ Target(t, r) = None /\ t.to \in live
         /\ r \notin t.out =>
              /\ Target(t, r) = t.aim[r]
              /\ \/ group[r] # Absent /\ t.seen[r] = group[r]
                 \/ group[r] = Absent /\ t.seen[r] = None /\ t.op = "row"
         /\ Target(t, r) \in live \cup t.made \cup {None, Absent}
         /\ group[r] \in live \cup {None, Absent}
<1>1. Loaded(t) /\ Once(t) /\ Aimed(t) /\ Shape(t)
  BY DEF Sound, Undisturbed
<1>2. /\ r \in Row
      /\ \/ r \in t.out /\ t.op = "patch"
         \/ r \notin t.out /\ t.out = {} /\ r \in DOMAIN t.aim /\ t.op \in Writing
  BY <1>1, RemainingIs
<1>3. r \notin DOMAIN t.put /\ Read(t, r) = group[r]
  BY <1>1, <1>2 DEF Once, Read
<1>4. r \in t.out => /\ group[r] = t.to /\ r \notin DOMAIN t.aim
                     /\ Target(t, r) = None /\ t.to \in live
  BY <1>1, <1>2 DEF Loaded, Once, Target
<1>5. r \notin t.out =>
        /\ Target(t, r) = t.aim[r]
        /\ \/ group[r] # Absent /\ t.seen[r] = group[r]
           \/ group[r] = Absent /\ t.seen[r] = None /\ t.op = "row"
  <2>1. DOMAIN t.aim = DOMAIN t.seen
    BY <1>1 DEF Shape
  <2> QED
    BY <1>1, <1>2, <2>1 DEF Loaded, Target
<1>6. r \notin t.out => t.aim[r] \in live \cup t.made \cup {None, Absent}
  BY <1>1, <1>2 DEF Aimed, Loaded, Writing
<1>7. group[r] \in live \cup {None, Absent}
  BY <1>2 DEF Inv, Settled, KeysExist
<1> QED
  BY <1>3, <1>4, <1>5, <1>6, <1>7

(* What it has left to look at are groups it took a row from, and for a    *)
(* bulk update those it gave one.                                          *)
LEMMA WatchesLoaded ==
  ASSUME Inv, NEW t \in Tx, Sound(t), t.calm, t.at = "write",
         NEW r \in Remaining(t), NEW W, W = Watched(t, r, Target(t, r))
  PROVE  /\ W \subseteq live
         /\ t.op # "bulk" => \A g \in W : Read(t, r) = g /\ g # Target(t, r)
         /\ t.op = "bulk" => \A g \in W : Target(t, r) = g
         /\ t.op \notin {"bulk", "delete"} /\ Read(t, r) # Target(t, r) =>
              Read(t, r) \in W \cup {None, Absent}
<1>1. Shape(t) /\ Loaded(t) /\ Aimed(t)
  BY DEF Sound, Undisturbed
<1>2. /\ W \subseteq Group
      /\ r \in t.out => W = {t.to} \ {None, Absent}
      /\ r \notin t.out /\ t.op \in {"row", "post", "patch"} =>
           W = ({t.seen[r]} \ {Target(t, r)}) \ {None, Absent}
      /\ t.op = "bulk" => W = {Target(t, r)} \ {None}
      /\ t.op = "erase" => W = {t.seen[r]} \ {None, Absent}
      /\ t.op = "delete" => W = {}
  BY <1>1, WatchedIs
<1>3. /\ r \notin DOMAIN t.put /\ Read(t, r) = group[r]
      /\ r \in t.out => /\ group[r] = t.to /\ r \notin DOMAIN t.aim
                        /\ Target(t, r) = None /\ t.to \in live
      /\ r \notin t.out =>
           /\ Target(t, r) = t.aim[r]
           /\ \/ group[r] # Absent /\ t.seen[r] = group[r]
              \/ group[r] = Absent /\ t.seen[r] = None /\ t.op = "row"
      /\ group[r] \in live \cup {None, Absent}
  BY WritesLoaded
<1>4. \/ r \in t.out /\ t.op = "patch"
      \/ r \notin t.out /\ r \in DOMAIN t.aim /\ t.op \in Writing
  BY <1>1, RemainingIs
<1>5. live \subseteq Group
  BY DEF Inv, Settled
<1>6. CASE r \in t.out
  BY <1>2, <1>3, <1>4, <1>5, <1>6, PlacesAre
<1>7. CASE r \notin t.out /\ t.op \in {"row", "post", "patch"}
  BY <1>2, <1>3, <1>5, <1>7, PlacesAre
<1>8. CASE r \notin t.out /\ t.op = "bulk"
  <2>1. t.aim[r] \in {None} \cup live
    BY <1>1, <1>4, <1>8 DEF Aimed
  <2> QED
    BY <1>2, <1>3, <1>8, <2>1
<1>9. CASE r \notin t.out /\ t.op = "erase"
  <2>1. t.aim[r] = Absent
    BY <1>1, <1>4, <1>9 DEF Aimed
  <2> QED
    BY <1>2, <1>3, <1>5, <1>9, <2>1, PlacesAre
<1>10. CASE r \notin t.out /\ t.op = "delete"
  BY <1>2, <1>10
<1> QED
  BY <1>4, <1>6, <1>7, <1>8, <1>9, <1>10 DEF Writing

(* A row that is written, with all that it entails.                        *)
LEMMA WrittenSound ==
  ASSUME Inv, NEW t \in Tx, Sound(t), t.at = "write", NEW r \in Remaining(t),
         Read(t, r) = Absent => t.op \in {"row", "bulk"},
         ~(t.op = "patch" /\ r \notin t.out /\ Read(t, r) = t.to),
         NEW W, W = Watched(t, r, Target(t, r)), NEW u, Written(t, r, W, u)
  PROVE  Sound(u)
<1>1. Shape(t) /\ Shape(u)
  BY WrittenShape DEF Sound
<1>2. /\ r \in Row
      /\ \/ r \in t.out /\ t.op = "patch"
         \/ r \notin t.out /\ t.out = {} /\ r \in DOMAIN t.aim /\ t.op \in Writing
  BY <1>1, RemainingIs
<1>3. /\ u.op = t.op /\ u.ask = t.ask /\ u.to = t.to /\ u.made = t.made
      /\ u.calm = t.calm /\ u.dead = t.dead /\ u.doomed = {}
      /\ u.out = t.out \ {r} /\ DOMAIN u.aim = DOMAIN u.seen
      /\ DOMAIN u.aim = IF r \in t.out THEN DOMAIN t.aim ELSE DOMAIN t.aim \ {r}
      /\ \A s \in DOMAIN u.aim : u.aim[s] = t.aim[s] /\ u.seen[s] = t.seen[s]
      /\ u.watch = t.watch \cup W /\ u.at \in {"write", "look"}
  BY <1>1 DEF Written, SameRequest, Shape, Stages
<1>4. t.dead \subseteq Group /\ t.watch \subseteq Group
  BY DEF Tx
<1>5. ASSUME t.calm
      PROVE  /\ r \notin DOMAIN t.put /\ Read(t, r) = group[r]
             /\ r \in t.out => /\ group[r] = t.to /\ r \notin DOMAIN t.aim
                               /\ Target(t, r) = None /\ t.to \in live
             /\ r \notin t.out =>
                  /\ Target(t, r) = t.aim[r]
                  /\ \/ group[r] # Absent /\ t.seen[r] = group[r]
                     \/ group[r] = Absent /\ t.seen[r] = None /\ t.op = "row"
             /\ Target(t, r) \in live \cup t.made \cup {None, Absent}
             /\ group[r] \in live \cup {None, Absent}
  BY <1>5, WritesLoaded
<1>6. ASSUME t.calm
      PROVE  /\ W \subseteq live
             /\ t.op # "bulk" => \A g \in W : Read(t, r) = g /\ g # Target(t, r)
             /\ t.op = "bulk" => \A g \in W : Target(t, r) = g
             /\ t.op \notin {"bulk", "delete"} /\ Read(t, r) # Target(t, r) =>
                  Read(t, r) \in W \cup {None, Absent}
  BY <1>6, WatchesLoaded
<1>7. ASSUME t.calm
      PROVE  /\ DOMAIN u.put = DOMAIN t.put \cup {r} /\ u.put[r] = Target(t, r)
             /\ \A s \in DOMAIN t.put : u.put[s] = t.put[s]
             /\ \A s : Read(u, s) = IF s = r THEN Target(t, r) ELSE Read(t, s)
  <2>1. ~(Read(t, r) = Absent /\ t.op = "bulk")
    BY <1>2, <1>5, <1>7
  <2>2. /\ DOMAIN u.put = DOMAIN t.put \cup {r} /\ u.put[r] = Target(t, r)
        /\ \A s \in DOMAIN t.put : u.put[s] = t.put[s]
    BY <1>5, <1>7, <2>1 DEF Written
  <2> QED
    BY <2>2 DEF Read
<1>8. ASSUME t.calm PROVE Loaded(u)
  <2>1. Loaded(t) /\ DOMAIN t.aim = DOMAIN t.seen
    BY <1>1, <1>8 DEF Sound, Undisturbed, Shape
  <2> QED
    BY <1>3, <1>6, <1>8, <2>1 DEF Loaded
<1>9. ASSUME t.calm PROVE Once(u)
  <2>1. Once(t)
    BY <1>9 DEF Sound, Undisturbed
  <2> QED
    BY <1>2, <1>3, <1>5, <1>7, <1>9, <2>1 DEF Once
<1>10. ASSUME t.calm PROVE Aimed(u)
  <2>1. Aimed(t)
    BY <1>10 DEF Sound, Undisturbed
  <2> QED
    BY <1>3, <1>5, <1>7, <1>10, <2>1 DEF Aimed
<1>11. Emptied(u)
  BY <1>3 DEF Emptied
<1>12. ASSUME t.calm, "disjoint patch" \in Avoided PROVE StayEmpty(u)
  <2>1. StayEmpty(t) /\ Loaded(t) /\ Once(t) /\ Aimed(t)
    BY <1>12 DEF Sound, Undisturbed
  <2>2. Target(t, r) \notin t.dead
    <3>1. CASE Target(t, r) \in {None, Absent}
      BY <1>4, <3>1, PlacesAre
    <3>2. CASE r \in t.out
      BY <1>5, <1>12, <3>1, <3>2
    <3>3. CASE r \notin t.out /\ t.op \in {"row", "bulk"}
      BY <1>2, <2>1, <3>3 DEF StayEmpty
    <3>4. CASE r \notin t.out /\ t.op = "post"
      <4>1. Target(t, r) \in t.made
        BY <1>2, <1>5, <1>12, <2>1, <3>4 DEF Aimed
      <4> QED
        BY <2>1, <4>1 DEF Loaded
    <3>5. CASE r \notin t.out /\ t.op = "patch"
      <4>1. Target(t, r) = t.to
        BY <1>2, <1>5, <1>12, <2>1, <3>5 DEF Aimed
      <4>2. CASE \E s \in Row : group[s] = t.to /\ s \notin DOMAIN t.put \cup t.out
        BY <2>1, <4>1, <4>2 DEF StayEmpty, NoneIn, Read
      <4> QED
        BY <1>2, <2>1, <3>5, <4>1, <4>2 DEF StayEmpty
    <3>6. CASE r \notin t.out /\ t.op \in {"erase", "delete"}
      BY <1>2, <1>5, <1>12, <2>1, <3>1, <3>6 DEF Aimed
    <3> QED
      BY <1>2, <3>2, <3>3, <3>4, <3>5, <3>6 DEF Writing
  <2>3. \A g \in u.dead : NoneIn(u, g)
    <3>1. ASSUME NEW g \in t.dead, NEW s \in Row PROVE Read(u, s) # g
      <4>1. Read(t, s) # g
        BY <2>1, <3>1 DEF StayEmpty, NoneIn
      <4>2. Read(u, s) = IF s = r THEN Target(t, r) ELSE Read(t, s)
        BY <1>7, <1>12
      <4> QED
        BY <2>2, <3>1, <4>1, <4>2
    <3> QED
      BY <1>3, <3>1 DEF NoneIn
  <2>4. u.watch \cap u.dead = {}
    <3>1. \A g \in W : g \notin t.dead
      <4>1. CASE t.op = "bulk"
        BY <2>1, <4>1 DEF StayEmpty
      <4>2. CASE t.op # "bulk"
        BY <1>2, <1>6, <1>12, <2>1, <4>2 DEF StayEmpty, NoneIn
      <4> QED
        BY <4>1, <4>2
    <3> QED
      BY <1>3, <2>1, <3>1 DEF StayEmpty
  <2>5. ~(u.op = "row" /\ DOMAIN u.aim # {})
    BY <1>2, <1>3, <2>1 DEF Once
  <2>6. ASSUME u.op = "bulk"
        PROVE  /\ u.dead = {} /\ u.doomed = {}
               /\ \A g \in u.watch : \E s \in DOMAIN u.put : u.put[s] = g
    <3>1. \A g \in t.watch : \E s \in DOMAIN t.put : t.put[s] = g
      BY <1>3, <2>1, <2>6 DEF StayEmpty
    <3>2. ASSUME NEW g \in u.watch PROVE \E s \in DOMAIN u.put : u.put[s] = g
      <4>1. CASE g \in t.watch
        <5>1. PICK s \in DOMAIN t.put : t.put[s] = g
          BY <3>1, <4>1
        <5>2. s \in DOMAIN u.put /\ u.put[s] = t.put[s]
          BY <1>7, <1>12, <5>1
        <5> QED
          BY <5>1, <5>2
      <4>2. CASE g \in W
        <5>1. Target(t, r) = g
          BY <1>3, <1>6, <1>12, <2>6, <4>2
        <5>2. r \in DOMAIN u.put /\ u.put[r] = Target(t, r)
          BY <1>7, <1>12
        <5> QED
          BY <5>1, <5>2
      <4> QED
        BY <1>3, <3>2, <4>1, <4>2
    <3>3. u.dead = {} /\ u.doomed = {}
      BY <1>3, <2>1, <2>6 DEF StayEmpty
    <3> QED
      BY <3>2, <3>3
  <2>7. ASSUME u.op = "patch", DOMAIN u.aim # {}
        PROVE  \/ Unused(u.to) /\ u.to \notin u.watch \cup u.doomed \cup u.dead
               \/ \E s \in Row : /\ group[s] = u.to /\ s \notin DOMAIN u.put \cup u.out
                                 /\ u.at = "children" => s \in DOMAIN u.aim
    <3>1. t.op = "patch" /\ DOMAIN t.aim # {}
      BY <1>3, <2>7
    <3>2. CASE Unused(t.to) /\ t.to \notin t.watch \cup t.doomed \cup t.dead
      <4>1. group[r] # t.to
        BY <1>2, <3>2 DEF Unused
      <4>2. t.to \notin W
        BY <1>5, <1>6, <1>12, <3>1, <4>1
      <4> QED
        BY <1>3, <3>2, <4>2
    <3>3. CASE \E s \in Row : group[s] = t.to /\ s \notin DOMAIN t.put \cup t.out
      <4>1. PICK s \in Row : group[s] = t.to /\ s \notin DOMAIN t.put \cup t.out
        BY <3>3
      <4>2. s # r
        BY <1>5, <1>12, <3>1, <4>1
      <4> QED
        BY <1>3, <1>7, <1>12, <4>1, <4>2
    <3> QED
      BY <2>1, <3>1, <3>2, <3>3 DEF StayEmpty
  <2> QED
    BY <2>3, <2>4, <2>5, <2>6, <2>7 DEF StayEmpty
<1>13. ASSUME t.calm, "patch without rows" \in Avoided PROVE OnTheirWay(u)
  <2>1. AskedFor(t) /\ OnlyThese(t)
    BY <1>13 DEF Sound, OnTheirWay
  <2>2. r \in DOMAIN t.ask /\ Target(t, r) = t.ask[r]
    BY <1>2, <1>5, <1>13, <2>1 DEF AskedFor
  <2>3. AskedFor(u)
    <3>1. ASSUME NEW s \in DOMAIN u.put PROVE s \in DOMAIN u.ask /\ u.put[s] = u.ask[s]
      <4>1. CASE s = r
        BY <1>3, <1>7, <1>13, <2>2, <4>1
      <4>2. CASE s # r
        <5>1. s \in DOMAIN t.put /\ u.put[s] = t.put[s]
          BY <1>7, <1>13, <3>1, <4>2
        <5> QED
          BY <1>3, <2>1, <5>1 DEF AskedFor
      <4> QED
        BY <4>1, <4>2
    <3>2. \A s \in DOMAIN u.aim : s \in DOMAIN u.ask /\ u.aim[s] = u.ask[s]
      BY <1>3, <2>1 DEF AskedFor
    <3>3. \A s \in u.out : s \in DOMAIN u.ask /\ u.ask[s] = None
      BY <1>3, <2>1 DEF AskedFor
    <3> QED
      BY <3>1, <3>2, <3>3 DEF AskedFor
  <2>4. ~Unread(u) /\ ~Unread(t)
    <3>1. u.op # "drop"
      BY <1>2, <1>3 DEF Writing
    <3> QED
      BY <1>3, <3>1 DEF Unread
  <2>5. ToLeave(u)
    BY <2>4 DEF ToLeave
  <2>6. OnlyThese(u)
    BY <1>3, <1>7, <1>13, <2>1, <2>4 DEF OnlyThese
  <2> QED
    BY <2>3, <2>5, <2>6 DEF OnTheirWay
<1>14. ASSUME t.calm, {"bulk move", "single delete"} \subseteq Avoided PROVE LookedAt(u)
  <2>1. NotLost(t) /\ Stays(t) /\ Founded(t) /\ Once(t)
    BY <1>14 DEF Sound, LookedAt, Undisturbed
  <2>2. NotLost(u)
    <3>1. ASSUME NEW g \in live, ~Unused(g), NoneIn(u, g)
          PROVE  g \in u.watch \cup u.doomed \cup u.dead
      <4>1. g \notin {None, Absent}
        BY PlacesAre DEF Inv, Settled
      <4>2. CASE NoneIn(t, g)
        <5>1. t.doomed = {}
          BY <1>1 DEF Shape, Stages
        <5> QED
          BY <1>3, <2>1, <3>1, <4>2, <5>1 DEF NotLost
      <4>3. CASE ~NoneIn(t, g)
        <5>1. PICK s \in Row : Read(t, s) = g
          BY <4>3 DEF NoneIn
        <5>2. s = r /\ Target(t, r) # g
          BY <1>2, <1>7, <1>14, <3>1, <5>1 DEF NoneIn
        <5>3. group[r] = g
          BY <1>5, <1>14, <5>1, <5>2
        <5>4. t.op # "bulk"
          BY <1>2, <1>5, <1>14, <2>1, <4>1, <5>2, <5>3 DEF Stays
        <5>5. t.op # "delete"
          <6>1. ASSUME t.op = "delete" PROVE FALSE
            <7>1. PICK x \in Row \ {r} : x \notin DOMAIN t.put /\ group[x] = group[r]
              BY <1>2, <2>1, <4>1, <5>3, <6>1 DEF Stays
            <7>2. Read(u, x) = g
              BY <1>7, <1>14, <5>3, <7>1 DEF Read
            <7> QED
              BY <3>1, <7>1, <7>2 DEF NoneIn
          <6> QED
            BY <6>1
        <5> QED
          BY <1>3, <1>6, <1>14, <4>1, <5>1, <5>2, <5>4, <5>5
      <4> QED
        BY <4>2, <4>3
    <3> QED
      BY <3>1 DEF NotLost
  <2>3. Stays(u)
    <3>1. u.op = "delete" => DOMAIN u.aim = {}
      BY <1>2, <1>3, <2>1 DEF Once
    <3> QED
      BY <1>3, <2>1, <3>1 DEF Stays
  <2>4. Founded(u)
    <3>1. t.made # {} => t.out = {}
      BY <1>1 DEF Shape, Kinds
    <3>2. ASSUME NEW g \in t.made
          PROVE  \/ \E s \in DOMAIN u.aim : u.aim[s] = g
                 \/ \E s \in DOMAIN u.put : u.put[s] = g
      <4>1. CASE \E s \in DOMAIN t.aim : t.aim[s] = g
        <5>1. PICK s \in DOMAIN t.aim : t.aim[s] = g
          BY <4>1
        <5>2. r \notin t.out
          BY <3>1, <3>2
        <5>3. CASE s = r
          <6>1. r \in DOMAIN u.put /\ u.put[r] = t.aim[r]
            BY <1>5, <1>7, <1>14, <5>2
          <6> QED
            BY <5>1, <5>3, <6>1
        <5>4. CASE s # r
          BY <1>3, <5>1, <5>2, <5>4
        <5> QED
          BY <5>3, <5>4
      <4>2. CASE \E s \in DOMAIN t.put : t.put[s] = g
        <5>1. PICK s \in DOMAIN t.put : t.put[s] = g
          BY <4>2
        <5>2. s \in DOMAIN u.put /\ u.put[s] = t.put[s]
          BY <1>7, <1>14, <5>1
        <5> QED
          BY <5>1, <5>2
      <4> QED
        BY <2>1, <4>1, <4>2 DEF Founded
    <3> QED
      BY <1>3, <3>2 DEF Founded
  <2> QED
    BY <2>2, <2>3, <2>4 DEF LookedAt
<1> QED
  BY <1>1, <1>3, <1>8, <1>9, <1>10, <1>11, <1>12, <1>13, <1>14 DEF Sound, Undisturbed

LEMMA WriteKeeps ==
  ASSUME Inv, NEW p \in Process, NEW r \in Row, Write(p, r), ~Fail(p)
  PROVE  Inv'
<1>1. PICK t : t = tx[p] /\ Sound(t) /\ t \in Tx
  BY DEF Inv
<1>2. /\ t.at = "write" /\ r \in Remaining(t)
      /\ Read(t, r) = Absent => t.op \in {"row", "bulk"}
      /\ \/ /\ t.op = "patch" /\ r \notin t.out /\ Read(t, r) = t.to
            /\ Goes(p, Dropped(t, r))
         \/ /\ ~(t.op = "patch" /\ r \notin t.out /\ Read(t, r) = t.to)
            /\ \E W, u : /\ W = Watched(t, r, Target(t, r))
                         /\ Written(t, r, W, u) /\ Goes(p, u)
  BY <1>1, WriteIs
<1>3. CASE t.op = "patch" /\ r \notin t.out /\ Read(t, r) = t.to /\ Goes(p, Dropped(t, r))
  BY <1>1, <1>2, <1>3, ThereKeeps
<1>4. CASE /\ ~(t.op = "patch" /\ r \notin t.out /\ Read(t, r) = t.to)
           /\ \E W, u : /\ W = Watched(t, r, Target(t, r))
                        /\ Written(t, r, W, u) /\ Goes(p, u)
  <2>1. PICK W, u : /\ W = Watched(t, r, Target(t, r))
                    /\ Written(t, r, W, u) /\ Goes(p, u)
    BY <1>4
  <2>2. Sound(u)
    BY <1>1, <1>2, <1>4, <2>1, WrittenSound
  <2> QED
    BY <2>1, <2>2, GoesKeeps
<1> QED
  BY <1>2, <1>3, <1>4

-----------------------------------------------------------------------------
(* Every step keeps the invariant.                                         *)

LEMMA RequestKeeps ==
  ASSUME Inv, NEW w \in Worker, Request(w)
  PROVE  Inv'
<1>1. w \in Process
  BY DEF Process
<1>2. ASSUME NEW u, Sound(u), Start(w, u) PROVE Inv'
  BY <1>1, <1>2, GoesKeeps DEF Start, Goes
<1>3. ASSUME NEW r \in Row, NEW g \in Place, PatchRow(w, r, g) PROVE Inv'
  BY <1>2, <1>3, PatchRowSound DEF PatchRow
<1>4. ASSUME NEW r \in Row, NEW g \in Place, PostRow(w, r, g) PROVE Inv'
  BY <1>2, <1>4, PostRowSound DEF PostRow
<1>5. ASSUME NEW g \in Group, DeleteGroup(w, g) PROVE Inv'
  BY <1>2, <1>5, DeleteGroupSound DEF DeleteGroup
<1>6. ASSUME NEW g \in Group, NEW S \in SUBSET Row, PostGroup(w, g, S) PROVE Inv'
  BY <1>2, <1>6, PostGroupSound DEF PostGroup
<1>7. ASSUME NEW g \in Group, NEW S \in SUBSET Row, PatchGroup(w, g, S) PROVE Inv'
  <2>1. PICK u : u = [Naming("patch", All(S, g)) EXCEPT
                        !.at = "children", !.to = g, !.ask = Regrouped(g, S)]
    OBVIOUS
  <2>2. Sound(u)
    BY <1>7, <2>1, PatchGroupSound
  <2>3. Start(w, u)
    BY <1>7, <2>1 DEF PatchGroup, Regrouped
  <2> QED
    BY <1>2, <2>2, <2>3
<1>8. ASSUME NEW S \in SUBSET Row, NEW f \in [S -> Group \cup {None}], BulkUpdate(w, S, f)
      PROVE Inv'
  BY <1>2, <1>8, BulkUpdateSound DEF BulkUpdate
<1>9. ASSUME NEW S \in SUBSET Row, BulkDelete(w, S) PROVE Inv'
  BY <1>2, <1>9, BulkDeleteSound DEF BulkDelete
<1>10. ASSUME NEW r \in Row, DeleteRow(w, r) PROVE Inv'
  BY <1>2, <1>10, DeleteRowSound DEF DeleteRow
<1> QED
  BY <1>3, <1>4, <1>5, <1>6, <1>7, <1>8, <1>9, <1>10 DEF Request

LEMMA SweepKeeps ==
  ASSUME Inv, Sweep
  PROVE  Inv'
<1>1. Celery \in Process
  BY DEF Process
<1>2. Start(Celery, Sweeping(Strays \cap old))
  BY DEF Sweep
<1> QED
  BY <1>1, <1>2, SweepSound, GoesKeeps DEF Start, Goes

(* What a transaction leaves behind when it is committed.                  *)
LEMMA CommitSettles ==
  ASSUME Inv, NEW p \in Process, Commit(p)
  PROVE  Settled'
<1>1. PICK t : t = tx[p] /\ t \in Tx
  BY DEF Inv
<1>2. /\ group' = [r \in Row |-> Seen(p, r)] /\ live' = SeenGroups(p)
      /\ old' = old \ t.dead /\ KeysHold(p)
  BY <1>1 DEF Commit
<1>3. SeenGroups(p) = (live \cup t.made) \ t.dead
  BY <1>1 DEF SeenGroups
<1>4. \A r \in DOMAIN t.put : t.put[r] \in Place
  BY <1>1, PartialIs DEF Tx
<1>5. \A r : Seen(p, r) = IF r \in DOMAIN t.put THEN t.put[r] ELSE group[r]
  BY <1>1 DEF Seen
<1>6. group' \in [Row -> Place]
  BY <1>2, <1>4, <1>5 DEF Inv, Settled
<1>7. live' \subseteq Group /\ old' \subseteq live'
  BY <1>1, <1>2, <1>3 DEF Inv, Settled, Tx
<1>8. ASSUME NEW r \in Row PROVE Seen(p, r) \in live' \cup {None, Absent}
  <2>1. CASE Seen(p, r) = group[r]
    <3>1. group[r] \in live \cup {None, Absent}
      BY DEF Inv, Settled, KeysExist
    <3>2. ASSUME group[r] \in t.dead PROVE FALSE
      <4>1. SeenIn(p, group[r]) = {}
        BY <1>1, <1>2, <3>2 DEF KeysHold
      <4> QED
        BY <2>1, <4>1 DEF SeenIn
    <3> QED
      BY <1>2, <1>3, <2>1, <3>1, <3>2
  <2>2. CASE Seen(p, r) # group[r]
    <3>1. r \in DOMAIN t.put /\ t.put[r] = Seen(p, r) /\ t.put[r] # group[r]
      BY <1>5, <2>2
    <3>2. t.put[r] \in Group => t.put[r] \in Pointed(p)
      BY <1>1, <3>1 DEF Pointed
    <3>3. t.put[r] \in Group \cup {None, Absent}
      BY <1>4, <3>1 DEF Place
    <3> QED
      BY <1>2, <3>1, <3>2, <3>3 DEF KeysHold
  <2> QED
    BY <2>1, <2>2
<1>9. KeysExist'
  BY <1>2, <1>8 DEF KeysExist
<1> QED
  BY <1>6, <1>7, <1>9 DEF Settled

(* The others go on, knowing less.                                         *)
LEMMA CommitKeeps ==
  ASSUME Inv, NEW p \in Process, Commit(p)
  PROVE  Inv'
<1>1. tx' = [q \in Process |-> IF q = p \/ ~Busy(q) THEN Idle
                               ELSE [tx[q] EXCEPT !.calm = FALSE]]
  BY DEF Commit
<1>2. ASSUME NEW q \in Process PROVE Sound(tx[q])' /\ tx'[q] \in Tx
  <2>1. CASE q = p \/ ~Busy(q)
    <3>1. PICK v : /\ v = Idle /\ Begun(v) /\ v.op = "idle" /\ v.at = "write"
                   /\ DOMAIN v.aim = {} /\ DOMAIN v.ask = {}
                   /\ v.made = {} /\ v.doomed = {} /\ Shape(v)
      BY IdleBegun, IdleSound DEF Sound
    <3>2. tx'[q] = v
      BY <1>1, <2>1, <3>1
    <3>3. /\ v \in Tx /\ DOMAIN v.put = {} /\ DOMAIN v.seen = {} /\ v.out = {}
          /\ v.dead = {} /\ v.watch = {} /\ v.caught = {}
      BY <3>1 DEF Begun
    <3>4. \A g : NoneIn(tx[q], g)' <=> Unused(g)'
      BY <3>2, <3>3 DEF NoneIn, Read, Unused
    <3>5. Shape(tx[q])'
      BY <3>1, <3>2 DEF Shape, Kinds, Stages
    <3>6. Undisturbed(tx[q])'
      BY <3>1, <3>2, <3>3 DEF Undisturbed, Loaded, Once, Aimed, Emptied
    <3>7. StayEmpty(tx[q])'
      BY <3>1, <3>2, <3>3 DEF StayEmpty
    <3>8. OnTheirWay(tx[q])'
      BY <3>1, <3>2, <3>3 DEF OnTheirWay, AskedFor, ToLeave, OnlyThese, Unread
    <3>9. LookedAt(tx[q])'
      BY <3>1, <3>2, <3>3, <3>4 DEF LookedAt, NotLost, Stays, Founded
    <3> QED
      BY <3>2, <3>3, <3>5, <3>6, <3>7, <3>8, <3>9 DEF Sound
  <2>2. CASE ~(q = p \/ ~Busy(q))
    <3>1. PICK t : t = tx[q] /\ t \in Tx /\ Shape(t)
      BY DEF Inv, Sound
    <3>2. PICK v : v = [t EXCEPT !.calm = FALSE]
      OBVIOUS
    <3>3. tx'[q] = v
      BY <1>1, <2>2, <3>1, <3>2
    <3>4. /\ v \in Tx /\ SameRows(t, v) /\ v.op = t.op /\ v.at = t.at /\ v.to = t.to
          /\ v.put = t.put /\ v.made = t.made /\ v.dead = t.dead
          /\ v.watch = t.watch /\ v.doomed = t.doomed /\ v.caught = t.caught
          /\ v.calm = FALSE
      BY <3>1, <3>2 DEF Tx, SameRows
    <3>5. Shape(v)
      BY <3>1, <3>4 DEF Shape, Kinds, Stages, SameRows
    <3>6. Shape(tx[q])'
      BY <3>3, <3>5 DEF Shape, Kinds, Stages
    <3> QED
      BY <3>3, <3>4, <3>6 DEF Sound, Undisturbed
  <2> QED
    BY <2>1, <2>2
<1>3. tx' \in [Process -> Tx]
  BY <1>1, <1>2
<1> QED
  BY <1>2, <1>3, CommitSettles DEF Inv

LEMMA StepKeeps ==
  ASSUME Inv, NEW p \in Process, Step(p)
  PROVE  Inv'
<1>1. CASE Fail(p)
  BY <1>1, FailKeeps
<1>2. CASE ~Fail(p)
  <2>1. CASE ReadChildren(p)
    BY <2>1, ReadChildrenKeeps
  <2>2. CASE Look(p)
    BY <1>2, <2>2, LookKeeps
  <2>3. CASE Collect(p)
    BY <2>3, CollectKeeps
  <2>4. CASE Purge(p)
    BY <2>4, PurgeKeeps
  <2>5. CASE \E r \in Row : Write(p, r)
    BY <1>2, <2>5, WriteKeeps
  <2>6. CASE Commit(p)
    BY <2>6, CommitKeeps
  <2>7. CASE Refuse(p) \/ Deadlock(p)
    BY <1>2, <2>7 DEF Refuse, Deadlock
  <2> QED
    BY <2>1, <2>2, <2>3, <2>4, <2>5, <2>6, <2>7 DEF Step
<1> QED
  BY <1>1, <1>2

(* Nothing is done, but for the passing of time.                           *)
LEMMA RestKeeps ==
  ASSUME Inv, UNCHANGED <<group, live, tx>>, old' \subseteq live
  PROVE  Inv'
<1>1. Celery \in Process
  BY DEF Process
<1>2. PICK u : u = tx[Celery] /\ Sound(u)
  BY <1>1 DEF Inv
<1>3. tx' = [tx EXCEPT ![Celery] = u]
  BY <1>1, <1>2 DEF Inv
<1> QED
  BY <1>1, <1>2, <1>3, Carries

LEMMA NextKeeps == Inv /\ [Next]_vars => Inv'
<1> SUFFICES ASSUME Inv, [Next]_vars PROVE Inv'
  OBVIOUS
<1>1. CASE \E w \in Worker : Request(w)
  BY <1>1, RequestKeeps
<1>2. CASE Sweep
  BY <1>2, SweepKeeps
<1>3. CASE \E p \in Process : Step(p)
  BY <1>3, StepKeeps
<1>4. CASE Age
  BY <1>4, RestKeeps DEF Age
<1>5. CASE UNCHANGED vars
  BY <1>5, RestKeeps DEF vars, Inv, Settled
<1> QED
  BY <1>1, <1>2, <1>3, <1>4, <1>5 DEF Next

LEMMA InitIs == Init => Inv
<1> SUFFICES ASSUME Init PROVE Inv
  OBVIOUS
<1>1. Settled
  BY PlacesAre DEF Init, Settled, KeysExist
<1>2. Idle \in Tx
  BY IdleBegun DEF Begun
<1>3. tx \in [Process -> Tx] /\ \A p \in Process : tx[p] = Idle
  BY <1>2 DEF Init
<1> QED
  BY <1>1, <1>3, IdleSound DEF Inv

(* Whatever is committed and whatever processes are in the middle of is as *)
(* described above: a row points to a group that there is, and what a      *)
(* request knows is true until something else is committed.                *)
THEOREM InvCorrect == Spec => []Inv
BY InitIs, NextKeeps, PTL DEF Spec

(* The variables hold what they are to hold: the committed rows and groups *)
(* and the requests and sweeps in progress.                                *)
THEOREM TypeCorrect == Spec => []TypeOK
<1>1. Inv => TypeOK
  <2> SUFFICES ASSUME Inv PROVE TypeOK
    OBVIOUS
  <2>1. ASSUME NEW p \in Process
        PROVE  tx[p] \in Tx /\ DOMAIN tx[p].aim = DOMAIN tx[p].seen
    BY <2>1 DEF Inv, Sound, Shape
  <2> QED
    BY <2>1 DEF Inv, Settled, TypeOK, Tx, Ops, Points
<1> QED
  BY <1>1, InvCorrect, PTL

-----------------------------------------------------------------------------
(* What a request achieves while nothing else is committed.                *)

(* The kind of a transaction does not change until it ends.                *)
LEMMA StepGoesOn ==
  ASSUME Inv, NEW p \in Process, ReadChildren(p) \/ Collect(p) \/ Purge(p)
  PROVE  tx'[p].op = tx[p].op
<1>1. tx[p] \in Tx /\ p \in DOMAIN tx
  BY DEF Inv
<1>2. CASE ReadChildren(p)
  BY <1>1, <1>2 DEF ReadChildren, Now, Tx
<1>3. CASE Collect(p)
  BY <1>1, <1>3 DEF Collect, Now, Tx
<1>4. CASE Purge(p)
  BY <1>1, <1>4 DEF Purge, Now, Tx
<1> QED
  BY <1>2, <1>3, <1>4

LEMMA WriteGoesOn ==
  ASSUME Inv, NEW p \in Process, NEW r \in Row, Write(p, r),
         ~(Seen(p, r) = Absent /\ tx[p].op \in {"post", "patch", "erase", "delete"})
  PROVE  tx'[p].op = tx[p].op
<1>1. PICK t : t = tx[p] /\ t \in Tx /\ p \in DOMAIN tx
  BY DEF Inv
<1>2. PICK rest : rest = Dropped(t, r)
  OBVIOUS
<1>3. rest.op = t.op /\ DOMAIN rest = DOMAIN t /\ "op" \in DOMAIN t
  BY <1>1, <1>2 DEF Dropped, Tx
<1>4. PICK g : g = IF r \in t.out THEN None ELSE t.aim[r]
  OBVIOUS
<1>5. PICK looking : looking = [rest EXCEPT !.watch = rest.watch \cup Watched(t, r, g)]
  OBVIOUS
<1>6. PICK put : put = IF Seen(p, r) = Absent /\ t.op = "bulk" THEN looking.put
                       ELSE Put(looking.put, {r}, g)
  OBVIOUS
<1>7. PICK u : u = [looking EXCEPT !.at = AfterWrite(looking), !.put = put]
  OBVIOUS
<1>8. Now(p, rest) \/ Now(p, u)
  BY <1>1, <1>2, <1>4, <1>5, <1>6, <1>7 DEF Write
<1>9. rest.op = t.op /\ u.op = t.op
  BY <1>3, <1>5, <1>7
<1> QED
  BY <1>1, <1>8, <1>9 DEF Now

(* A row that is to be written is there.                                   *)
LEMMA WriteFinds ==
  ASSUME Inv, NEW p \in Process, tx[p].calm, NEW r \in Row, Write(p, r)
  PROVE  ~(Seen(p, r) = Absent /\ tx[p].op \in {"post", "patch", "erase", "delete"})
<1>1. PICK t : t = tx[p] /\ Sound(t) /\ t \in Tx /\ t.calm
  BY DEF Inv
<1>2. t.at = "write" /\ r \in Remaining(t)
  BY <1>1 DEF Write
<1>3. /\ Read(t, r) = group[r]
      /\ r \in t.out => group[r] = t.to /\ t.to \in live
      /\ r \notin t.out => group[r] # Absent \/ t.op = "row"
  BY <1>1, <1>2, WritesLoaded
<1>4. live \subseteq Group
  BY DEF Inv, Settled
<1> QED
  BY <1>1, <1>3, <1>4, PlacesAre DEF Seen, Read

(* A group that is to be looked at is there.                               *)
LEMMA LookFinds ==
  ASSUME Inv, "disjoint patch" \in Avoided, NEW p \in Process, tx[p].calm
  PROVE  tx[p].watch \subseteq SeenGroups(p)
<1>1. Loaded(tx[p]) /\ StayEmpty(tx[p])
  BY DEF Inv, Sound, Undisturbed
<1> QED
  BY <1>1 DEF Loaded, StayEmpty, SeenGroups

(* The keys hold when it is to be committed.                               *)
LEMMA CommitFinds ==
  ASSUME Inv, "disjoint patch" \in Avoided, NEW p \in Process, tx[p].calm
  PROVE  KeysHold(p)
<1>1. PICK t : t = tx[p] /\ Sound(t) /\ t \in Tx /\ t.calm
  BY DEF Inv
<1>2. Aimed(t) /\ StayEmpty(t)
  BY <1>1 DEF Sound, Undisturbed
<1>3. \A g \in t.dead : \A r \in Row : Seen(p, r) # g
  BY <1>1, <1>2 DEF StayEmpty, NoneIn, Read, Seen
<1>4. ASSUME NEW g \in Pointed(p) PROVE g \in SeenGroups(p)
  <2>1. PICK r \in DOMAIN t.put : t.put[r] = g /\ g \in Group
    BY <1>1, <1>4 DEF Pointed
  <2>2. r \in Row
    BY <1>1, PartialIs DEF Tx
  <2>3. Seen(p, r) = g
    BY <1>1, <2>1 DEF Seen
  <2>4. g \in live \cup t.made
    BY <1>2, <2>1, PlacesAre DEF Aimed
  <2> QED
    BY <1>1, <1>3, <2>2, <2>3, <2>4 DEF SeenGroups
<1> QED
  BY <1>1, <1>3, <1>4 DEF KeysHold, SeenIn

(* Only p itself ends what p is doing.                                     *)
LEMMA EndsItself ==
  ASSUME Inv, NEW p \in Process, Busy(p), Fail(p), [Next]_vars
  PROVE  Step(p)
<1>1. tx'[p] = Idle /\ tx'[p] # tx[p] /\ tx'[p].op # tx[p].op /\ tx[p] \in Tx
  BY IdleBegun DEF Fail, Now, Busy, Inv
<1>2. ASSUME NEW q \in Process, q # p, NEW u, tx' = [tx EXCEPT ![q] = u] PROVE FALSE
  BY <1>1, <1>2
<1>3. CASE \E w \in Worker : Request(w)
  <2>1. PICK w \in Worker : Request(w)
    BY <1>3
  <2>2. PICK u : Start(w, u)
    BY <2>1 DEF Request, PatchRow, PostRow, DeleteGroup, PostGroup, PatchGroup,
                BulkUpdate, BulkDelete, DeleteRow
  <2>3. w # p /\ w \in Process
    BY <2>2 DEF Start, Process
  <2> QED
    BY <1>2, <2>2, <2>3 DEF Start
<1>4. CASE Sweep
  <2>1. PICK u : Start(Celery, u)
    BY <1>4 DEF Sweep
  <2> QED
    BY <1>2, <2>1 DEF Start, Process
<1>5. ASSUME NEW q \in Process, Step(q), q # p PROVE FALSE
  <2>1. CASE Commit(q)
    BY <1>1, <1>5, <2>1 DEF Commit, Busy, Tx
  <2>2. CASE ReadChildren(q) \/ Look(q) \/ Collect(q) \/ Purge(q)
    BY <1>2, <1>5, <2>2 DEF ReadChildren, Look, Collect, Purge, Fail, Now
  <2>3. CASE \E r \in Row : Write(q, r)
    BY <1>2, <1>5, <2>3 DEF Write, Fail, Now
  <2>4. CASE Refuse(q) \/ Deadlock(q)
    BY <1>2, <1>5, <2>4 DEF Refuse, Deadlock, Fail, Now
  <2> QED
    BY <1>5, <2>1, <2>2, <2>3, <2>4 DEF Step
<1>6. CASE Age \/ UNCHANGED vars
  BY <1>1, <1>6 DEF Age, vars
<1> QED
  BY <1>3, <1>4, <1>5, <1>6 DEF Next

(* A request or sweep during which nothing else is committed can commit    *)
(* what it has validated, or falls victim to a deadlock, provided that no  *)
(* PATCH of a group exchanges all the rows of the group at once: the       *)
(* handlers of groups, of rows and of bulk operations, and the sweep.      *)
THEOREM CalmSucceedsCorrect ==
  ASSUME "disjoint patch" \in Avoided
  PROVE  Spec => CalmSucceeds
<1>1. Inv /\ [Next]_vars =>
        [\A p \in Process :
           Busy(p) /\ tx[p].calm /\ Fail(p) => Commit(p) \/ Deadlock(p)]_vars
  <2> SUFFICES ASSUME Inv, [Next]_vars, NEW p \in Process,
                      Busy(p), tx[p].calm, Fail(p)
               PROVE  Commit(p) \/ Deadlock(p)
    OBVIOUS
  <2>1. tx'[p].op # tx[p].op
    BY IdleBegun DEF Fail, Now, Busy, Inv
  <2>2. CASE ReadChildren(p) \/ Collect(p) \/ Purge(p)
    BY <2>1, <2>2, StepGoesOn
  <2>3. CASE Look(p)
    <3>1. {g \in tx[p].watch : SeenIn(p, g) = {}} \subseteq SeenGroups(p)
      BY LookFinds
    <3>2. tx[p] \in Tx /\ p \in DOMAIN tx
      BY DEF Inv
    <3> QED
      BY <2>1, <2>3, <3>1, <3>2 DEF Look, Now, Tx
  <2>4. ASSUME NEW r \in Row, Write(p, r) PROVE FALSE
    BY <2>1, <2>4, WriteFinds, WriteGoesOn
  <2>5. ~Refuse(p)
    BY CommitFinds DEF Refuse
  <2> QED
    BY <2>2, <2>3, <2>4, <2>5, EndsItself DEF Step
<1> QED
  BY <1>1, InvCorrect, PTL DEF Spec, CalmSucceeds

(* What a finished transaction has left to do: nothing.                    *)
LEMMA FinishedIs ==
  ASSUME Inv, NEW p \in Process, Finished(p)
  PROVE  /\ tx[p].at = "write" /\ DOMAIN tx[p].aim = {} /\ tx[p].out = {}
         /\ tx[p].watch = {} /\ tx[p].doomed = {}
<1>1. Shape(tx[p])
  BY DEF Inv, Sound
<1>2. tx[p].at = "write" /\ DOMAIN tx[p].aim = {} /\ tx[p].out = {}
  BY DEF Finished, Remaining
<1> QED
  BY <1>1, <1>2 DEF Shape, Stages

(* A request during which nothing else is committed leaves no group        *)
(* without rows that had some, provided that bulk updates move no row out  *)
(* of a group and single deletions do not take the last row of one: the    *)
(* signals of rows, bulk_save, bulk_delete and the handlers of groups.     *)
THEOREM LeavesNoStrayCorrect ==
  ASSUME {"bulk move", "single delete"} \subseteq Avoided
  PROVE  Spec => LeavesNoStray
<1>1. Inv /\ [Next]_vars =>
        [\A p \in Process : Commit(p) /\ tx[p].calm => Strays' \subseteq Strays]_vars
  <2> SUFFICES ASSUME Inv, NEW p \in Process, Commit(p), tx[p].calm,
                      NEW g \in Strays'
               PROVE  g \in Strays
    OBVIOUS
  <2>1. PICK t : t = tx[p] /\ Sound(t) /\ t.calm
    BY DEF Inv
  <2>2. /\ NotLost(t) /\ Founded(t)
        /\ DOMAIN t.aim = {} /\ t.watch = {} /\ t.doomed = {}
    BY <2>1, FinishedIs DEF Sound, LookedAt, Commit
  <2>3. /\ group' = [r \in Row |-> Read(t, r)]
        /\ live' = (live \cup t.made) \ t.dead
    BY <2>1 DEF Commit, Seen, Read, SeenGroups
  <2>4. g \in live' /\ NoneIn(t, g)
    BY <2>3 DEF Strays, Members, NoneIn
  <2>5. g \notin t.made
    <3>1. DOMAIN t.put \subseteq Row
      BY <2>1, PartialIs DEF Sound, Shape, Tx
    <3> QED
      BY <2>2, <2>4, <3>1 DEF Founded, NoneIn, Read
  <2>6. g \in live /\ Unused(g)
    BY <2>2, <2>3, <2>4, <2>5 DEF NotLost
  <2> QED
    BY <2>6 DEF Strays, Members, Unused
<1> QED
  BY <1>1, InvCorrect, PTL DEF Spec, LeavesNoStray

(* A request during which nothing else is committed puts the rows it names *)
(* where it asks and moves no other, provided that a PATCH of a group      *)
(* mentions its rows: the handlers of groups, of rows and of bulk          *)
(* operations, with the cleaning up they entail.                           *)
THEOREM DoesWhatIsAskedCorrect ==
  ASSUME "patch without rows" \in Avoided
  PROVE  Spec => DoesWhatIsAsked
<1>1. Inv /\ [Next]_vars =>
        [\A p \in Process :
           Commit(p) /\ tx[p].calm =>
             \A r \in Row :
               group'[r] = IF r \in DOMAIN tx[p].ask THEN tx[p].ask[r] ELSE group[r]]_vars
  <2> SUFFICES ASSUME Inv, NEW p \in Process, Commit(p), tx[p].calm, NEW r \in Row
               PROVE  group'[r] = IF r \in DOMAIN tx[p].ask THEN tx[p].ask[r] ELSE group[r]
    OBVIOUS
  <2>1. PICK t : t = tx[p] /\ Sound(t) /\ t.calm
    BY DEF Inv
  <2>2. /\ AskedFor(t) /\ OnlyThese(t)
        /\ t.at = "write" /\ DOMAIN t.aim = {} /\ t.out = {}
    BY <2>1, FinishedIs DEF Sound, OnTheirWay, Commit
  <2>3. group'[r] = IF r \in DOMAIN t.put THEN t.put[r] ELSE group[r]
    BY <2>1 DEF Commit, Seen
  <2>4. r \in DOMAIN t.put => r \in DOMAIN t.ask /\ t.put[r] = t.ask[r]
    BY <2>2 DEF AskedFor
  <2>5. r \in DOMAIN t.ask /\ r \notin DOMAIN t.put => group[r] = t.ask[r]
    BY <2>2 DEF OnlyThese, Unread
  <2> QED
    BY <2>1, <2>3, <2>4, <2>5
<1> QED
  BY <1>1, InvCorrect, PTL DEF Spec, DoesWhatIsAsked

=============================================================================
