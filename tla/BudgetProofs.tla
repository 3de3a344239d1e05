----------------------------- MODULE BudgetProofs -----------------------------
(***************************************************************************)
(* Theorems about a budget as a whole: what duplicating it makes of it, by *)
(* whatever edits of others, and what adding up its actuals makes of it,   *)
(* by any number of requests that overlap.                                 *)
(***************************************************************************)
EXTENDS Duplication, Actualize, FiniteSetTheorems, WellFoundedInduction, TLAPS

-------------------------------------------------------------------------------
(* The original: what hangs on something goes with it, so it is whole at any *)
(* time, and so is the part of it that was there throughout.  As long as     *)
(* nothing overtakes the copying, all there is was there throughout.         *)
Overtaking == {"growth", "lost row", "taken"}

Calm == \A e \in disturbed : e[2] \notin Overtaking

Whole(o, r) ==
  /\ \A y \in o \cap Placed : ParentOf[y] \in o
  /\ \A p \in r : p[1] \in o /\ p[2] \in o \cup Contact

OriginalInv ==
  /\ objects \subseteq Object /\ contacts \subseteq Contact /\ refs \subseteq CanRefer
  /\ Whole(objects, refs)
  /\ \A p \in refs : p[2] \in Contact => p[2] \in contacts
  /\ throughout \subseteq objects \cup refs
  /\ Whole(throughout \cap Object, throughout \cap CanRefer)
  /\ objects \cup refs \subseteq ever
  /\ ever \subseteq Object \cup CanRefer /\ Budget \in ever
  /\ Calm => objects \cup refs \cup {Budget} \subseteq throughout

(* The search: a sub-account that was there throughout is seen, or a row     *)
(* above it is still to be asked for its children.                           *)
Unstarted == {"accounts", "look up accounts", "find", "failed"}

SearchInv ==
  /\ pc \notin {"find", "groups", "markups"} => search.step \in {"list", "tops"}
  /\ pc \notin Unstarted /\ search.step \in {"tops", "open", "look"} =>
       throughout \cap Account \subseteq search.listed
  /\ search.step \in {"open", "look"} => throughout \cap Account \subseteq search.tops
  /\ search.step # "look" => search.seen = {}
  /\ search.step = "look" =>
       \A s \in throughout \cap SubAccount :
         s \in search.seen \/ ParentOf[s] \in left \/ ParentOf[s] \in SubAccount \ search.seen
  /\ search.step = "select" => throughout \cap Row \subseteq search.listed

(* Finding the sub-accounts: the climb counts the rows above it that are     *)
(* there, which is all of them if the row is there throughout.               *)
WalkInv ==
  walk # NoWalk =>
    /\ walk.row \in found /\ walk.at \in Row \cup {Budget, None}
    /\ walk.at \in Row => walk.fetched + Depth[walk.at] = Depth[walk.row]
    /\ walk.at = Budget => walk.fetched = Depth[walk.row] + 1
    /\ walk.at = None => walk.fetched \in 1..Depth[walk.row] + 1
    /\ walk.at # None => walk.row \in Subtree[walk.at]
    /\ walk.row \in throughout => walk.at # None

LevelInv ==
  \A s \in DOMAIN level :
    /\ level[s] \in -1..Depth[s] - 1
    /\ s \in throughout => level[s] = Depth[s] - 1

FoundInv ==
  /\ pc \notin Unstarted => throughout \cap SubAccount \subseteq found
  /\ pc \in Unstarted => found = {} /\ walk = NoWalk
  /\ found \subseteq ever
  /\ Calm => found \subseteq throughout

(* What the copying has in hand is there as long as nothing overtakes it.    *)
HeldInv ==
  /\ held \subseteq ever
  /\ \A p \in held : p[1] \in copied \cup found /\ p[2] \in Group \cup Contact
  /\ Calm => /\ \A p \in held : p[2] \in objects \cup contacts
             /\ \A p \in links : p[2] \in Contact => p[2] \in contacts
  /\ pc = "measure" =>
       \A p \in throughout \cap CanRefer :
         p[1] \in found \ DOMAIN level /\ p[2] \in Contact => p \in held
  /\ pc = "look up actuals" =>
       \A p \in throughout \cap CanRefer : p[1] \in Actual /\ p[2] \in Contact => p \in held

LeftInv ==
  /\ pc = "link fringes" => left \subseteq found
  /\ pc = "link markups" =>
       \A m \in Markup, rows \in {Account, SubAccount} : <<m, rows>> \in left => m \in copied

(* The copy: what has been copied at each step, and referred to. *)
BeforeGroups == {"look up accounts", "find", "measure"}
BeforeFringes == {"groups", "account members", "subaccount members", "fringes"}
WithActuals == {"look up actuals", "commit", "done"}

Copying ==
  {x \in Object :
    /\ pc \notin {"accounts", "failed"}
    /\ x \notin Account \cup {Budget} => pc \notin BeforeGroups
    /\ x \in Group => pc # "groups"
    /\ x \in Fringe => pc \notin BeforeFringes
    /\ x \in Markup => pc \notin BeforeFringes \cup {"link fringes", "markups"}
    /\ x \in Actual => pc \in WithActuals}

Linking ==
  {p \in CanRefer :
    /\ pc \notin Unstarted
    /\ p[2] \in Contact => p[2] \in Mine /\ (pc = "measure" => p[1] \in DOMAIN level)
    /\ p[2] \in Group => /\ pc \notin {"measure", "groups", "account members"}
                         /\ pc = "subaccount members" => p[1] \in Account
    /\ p[2] \in Fringe => /\ pc \notin {"measure"} \cup BeforeFringes
                          /\ pc = "link fringes" => p[1] \notin left
    /\ p[2] \in Markup => /\ pc \in {"link markups", "actuals"} \cup WithActuals
                          /\ pc = "link markups" =>
                               \A rows \in {Account, SubAccount} :
                                 p[1] \in rows => <<p[2], rows>> \notin left
    /\ p[1] \in Actual => /\ pc \in WithActuals
                          /\ p[2] \in Contact => pc # "look up actuals"}

CopiedInv ==
  /\ copied \subseteq Copying /\ throughout \cap Copying \subseteq copied
  /\ pc \notin {"accounts", "failed"} => Budget \in copied
  /\ pc \notin Unstarted \cup {"measure"} => found \subseteq copied
  /\ copied \subseteq ever
  /\ Calm => copied \cap Account \subseteq throughout

PlacedInv ==
  /\ \A p \in under :
        /\ p[1] \in copied /\ p[2] \in copied
        /\ p[2] = ParentOf[p[1]] \/ Misplaced(p)
  /\ \A x \in copied \cap Placed :
        /\ \E y : {p \in under : p[1] = x} = {<<x, y>>}
        /\ x \in throughout => <<x, ParentOf[x]>> \in under

LinkedInv ==
  /\ \A p \in links : p[1] \in copied \cup found /\ p[2] \in copied \cup Mine
  /\ links \subseteq ever
  /\ throughout \cap Linking \subseteq links

(* Nothing of a contact that is referred to is missing in the end, and       *)
(* nothing has gone wrong without having been overtaken.                     *)
DoneInv == pc = "done" => \A p \in links : p[2] \in Contact => p[2] \in contacts

FailedInv == pc = "failed" => ~Calm

CopyInv ==
  /\ SearchInv /\ WalkInv /\ LevelInv /\ FoundInv /\ HeldInv /\ LeftInv
  /\ CopiedInv /\ PlacedInv /\ LinkedInv /\ DoneInv /\ FailedInv

Inv == TypeOK /\ OriginalInv /\ CopyInv

-------------------------------------------------------------------------------
(* Names of things. *)
LEMMA Apart ==
  /\ Account \cap SubAccount = {} /\ Account \cap Group = {} /\ Account \cap Fringe = {}
  /\ Account \cap Markup = {} /\ Account \cap Actual = {} /\ Account \cap Contact = {}
  /\ SubAccount \cap Group = {} /\ SubAccount \cap Fringe = {} /\ SubAccount \cap Markup = {}
  /\ SubAccount \cap Actual = {} /\ SubAccount \cap Contact = {}
  /\ Group \cap Fringe = {} /\ Group \cap Markup = {} /\ Group \cap Actual = {}
  /\ Group \cap Contact = {} /\ Fringe \cap Markup = {} /\ Fringe \cap Actual = {}
  /\ Fringe \cap Contact = {} /\ Markup \cap Actual = {} /\ Markup \cap Contact = {}
  /\ Actual \cap Contact = {}
<1>1. /\ Kinds[2] = Account /\ Kinds[3] = SubAccount /\ Kinds[4] = Group
      /\ Kinds[5] = Fringe /\ Kinds[6] = Markup /\ Kinds[7] = Actual /\ Kinds[8] = Contact
  BY DEF Kinds
<1> QED
  BY <1>1, DuplicationAssumption

LEMMA ApartFromBudget ==
  /\ Budget \notin Account \cup SubAccount \cup Group \cup Fringe \cup Markup
                     \cup Actual \cup Contact
  /\ None \notin Object \cup Contact /\ Budget # None
<1>1. /\ Kinds[1] = {Budget} /\ Kinds[9] = {None}
      /\ Kinds[2] = Account /\ Kinds[3] = SubAccount /\ Kinds[4] = Group
      /\ Kinds[5] = Fringe /\ Kinds[6] = Markup /\ Kinds[7] = Actual /\ Kinds[8] = Contact
  BY DEF Kinds
<1>2. \A i \in 2..8 : Kinds[1] \cap Kinds[i] = {} /\ Kinds[9] \cap Kinds[i] = {}
  BY DuplicationAssumption
<1>3. Kinds[1] \cap Kinds[9] = {}
  BY DuplicationAssumption
<1>4. Budget \notin Account \cup SubAccount \cup Group \cup Fringe \cup Markup
                     \cup Actual \cup Contact
  BY <1>1, <1>2
<1>5. None \notin Account \cup SubAccount \cup Group \cup Fringe \cup Markup
                     \cup Actual \cup Contact
  BY <1>1, <1>2
<1>6. Budget # None
  BY <1>1, <1>3
<1> QED
  BY <1>4, <1>5, <1>6 DEF Object, Placed, Row

LEMMA ObjectsApart == Object \cap Contact = {}
BY Apart, ApartFromBudget DEF Object, Placed, Row

LEMMA PairsApart ==
  /\ Object \cap CanRefer = {}
  /\ \A p \in CanRefer : p[1] \in Object /\ p[2] \in Object \cup Contact
  /\ \A p, q \in CanRefer : p[1] = q[1] /\ p[2] = q[2] => p = q
<1>1. CanRefer \subseteq Object \X (Object \cup Contact)
  BY DEF CanRefer, Object, Placed, Row
<1> QED
  BY <1>1, DuplicationAssumption

-------------------------------------------------------------------------------
(* What goes with what is deleted. *)
LEMMA SubtreeIs ==
  ASSUME NEW x \in Object
  PROVE  /\ x \in Subtree[x]
         /\ Subtree[x] \subseteq Object
         /\ \A z \in Placed : ParentOf[z] \in Subtree[x] => z \in Subtree[x]
         /\ \A s \in SUBSET Object :
              (x \in s /\ \A z \in Placed : ParentOf[z] \in s => z \in s)
                 => Subtree[x] \subseteq s
<1>1. Subtree[x] =
        {y \in Object : \A s \in SUBSET Object :
          (x \in s /\ \A z \in Placed : ParentOf[z] \in s => z \in s) => y \in s}
  BY DEF Subtree
<1>2. ASSUME NEW z \in Placed, ParentOf[z] \in Subtree[x]
      PROVE  z \in Subtree[x]
  <2>1. z \in Object
    BY DEF Object
  <2>2. \A s \in SUBSET Object :
          (x \in s /\ \A v \in Placed : ParentOf[v] \in s => v \in s) => z \in s
    BY <1>1, <1>2
  <2> QED
    BY <1>1, <2>1, <2>2
<1> QED
  BY <1>1, <1>2

LEMMA BelowIs ==
  ASSUME NEW x \in Object, NEW r
  PROVE  /\ x \in Below(x, r)
         /\ \A z \in Placed : ParentOf[z] \in Below(x, r) => z \in Below(x, r)
         /\ x # Budget => Budget \notin Below(x, r)
         /\ x \notin Row \cup {Budget} => Below(x, r) \subseteq {x} \cup Actual
<1> DEFINE gone == IF x = Budget THEN Object ELSE Subtree[x]
<1>1. Below(x, r) = gone \cup {y \in Actual : \E z \in gone : <<y, z>> \in r}
  BY DEF Below
<1>2. x \in gone /\ \A z \in Placed : ParentOf[z] \in gone => z \in gone
  BY SubtreeIs DEF Object
<1>3. \A z \in Placed : ParentOf[z] \in {Budget} \cup Row
  BY DuplicationAssumption
<1>4. \A z \in Placed : ParentOf[z] \notin Actual
  BY <1>3, Apart, ApartFromBudget DEF Row
<1>5. x # Budget => Budget \notin gone
  <2>1. HAVE x # Budget
  <2>2. x \in Object \ {Budget} /\ \A z \in Placed : z \in Object \ {Budget}
    BY <2>1, ApartFromBudget DEF Object, Placed, Row
  <2>3. Subtree[x] \subseteq Object \ {Budget}
    BY <2>2, SubtreeIs
  <2> QED
    BY <2>1, <2>3
<1>6. x \notin Row \cup {Budget} => gone \subseteq {x}
  <2>1. HAVE x \notin Row \cup {Budget}
  <2>2. {x} \in SUBSET Object /\ x \in {x} /\ \A z \in Placed : ParentOf[z] \notin {x}
    BY <1>3, <2>1
  <2>3. Subtree[x] \subseteq {x}
    BY <2>2, SubtreeIs
  <2> QED
    BY <2>1, <2>3
<1>7. Budget \notin Actual
  BY ApartFromBudget
<1> HIDE DEF gone
<1> QED
  BY <1>1, <1>2, <1>4, <1>5, <1>6, <1>7

(* What others do leaves the original whole, and what was there throughout. *)
LEMMA ChangeKeepsOriginal ==
  ASSUME NEW kind, NEW o, NEW c, NEW r, Change(kind, o, c, r), OriginalInv,
         o \subseteq Object, c \subseteq contacts, r \subseteq CanRefer, Whole(o, r),
         \A p \in r : p[2] \in Contact => p[2] \in c,
         kind \in Overtaking \cup {"loss"},
         kind = "loss" => /\ o \subseteq objects /\ r \subseteq refs
                          /\ objects \cap (Row \cup {Budget}) \subseteq o
  PROVE  /\ OriginalInv'
         /\ throughout' \subseteq throughout /\ ever \subseteq ever'
         /\ Calm' => /\ Calm /\ kind = "loss"
                     /\ throughout \cap (Row \cup {Budget}) \subseteq throughout'
<1>1. /\ objects' = o /\ contacts' = c /\ refs' = r
      /\ throughout' = throughout \cap (o \cup r)
      /\ ever' = ever \cup o \cup r
      /\ disturbed' = disturbed \cup {<<Cardinality(disturbed), kind>>}
  BY DEF Change
<1>2. Calm' => Calm /\ kind = "loss"
  <2>1. <<Cardinality(disturbed), kind>>[2] = kind
    OBVIOUS
  <2> QED
    BY <1>1, <2>1 DEF Calm
<1>3. /\ \A y \in Object : y \notin r /\ y \notin refs
      /\ \A p \in CanRefer : p \notin o /\ p \notin objects
  BY PairsApart DEF OriginalInv
<1>5. \A y \in throughout' \cap Object \cap Placed : ParentOf[y] \in throughout' \cap Object
  <2> TAKE y \in throughout' \cap Object \cap Placed
  <2>1. y \in o /\ y \in throughout
    BY <1>1, <1>3
  <2>2. ParentOf[y] \in o /\ ParentOf[y] \in throughout \cap Object
    BY <2>1 DEF Whole, OriginalInv
  <2> QED
    BY <2>2, <1>1
<1>6. \A p \in throughout' \cap CanRefer :
        p[1] \in throughout' \cap Object /\ p[2] \in (throughout' \cap Object) \cup Contact
  <2> TAKE p \in throughout' \cap CanRefer
  <2>1. p \in r /\ p \in throughout
    BY <1>1, <1>3
  <2>2. /\ p[1] \in o /\ p[2] \in o \cup Contact
        /\ p[1] \in throughout \cap Object
        /\ p[2] \in (throughout \cap Object) \cup Contact
    BY <2>1 DEF Whole, OriginalInv
  <2> QED
    BY <2>2, <1>1
<1>7. Calm' => /\ o \cup r \cup {Budget} \subseteq throughout'
               /\ throughout \cap (Row \cup {Budget}) \subseteq throughout'
  <2>1. HAVE Calm'
  <2>2. objects \cup refs \cup {Budget} \subseteq throughout
    BY <2>1, <1>2 DEF OriginalInv
  <2>3. Budget \in Object /\ Row \subseteq Object
    BY DEF Object, Placed
  <2>4. throughout \cap (Row \cup {Budget}) \subseteq o
    BY <2>1, <2>3, <1>2, <1>3 DEF OriginalInv
  <2> QED
    BY <2>1, <2>2, <2>4, <1>1, <1>2
<1>8. contacts' \subseteq Contact
  BY <1>1 DEF OriginalInv
<1> QED
  BY <1>1, <1>2, <1>5, <1>6, <1>7, <1>8 DEF Whole, OriginalInv

LEMMA AboveStays ==
  ASSUME NEW o, NEW r, Whole(o, r), NEW x \in Object, NEW y \in Subtree[x], y \in o
  PROVE  x \in o
<1>1. SUFFICES ASSUME x \notin o PROVE FALSE
  OBVIOUS
<1> DEFINE s == {z \in Object : z \notin o}
<1>2. s \in SUBSET Object /\ x \in s
  BY <1>1
<1>3. \A z \in Placed : ParentOf[z] \in s => z \in s
  BY DEF Whole, Object
<1>4. Subtree[x] \subseteq s
  BY <1>2, <1>3, SubtreeIs
<1> QED
  BY <1>4

(* Nor do they take away what is in use without overtaking the copying.     *)
StillInUse ==
  \A y \in InUse : y \in objects \cup contacts => y \in objects' \cup contacts'

EditGoal ==
  /\ OriginalInv'
  /\ throughout' \subseteq throughout /\ ever \subseteq ever'
  /\ Calm' => /\ Calm /\ throughout \cap (Row \cup {Budget}) \subseteq throughout'
              /\ StillInUse
  /\ pc \notin {"done", "failed"} /\ UNCHANGED copying

LEMMA CreateIs ==
  ASSUME OriginalInv, NEW x \in Object, Create(x)
  PROVE  EditGoal
<1> DEFINE o == objects \cup {x}
<1>1. Change("growth", o, contacts, refs) /\ "growth" \in Overtaking
  BY DEF Create, Overtaking
<1>2. /\ o \subseteq Object /\ Whole(o, refs) /\ refs \subseteq CanRefer
      /\ \A p \in refs : p[2] \in Contact => p[2] \in contacts
  BY DEF Create, Whole, OriginalInv
<1> HIDE DEF o
<1>3. /\ OriginalInv'
      /\ throughout' \subseteq throughout /\ ever \subseteq ever'
      /\ ~Calm'
  <2>1. "growth" # "loss"
    OBVIOUS
  <2> QED
    BY <1>1, <1>2, <2>1, ChangeKeepsOriginal
<1> QED
  BY <1>1, <1>3 DEF Change, EditGoal

LEMMA ReferIs ==
  ASSUME OriginalInv, NEW p \in CanRefer, Refer(p)
  PROVE  EditGoal
<1> DEFINE r == (refs \ Column(p)) \cup {p}
<1>1. Change("growth", objects, contacts, r) /\ "growth" \in Overtaking
  BY DEF Refer, Overtaking
<1>2. p[1] \in objects \cup contacts /\ p[2] \in objects \cup contacts
  BY DEF Refer, Among
<1>3. p[1] \notin Contact /\ (p[2] \in Contact => p[2] \notin objects)
  BY ObjectsApart, PairsApart DEF OriginalInv
<1>4. /\ objects \subseteq Object /\ Whole(objects, r) /\ r \subseteq CanRefer
      /\ \A q \in r : q[2] \in Contact => q[2] \in contacts
  BY <1>2, <1>3 DEF Whole, OriginalInv
<1> HIDE DEF r
<1>5. /\ OriginalInv'
      /\ throughout' \subseteq throughout /\ ever \subseteq ever'
      /\ ~Calm'
  <2>1. "growth" # "loss"
    OBVIOUS
  <2> QED
    BY <1>1, <1>4, <2>1, ChangeKeepsOriginal
<1> QED
  BY <1>1, <1>5 DEF Change, EditGoal

LEMMA UnreferIs ==
  ASSUME OriginalInv, NEW p \in CanRefer, Unrefer(p)
  PROVE  EditGoal
<1> DEFINE r == refs \ {p}
<1>1. Change("loss", objects, contacts, r)
  BY DEF Unrefer
<1>2. /\ objects \subseteq Object /\ r \subseteq refs /\ r \subseteq CanRefer
      /\ Whole(objects, r)
      /\ \A q \in r : q[2] \in Contact => q[2] \in contacts
  BY DEF Whole, OriginalInv
<1> HIDE DEF r
<1>3. /\ OriginalInv'
      /\ throughout' \subseteq throughout /\ ever \subseteq ever'
      /\ Calm' => Calm /\ throughout \cap (Row \cup {Budget}) \subseteq throughout'
  BY <1>1, <1>2, ChangeKeepsOriginal
<1>4. StillInUse
  BY <1>1 DEF Change, StillInUse
<1> QED
  BY <1>1, <1>3, <1>4 DEF Change, EditGoal

LEMMA DeleteIs ==
  ASSUME OriginalInv, HeldInv, NEW x \in Object, Delete(x)
  PROVE  EditGoal
<1> DEFINE o == objects \ Below(x, refs)
           r == Among(refs, o \cup contacts)
           kind == IF x \in Row \cup {Budget} THEN "lost row"
                   ELSE IF x \in InUse THEN "taken" ELSE "loss"
<1>1. Change(kind, o, contacts, r)
  BY DEF Delete
<1>2. o \subseteq objects /\ o \subseteq Object /\ r \subseteq refs /\ r \subseteq CanRefer
  BY DEF Among, OriginalInv
<1>3. \A p \in r : p[1] \notin Contact /\ (p[2] \in Contact => p[2] \in contacts)
  BY <1>2, ObjectsApart, PairsApart DEF OriginalInv
<1>4. Whole(o, r)
  <2>1. \A y \in o \cap Placed : ParentOf[y] \in o
    BY BelowIs DEF OriginalInv, Whole
  <2>2. \A p \in r : p[1] \in o /\ p[2] \in o \cup Contact
    BY <1>3 DEF Among, OriginalInv
  <2> QED
    BY <2>1, <2>2 DEF Whole
<1>5. kind = "loss" => /\ x \notin Row \cup {Budget} /\ x \notin InUse
                       /\ Below(x, refs) \subseteq {x} \cup Actual
  BY BelowIs
<1>6. kind = "loss" => objects \cap (Row \cup {Budget}) \subseteq o
  BY <1>5, Apart, ApartFromBudget DEF Row
<1>7. kind \in Overtaking \cup {"loss"}
  BY DEF Overtaking
<1>8. kind = "loss" /\ objects' = o /\ contacts' = contacts => StillInUse
  <2>1. InUse \subseteq Group \cup Contact
    BY DEF InUse, HeldInv
  <2>2. (Group \cup Contact) \cap Actual = {}
    BY Apart
  <2> QED
    BY <1>5, <2>1, <2>2 DEF StillInUse
<1> HIDE DEF o, r, kind
<1>9. /\ OriginalInv'
      /\ throughout' \subseteq throughout /\ ever \subseteq ever'
      /\ Calm' => /\ Calm /\ kind = "loss"
                  /\ throughout \cap (Row \cup {Budget}) \subseteq throughout'
  BY <1>1, <1>2, <1>3, <1>4, <1>6, <1>7, ChangeKeepsOriginal
<1> QED
  BY <1>1, <1>8, <1>9 DEF Change, EditGoal

LEMMA DeleteContactIs ==
  ASSUME OriginalInv, NEW c \in Contact, DeleteContact(c)
  PROVE  EditGoal
<1> DEFINE cs == contacts \ {c}
           r == {p \in refs : p[2] # c}
           kind == IF c \in InUse THEN "taken" ELSE "loss"
<1>1. Change(kind, objects, cs, r)
  BY DEF DeleteContact
<1>2. /\ objects \subseteq Object /\ cs \subseteq contacts
      /\ r \subseteq refs /\ r \subseteq CanRefer /\ Whole(objects, r)
      /\ \A p \in r : p[2] \in Contact => p[2] \in cs
  BY DEF OriginalInv, Whole
<1>3. kind \in Overtaking \cup {"loss"}
  BY DEF Overtaking
<1>4. kind = "loss" /\ objects' = objects /\ contacts' = cs => StillInUse
  BY DEF StillInUse
<1> HIDE DEF cs, r, kind
<1>5. /\ OriginalInv'
      /\ throughout' \subseteq throughout /\ ever \subseteq ever'
      /\ Calm' => /\ Calm /\ kind = "loss"
                  /\ throughout \cap (Row \cup {Budget}) \subseteq throughout'
  BY <1>1, <1>2, <1>3, ChangeKeepsOriginal
<1> QED
  BY <1>1, <1>4, <1>5 DEF Change, EditGoal

LEMMA EditIs ==
  ASSUME OriginalInv, HeldInv, Edit
  PROVE  EditGoal
BY CreateIs, DeleteIs, ReferIs, UnreferIs, DeleteContactIs DEF Edit

(* They do not disturb what the copying goes by. *)
LEMMA EditKeepsCopy ==
  ASSUME TypeOK, OriginalInv, CopyInv, Edit
  PROVE  TypeOK' /\ CopyInv'
<1>1. /\ OriginalInv'
      /\ throughout' \subseteq throughout /\ ever \subseteq ever'
      /\ Calm' => /\ Calm /\ throughout \cap (Row \cup {Budget}) \subseteq throughout'
                  /\ StillInUse
      /\ pc \notin {"done", "failed"}
  BY EditIs DEF EditGoal, CopyInv
<1>2. /\ UNCHANGED <<pc, search, left, found, held, walk, level, copied, under, links>>
      /\ UNCHANGED copying
  BY EditIs DEF EditGoal, CopyInv, copying
<1>3. Copying' = Copying /\ Linking' = Linking
  BY <1>2 DEF Copying, Linking
<1>4. TypeOK'
  <2>1. throughout' \subseteq ever'
    BY <1>1 DEF TypeOK
  <2>2. /\ objects' \subseteq Object /\ contacts' \subseteq Contact /\ refs' \subseteq CanRefer
        /\ ever' \subseteq Object \cup CanRefer
    BY <1>1 DEF OriginalInv
  <2> QED
    BY <1>2, <2>1, <2>2 DEF TypeOK
<1>5. WalkInv'
  BY <1>1, <1>2 DEF CopyInv, WalkInv
<1>6. LevelInv'
  BY <1>1, <1>2 DEF CopyInv, LevelInv
<1>7. FoundInv'
  <2>1. found \subseteq SubAccount
    BY DEF TypeOK
  <2>2. Calm' => found \subseteq throughout'
    BY <1>1, <2>1 DEF CopyInv, FoundInv, Row
  <2> QED
    BY <1>1, <1>2, <2>2 DEF CopyInv, FoundInv
<1>8. CopiedInv'
  BY <1>1, <1>2, <1>3 DEF CopyInv, CopiedInv, Row
<1>9. PlacedInv'
  BY <1>1, <1>2 DEF CopyInv, PlacedInv, Misplaced
<1>10. LinkedInv'
  BY <1>1, <1>2, <1>3 DEF CopyInv, LinkedInv
<1>11. DoneInv' /\ FailedInv'
  BY <1>1, <1>2 DEF DoneInv, FailedInv
<1>12. SearchInv'
  BY <1>1, <1>2 DEF CopyInv, SearchInv
<1>13. HeldInv'
  <2>1. ASSUME Calm'
        PROVE  /\ \A p \in held : p[2] \in objects' \cup contacts'
               /\ \A p \in links : p[2] \in Contact => p[2] \in contacts'
    <3>1. Calm /\ StillInUse
      BY <1>1, <2>1
    <3>2. \A p \in held : p[2] \in InUse /\ p[2] \in objects \cup contacts
      BY <3>1 DEF InUse, CopyInv, HeldInv
    <3>3. \A p \in links : p[2] \in Contact => p[2] \in InUse /\ p[2] \in contacts
      BY <3>1 DEF InUse, CopyInv, HeldInv
    <3>4. Contact \cap objects' = {}
      BY <1>1, ObjectsApart DEF OriginalInv
    <3> QED
      BY <3>1, <3>2, <3>3, <3>4 DEF StillInUse
  <2> QED
    BY <1>1, <1>2, <2>1 DEF CopyInv, HeldInv
<1>14. LeftInv'
  BY <1>2 DEF CopyInv, LeftInv
<1> QED
  BY <1>4, <1>5, <1>6, <1>7, <1>8, <1>9, <1>10, <1>11, <1>12, <1>13, <1>14 DEF CopyInv

-------------------------------------------------------------------------------
(* The steps of the copying leave the original alone. *)
LEMMA GotoKeepsOriginal ==
  ASSUME UNCHANGED original, OriginalInv
  PROVE  OriginalInv' /\ (Calm' <=> Calm)
BY DEF original, OriginalInv, Whole, Calm

LEMMA CanReferIs ==
  ASSUME NEW p \in CanRefer
  PROVE  \/ p[1] \in Row /\ p[2] \in Group \cup Markup
         \/ p[1] \in SubAccount /\ p[2] \in Fringe
         \/ p[1] \in Actual /\ p[2] \in SubAccount \cup Markup
         \/ p[1] \in SubAccount \cup Actual /\ p[2] \in Contact
BY DEF CanRefer

(* What was there throughout is there at every step. *)
LEMMA ThroughoutIs ==
  ASSUME OriginalInv
  PROVE  /\ \A x \in throughout \cap Object : x \in objects
         /\ \A p \in throughout \cap CanRefer :
              p \in refs /\ p[1] \in throughout /\ p[2] \in throughout \cup Contact
         /\ \A y \in throughout \cap Placed : ParentOf[y] \in throughout
         /\ \A p \in refs : /\ p[1] \in objects /\ p[2] \in objects \cup Contact
                            /\ p[2] \in Contact => p[2] \in contacts
         /\ \A x \in Row : x \in Object
         /\ \A x \in throughout \cap Row : x \in objects
<1>1. Row \subseteq Object
  BY DEF Object, Placed
<1>2. \A x \in throughout \cap Object : x \in objects
  BY PairsApart DEF OriginalInv
<1> QED
  BY <1>1, <1>2, PairsApart DEF OriginalInv, Whole, Object

LEMMA FailKeeps ==
  ASSUME Inv, Fail, ~Calm
  PROVE  Inv'
<1>1. /\ pc' = "failed" /\ UNCHANGED original
      /\ search' = NewSearch("list") /\ left' = {}
      /\ found' = {} /\ held' = {} /\ walk' = NoWalk /\ level' = [s \in {} |-> 0]
      /\ copied' = {} /\ under' = {} /\ links' = {}
  BY DEF Fail, Goto
<1>2. OriginalInv' /\ ~Calm'
  BY <1>1, GotoKeepsOriginal DEF Inv
<1>3. TypeOK'
  <2>1. search' \in [step : {"list", "tops", "open", "look", "select"},
                     listed : SUBSET Row, tops : SUBSET Account, seen : SUBSET SubAccount]
    BY <1>1 DEF NewSearch
  <2>2. walk' \in [row : SubAccount \cup {None}, at : {Budget, None} \cup Row,
                   fetched : 0..MaxDepth + 1]
    BY <1>1, DuplicationAssumption DEF NoWalk
  <2>3. level' \in UNION {[s -> -1..MaxDepth] : s \in SUBSET found'}
    <3>1. level' \in [{} -> -1..MaxDepth] /\ {} \in SUBSET found'
      BY <1>1
    <3> QED
      BY <3>1
  <2> QED
    BY <1>1, <2>1, <2>2, <2>3 DEF Inv, TypeOK, original, Steps
<1>4. Copying' = {} /\ Linking' = {}
  BY <1>1 DEF Copying, Linking, Unstarted
<1>5. WalkInv' /\ LevelInv' /\ DoneInv' /\ LeftInv' /\ HeldInv'
  BY <1>1 DEF WalkInv, LevelInv, DoneInv, LeftInv, HeldInv
<1>6. FoundInv' /\ SearchInv'
  BY <1>1 DEF FoundInv, SearchInv, NewSearch, Unstarted
<1>7. CopiedInv'
  BY <1>1, <1>4 DEF CopiedInv, Unstarted
<1>8. PlacedInv' /\ LinkedInv'
  BY <1>1, <1>4 DEF PlacedInv, LinkedInv
<1> QED
  BY <1>2, <1>3, <1>5, <1>6, <1>7, <1>8 DEF Inv, CopyInv, FailedInv

-------------------------------------------------------------------------------
(* The accounts. *)
LEMMA LoadAccountsKeeps ==
  ASSUME Inv, LoadAccounts
  PROVE  Inv'
<1> DEFINE as == Account \cap objects
<1>1. /\ pc = "accounts" /\ pc' = "look up accounts" /\ UNCHANGED original
      /\ UNCHANGED <<objects, contacts, refs, throughout, ever, disturbed>>
      /\ UNCHANGED <<found, walk, level, search, left, links>>
      /\ copied' = {Budget} \cup as /\ under' = as \X {Budget}
      /\ held' = {p \in refs : p[1] \in as /\ p[2] \in Group}
  BY DEF LoadAccounts, Goto, KeepRows, original
<1>2. OriginalInv' /\ (Calm' <=> Calm)
  BY <1>1, GotoKeepsOriginal DEF Inv
<1>3. copied = {} /\ found = {} /\ walk = NoWalk
  BY <1>1 DEF Inv, CopyInv, CopiedInv, FoundInv, Copying, Unstarted
<1>4. as \subseteq Placed /\ as \subseteq Object /\ Budget \in Object
  BY DEF Placed, Row, Object
<1>5. TypeOK'
  <2>1. held' \subseteq CanRefer
    BY <1>1 DEF Inv, TypeOK
  <2>2. copied' \subseteq Object /\ under' \subseteq Placed \X ({Budget} \cup Row)
    BY <1>1, <1>4
  <2> QED
    BY <1>1, <2>1, <2>2 DEF Inv, TypeOK, Steps
<1>6. WalkInv' /\ LevelInv' /\ DoneInv' /\ LeftInv'
  BY <1>1 DEF Inv, CopyInv, WalkInv, LevelInv, DoneInv, LeftInv
<1>7. FoundInv' /\ SearchInv'
  BY <1>1, <1>2 DEF Inv, CopyInv, FoundInv, SearchInv, Unstarted
<1>8. Copying' = {Budget} \cup Account
  BY <1>1, Apart, ApartFromBudget DEF Copying, BeforeGroups, BeforeFringes, Object, Placed, Row
<1>9. CopiedInv'
  <2>1. throughout' \cap Copying' \subseteq copied'
    BY <1>1, <1>8, ThroughoutIs DEF Inv, Row
  <2>2. copied' \subseteq ever'
    BY <1>1 DEF Inv, OriginalInv
  <2>3. Calm' => copied' \cap Account \subseteq throughout'
    <3>1. Budget \notin Account
      BY ApartFromBudget
    <3> QED
      BY <1>1, <1>2, <3>1 DEF Inv, OriginalInv
  <2> QED
    BY <1>1, <1>8, <2>1, <2>2, <2>3 DEF CopiedInv, Unstarted
<1>10. PlacedInv'
  <2>1. \A a \in as : ParentOf[a] = Budget
    BY DuplicationAssumption
  <2>2. copied' \cap Placed = as
    BY <1>1, <1>4, ApartFromBudget DEF Placed, Row
  <2>3. \A x \in as : {p \in under' : p[1] = x} = {<<x, Budget>>}
    <3> TAKE x \in as
    <3>1. <<x, Budget>> \in under' /\ <<x, Budget>>[1] = x
      BY <1>1
    <3>2. \A p \in as \X {Budget} : p = <<p[1], p[2]>> /\ p[2] = Budget
      OBVIOUS
    <3>3. \A p \in under' : p[1] = x => p = <<x, Budget>>
      BY <1>1, <3>2
    <3> QED
      BY <3>1, <3>3
  <2>4. \A p \in under' : p[1] \in copied' /\ p[2] \in copied' /\ p[2] = ParentOf[p[1]]
    BY <1>1, <2>1
  <2>5. \A x \in as : <<x, ParentOf[x]>> \in under'
    BY <1>1, <2>1
  <2> QED
    BY <2>2, <2>3, <2>4, <2>5 DEF PlacedInv
<1>11. LinkedInv' /\ links' = {}
  <2>1. links = {}
    BY <1>3 DEF Inv, CopyInv, LinkedInv
  <2>2. Linking' = {}
    BY <1>1 DEF Linking, Unstarted
  <2> QED
    BY <1>1, <2>1, <2>2 DEF LinkedInv
<1>12. HeldInv'
  <2>1. held' \subseteq ever' /\ \A p \in held' : p[1] \in copied' /\ p[2] \in Group
    BY <1>1 DEF Inv, OriginalInv
  <2>2. \A p \in held' : p[2] \in objects' \cup contacts'
    BY <1>1, ThroughoutIs DEF Inv
  <2> QED
    BY <1>1, <1>11, <2>1, <2>2 DEF HeldInv
<1> QED
  BY <1>1, <1>2, <1>5, <1>6, <1>7, <1>9, <1>10, <1>11, <1>12 DEF Inv, CopyInv, FailedInv

LEMMA GoneOvertaken ==
  ASSUME Inv, NEW s, Gone(s)
  PROVE  ~Calm
BY DEF Gone, Inv, CopyInv, HeldInv

LEMMA LookUpAccountsKeeps ==
  ASSUME Inv, LookUpAccounts
  PROVE  Inv'
<1>1. CASE (Gone(Account) \/ ~(copied \cap Account \subseteq objects)) /\ Fail
  <2>1. Calm => copied \cap Account \subseteq objects
    BY ThroughoutIs DEF Inv, CopyInv, CopiedInv, Row
  <2> QED
    BY <1>1, <2>1, GoneOvertaken, FailKeeps
<1>2. CASE /\ held' = {}
           /\ Goto("find") /\ KeepRows /\ UNCHANGED <<search, left, copied, under, links>>
  <2>1. /\ pc = "look up accounts" /\ pc' = "find" /\ UNCHANGED original
        /\ UNCHANGED <<objects, contacts, refs, throughout, ever, disturbed>>
        /\ UNCHANGED <<found, walk, level, search, left, copied, under, links>>
    BY <1>2 DEF LookUpAccounts, Goto, KeepRows, original
  <2>2. OriginalInv' /\ (Calm' <=> Calm)
    BY <2>1, GotoKeepsOriginal DEF Inv
  <2>3. TypeOK'
    BY <1>2, <2>1 DEF Inv, TypeOK, Steps
  <2>4. Copying' = Copying /\ Linking' = Linking
    BY <2>1 DEF Copying, Linking, BeforeGroups, BeforeFringes, WithActuals, Unstarted
  <2>5. WalkInv' /\ LevelInv' /\ DoneInv' /\ FailedInv' /\ LeftInv'
    BY <2>1 DEF Inv, CopyInv, WalkInv, LevelInv, DoneInv, FailedInv, LeftInv
  <2>6. FoundInv' /\ SearchInv'
    BY <2>1, <2>2 DEF Inv, CopyInv, FoundInv, SearchInv, Unstarted
  <2>7. HeldInv'
    BY <1>2, <2>1, <2>2 DEF Inv, CopyInv, HeldInv
  <2>8. CopiedInv'
    BY <2>1, <2>2, <2>4 DEF Inv, CopyInv, CopiedInv, Unstarted
  <2>9. PlacedInv'
    BY <2>1 DEF Inv, CopyInv, PlacedInv, Misplaced
  <2>10. LinkedInv'
    BY <2>1, <2>4 DEF Inv, CopyInv, LinkedInv
  <2> QED
    BY <2>2, <2>3, <2>5, <2>6, <2>7, <2>8, <2>9, <2>10 DEF Inv, CopyInv
<1> QED
  BY <1>1, <1>2 DEF LookUpAccounts

-------------------------------------------------------------------------------
(* The search. *)
SearchType ==
  [step : {"list", "tops", "open", "look", "select"},
   listed : SUBSET Row, tops : SUBSET Account, seen : SUBSET SubAccount]

LeftType == Row \cup (Markup \X {Account, SubAccount})

LEMMA OnlySearchKeeps ==
  ASSUME Inv, pc \in {"find", "groups", "markups"}, OnlySearch, SearchInv',
         search' \in SearchType, left' \subseteq LeftType
  PROVE  Inv'
<1>1. /\ pc' = pc /\ UNCHANGED original
      /\ UNCHANGED <<objects, contacts, refs, throughout, ever, disturbed>>
      /\ UNCHANGED <<found, walk, level, held, copied, under, links>>
  BY DEF OnlySearch, Goto, KeepRows, original
<1>2. OriginalInv' /\ (Calm' <=> Calm)
  BY <1>1, GotoKeepsOriginal DEF Inv
<1>3. TypeOK'
  BY <1>1 DEF Inv, TypeOK, SearchType, LeftType
<1>4. Copying' = Copying
  BY <1>1 DEF Copying
<1>5. Linking' = Linking
  <2>1. pc # "link fringes" /\ pc # "link markups"
    OBVIOUS
  <2> QED
    BY <1>1, <2>1 DEF Linking
<1>6. WalkInv' /\ LevelInv' /\ DoneInv' /\ FailedInv' /\ LeftInv'
  BY <1>1, <1>2 DEF Inv, CopyInv, WalkInv, LevelInv, DoneInv, FailedInv, LeftInv
<1>7. FoundInv' /\ HeldInv'
  BY <1>1, <1>2 DEF Inv, CopyInv, FoundInv, HeldInv
<1>8. CopiedInv' /\ PlacedInv' /\ LinkedInv'
  BY <1>1, <1>2, <1>4, <1>5 DEF Inv, CopyInv, CopiedInv, PlacedInv, LinkedInv, Misplaced
<1> QED
  BY <1>2, <1>3, <1>6, <1>7, <1>8 DEF Inv, CopyInv

LEMMA OnlySearchIs ==
  ASSUME OnlySearch
  PROVE  /\ pc' = pc
         /\ UNCHANGED <<objects, contacts, refs, throughout, ever, disturbed>>
BY DEF OnlySearch, Goto, original

LEMMA SearchTypeIs ==
  ASSUME Inv
  PROVE  /\ search \in SearchType /\ left \subseteq LeftType
         /\ Account \cap objects \subseteq LeftType /\ Account \cap objects \in SUBSET Account
         /\ Account \cap objects \in SUBSET Row
         /\ throughout \cap Account \subseteq Account \cap objects
BY ThroughoutIs DEF Inv, TypeOK, SearchType, LeftType, Row

LEMMA ListAccountsKeeps ==
  ASSUME Inv, ListAccounts
  PROVE  Inv'
<1> DEFINE as == Account \cap objects
<1>1. /\ pc \in {"find", "groups", "markups"} /\ OnlySearch
      /\ search' = [search EXCEPT !.step = "tops", !.listed = as] /\ left' = left
      /\ search.step = "list"
  BY DEF ListAccounts, Searching
<1>2. search' \in SearchType /\ search'.step = "tops" /\ search'.listed = as
      /\ search'.seen = search.seen /\ search.step = "list"
  BY <1>1, SearchTypeIs DEF SearchType
<1>3. SearchInv'
  BY <1>1, <1>2, OnlySearchIs, SearchTypeIs DEF SearchInv, Inv, CopyInv
<1> HIDE DEF as
<1> QED
  BY <1>1, <1>2, <1>3, OnlySearchKeeps, SearchTypeIs

LEMMA FindTopsKeeps ==
  ASSUME Inv, FindTops
  PROVE  Inv'
<1> DEFINE as == Account \cap objects
<1>1. /\ pc \in {"find", "groups", "markups"} /\ OnlySearch /\ search.step = "tops"
      /\ search' = [search EXCEPT !.step = "open", !.tops = as] /\ left' = left
  BY DEF FindTops, Searching
<1>2. /\ search' \in SearchType /\ search'.step = "open" /\ search'.tops = as
      /\ search'.listed = search.listed /\ search'.seen = search.seen
  BY <1>1, SearchTypeIs DEF SearchType
<1>3. SearchInv'
  BY <1>1, <1>2, OnlySearchIs, SearchTypeIs DEF SearchInv, Inv, CopyInv
<1> HIDE DEF as
<1> QED
  BY <1>1, <1>2, <1>3, OnlySearchKeeps, SearchTypeIs

LEMMA OpenLevelsKeeps ==
  ASSUME Inv, OpenLevels
  PROVE  Inv'
<1>1. /\ pc \in {"find", "groups", "markups"} /\ OnlySearch /\ search.step = "open"
      /\ search' = [search EXCEPT !.step = "look"] /\ left' = Account \cap objects
  BY DEF OpenLevels, Searching
<1>2. /\ search' \in SearchType /\ search'.step = "look" /\ search'.tops = search.tops
      /\ search'.listed = search.listed /\ search'.seen = search.seen
  BY <1>1, SearchTypeIs DEF SearchType
<1>3. \A s \in throughout \cap SubAccount :
        s \in search.seen \/ ParentOf[s] \in left' \/ ParentOf[s] \in SubAccount \ search.seen
  <2> TAKE s \in throughout \cap SubAccount
  <2>1. ParentOf[s] \in Row /\ ParentOf[s] \in throughout
    BY ThroughoutIs, DuplicationAssumption DEF Inv, Placed, Row
  <2>2. search.seen = {}
    BY <1>1 DEF Inv, CopyInv, SearchInv
  <2>3. ParentOf[s] \in Account => ParentOf[s] \in left'
    BY <1>1, <2>1, SearchTypeIs
  <2> QED
    BY <2>1, <2>2, <2>3 DEF Row
<1>4. SearchInv'
  BY <1>1, <1>2, <1>3, OnlySearchIs, SearchTypeIs DEF SearchInv, Inv, CopyInv
<1> QED
  BY <1>1, <1>2, <1>4, OnlySearchKeeps, SearchTypeIs

LEMMA LookKeeps ==
  ASSUME Inv, NEW y \in Row, Look(y)
  PROVE  Inv'
<1> DEFINE children == {s \in SubAccount \cap objects : ParentOf[s] = y}
<1>1. /\ pc \in {"find", "groups", "markups"} /\ OnlySearch /\ search.step = "look"
      /\ y \in left /\ left' = (left \ {y}) \cup children
      /\ search' = [search EXCEPT !.seen = search.seen \cup children]
  BY DEF Look, Searching
<1>2. children \subseteq SubAccount /\ SubAccount \subseteq LeftType
  BY DEF LeftType, Row
<1>3. /\ search' \in SearchType /\ search'.step = "look" /\ search'.tops = search.tops
      /\ search'.listed = search.listed /\ search'.seen = search.seen \cup children
  <2> HIDE DEF children
  <2> QED
    BY <1>1, <1>2, SearchTypeIs DEF SearchType
<1>4. left' \subseteq LeftType
  BY <1>1, <1>2, SearchTypeIs
<1>5. \A s \in throughout \cap SubAccount :
        s \in search.seen \/ ParentOf[s] \in left \/ ParentOf[s] \in SubAccount \ search.seen
  BY <1>1 DEF Inv, CopyInv, SearchInv
<1>6. \A s \in throughout \cap SubAccount :
        \/ s \in search.seen \cup children \/ ParentOf[s] \in left'
        \/ ParentOf[s] \in SubAccount \ (search.seen \cup children)
  <2> TAKE s \in throughout \cap SubAccount
  <2>1. s \in objects
    BY ThroughoutIs DEF Inv, Row
  <2>2. ParentOf[s] = y => s \in children
    BY <2>1
  <2>3. ParentOf[s] # y /\ ParentOf[s] \in left => ParentOf[s] \in left'
    BY <1>1
  <2>4. ParentOf[s] \in children => ParentOf[s] \in left'
    BY <1>1
  <2> QED
    BY <1>5, <2>2, <2>3, <2>4
<1> HIDE DEF children
<1>7. SearchInv'
  BY <1>1, <1>3, <1>6, OnlySearchIs DEF SearchInv, Inv, CopyInv
<1> QED
  BY <1>1, <1>3, <1>4, <1>7, OnlySearchKeeps

LEMMA DepthIs ==
  /\ MaxDepth \in Nat
  /\ \A y \in Row : Depth[y] \in 0..MaxDepth
  /\ \A y \in Account : Depth[y] = 0 /\ ParentOf[y] = Budget
  /\ \A y \in SubAccount : ParentOf[y] \in Row /\ Depth[y] = Depth[ParentOf[y]] + 1
  /\ Budget \notin Row /\ None \notin Row
BY DuplicationAssumption, ApartFromBudget DEF Row, Object, Placed

LEMMA Least ==
  ASSUME NEW T \in SUBSET Nat, T # {}
  PROVE  \E x \in T : \A y \in T : x <= y
<1>1. IsWellFoundedOn(OpToRel(<, Nat), Nat)
  BY NatLessThanWellFounded
<1>2. PICK x \in T : \A y \in T : <<y, x>> \notin OpToRel(<, Nat)
  BY <1>1, WFMin
<1>3. \A y \in T : ~ (y < x)
  BY <1>2 DEF OpToRel
<1> QED
  BY <1>3

(* When nothing is left to ask for, all that was there throughout is seen:  *)
(* of those that are not, take one with the fewest rows above it.           *)
LEMMA AllSeen ==
  ASSUME Inv, Looked
  PROVE  throughout \cap SubAccount \subseteq search.seen
<1> DEFINE unseen == (throughout \cap SubAccount) \ search.seen
           T == {Depth[s] : s \in unseen}
<1>1. SUFFICES ASSUME unseen # {} PROVE FALSE
  OBVIOUS
<1>2. \A s \in unseen : Depth[s] \in Nat /\ ParentOf[s] \in SubAccount
                        /\ Depth[s] = Depth[ParentOf[s]] + 1 /\ Depth[ParentOf[s]] \in Nat
                        /\ ParentOf[s] \in unseen
  <2> TAKE s \in unseen
  <2>1. ParentOf[s] \in SubAccount \ search.seen
    BY DEF Looked, Inv, CopyInv, SearchInv
  <2>2. ParentOf[s] \in throughout
    BY ThroughoutIs DEF Inv, Placed, Row
  <2>3. Depth[s] = Depth[ParentOf[s]] + 1 /\ Depth[s] \in Nat /\ Depth[ParentOf[s]] \in Nat
    BY <2>1, DepthIs DEF Row
  <2> QED
    BY <2>1, <2>2, <2>3
<1>3. T \in SUBSET Nat /\ T # {}
  BY <1>1, <1>2
<1> HIDE DEF unseen
<1>4. PICK d \in T : \A e \in T : d <= e
  <2> HIDE DEF T
  <2> QED
    BY <1>3, Least
<1>5. PICK s \in unseen : d = Depth[s]
  BY <1>4
<1>6. Depth[ParentOf[s]] \in T /\ Depth[ParentOf[s]] < d
  <2>1. /\ ParentOf[s] \in unseen /\ d = Depth[ParentOf[s]] + 1
        /\ Depth[ParentOf[s]] \in Nat
    BY <1>2, <1>5
  <2> QED
    BY <2>1
<1>7. d \in Nat /\ Depth[ParentOf[s]] \in Nat /\ d <= Depth[ParentOf[s]]
  <2> HIDE DEF T
  <2> QED
    BY <1>3, <1>4, <1>6
<1> QED
  BY <1>6, <1>7

LEMMA MatchingIs ==
  ASSUME Inv, Looked
  PROVE  /\ Matching \subseteq SubAccount \cap objects
         /\ throughout \cap SubAccount \subseteq Matching
<1>1. ASSUME NEW s \in throughout \cap SubAccount
      PROVE  s \in objects /\ ParentOf[s] \in search.tops \cup search.seen
  <2>1. s \in objects /\ ParentOf[s] \in throughout /\ ParentOf[s] \in Row
    BY ThroughoutIs, DepthIs DEF Inv, Placed, Row
  <2>2. ParentOf[s] \in Account => ParentOf[s] \in search.tops
    BY <2>1 DEF Looked, Inv, CopyInv, SearchInv
  <2>3. ParentOf[s] \in SubAccount => ParentOf[s] \in search.seen
    BY <2>1, AllSeen
  <2> QED
    BY <2>1, <2>2, <2>3 DEF Row
<1> QED
  BY <1>1 DEF Matching

LEMMA ListSubAccountsKeeps ==
  ASSUME Inv, ListSubAccounts
  PROVE  Inv'
<1>1. /\ pc \in {"groups", "markups"} /\ OnlySearch /\ Looked
      /\ search' = [NewSearch("select") EXCEPT !.listed = search.listed \cup Matching]
      /\ left' = left
  BY DEF ListSubAccounts
<1>2. throughout \cap SubAccount \subseteq Matching /\ Matching \subseteq SubAccount
  BY <1>1, MatchingIs
<1>3. throughout \cap Account \subseteq search.listed
  BY <1>1 DEF Looked, Inv, CopyInv, SearchInv, Unstarted
<1>4. /\ search' \in SearchType /\ search'.step = "select" /\ search'.seen = {}
      /\ search'.listed = search.listed \cup Matching
  BY <1>1, <1>2, SearchTypeIs DEF SearchType, NewSearch, Row
<1>5. SearchInv'
  BY <1>1, <1>2, <1>3, <1>4, OnlySearchIs DEF SearchInv, Row
<1> QED
  BY <1>1, <1>4, <1>5, OnlySearchKeeps, SearchTypeIs

LEMMA LoadSubAccountsKeeps ==
  ASSUME Inv, LoadSubAccounts
  PROVE  Inv'
<1>1. /\ pc = "find" /\ pc' = "measure" /\ UNCHANGED original /\ Looked
      /\ UNCHANGED <<objects, contacts, refs, throughout, ever, disturbed>>
      /\ UNCHANGED <<left, walk, level, copied, under, links>>
      /\ found' = Matching /\ search' = NewSearch("list")
      /\ held' = {p \in refs : p[1] \in found' /\ p[2] \in Group \cup Contact}
  BY DEF LoadSubAccounts, Goto, original
<1>2. OriginalInv' /\ (Calm' <=> Calm)
  BY <1>1, GotoKeepsOriginal DEF Inv
<1>3. found = {} /\ walk = NoWalk
  BY <1>1 DEF Inv, CopyInv, FoundInv, Unstarted
<1>4. /\ found' \subseteq SubAccount /\ found' \subseteq objects
      /\ throughout \cap SubAccount \subseteq found'
  BY <1>1, MatchingIs
<1>5. DOMAIN level = {}
  <2>1. PICK d \in SUBSET found : level \in [d -> -1..MaxDepth]
    BY DEF Inv, TypeOK
  <2> QED
    BY <1>3, <2>1
<1>6. TypeOK'
  <2>1. search' \in SearchType /\ held' \subseteq CanRefer
    BY <1>1 DEF NewSearch, SearchType, Inv, TypeOK
  <2>2. level' \in UNION {[s -> -1..MaxDepth] : s \in SUBSET found'}
    <3>1. level \in [{} -> -1..MaxDepth] /\ {} \in SUBSET found'
      BY <1>3 DEF Inv, TypeOK
    <3> QED
      BY <1>1, <3>1
  <2> QED
    BY <1>1, <1>4, <2>1, <2>2 DEF Inv, TypeOK, Steps, SearchType
<1>7. WalkInv' /\ LevelInv' /\ DoneInv' /\ FailedInv' /\ LeftInv'
  BY <1>1, <1>3, <1>5 DEF WalkInv, LevelInv, DoneInv, FailedInv, LeftInv
<1>8. FoundInv'
  <2>1. found' \subseteq ever' /\ (Calm' => found' \subseteq throughout')
    BY <1>1, <1>2, <1>4 DEF Inv, OriginalInv
  <2> QED
    BY <1>1, <1>4, <2>1 DEF FoundInv, Unstarted
<1>9. SearchInv'
  BY <1>1 DEF SearchInv, NewSearch
<1>10. HeldInv'
  <2>1. held' \subseteq ever' /\ \A p \in held' : p[1] \in found' /\ p[2] \in Group \cup Contact
    BY <1>1 DEF Inv, OriginalInv
  <2>2. \A p \in held' : p[2] \in objects' \cup contacts'
    BY <1>1, ThroughoutIs DEF Inv
  <2>3. \A p \in throughout' \cap CanRefer :
          p[1] \in found' \ DOMAIN level' /\ p[2] \in Contact => p \in held'
    BY <1>1, ThroughoutIs DEF Inv
  <2>4. Calm' => \A p \in links' : p[2] \in Contact => p[2] \in contacts'
    BY <1>1, <1>2 DEF Inv, CopyInv, HeldInv
  <2> QED
    BY <1>1, <2>1, <2>2, <2>3, <2>4 DEF HeldInv
<1>11. Copying' = Copying
  BY <1>1 DEF Copying, BeforeGroups, BeforeFringes, WithActuals
<1>12. CopiedInv'
  BY <1>1, <1>2, <1>11 DEF Inv, CopyInv, CopiedInv, Unstarted
<1>13. PlacedInv'
  BY <1>1 DEF Inv, CopyInv, PlacedInv, Misplaced
<1>14. LinkedInv'
  <2>1. Linking' = {}
    <3>1. ASSUME NEW p \in Linking' PROVE FALSE
      <4>1. p \in CanRefer /\ p[2] \notin Contact /\ p[2] \notin Group /\ p[2] \notin Fringe
                /\ p[2] \notin Markup /\ p[1] \notin Actual
        BY <1>1, <1>5 DEF Linking, WithActuals
      <4> QED
        BY <4>1, CanReferIs
    <3> QED
      BY <3>1
  <2> QED
    BY <1>1, <1>3, <2>1 DEF Inv, CopyInv, LinkedInv
<1> QED
  BY <1>1, <1>2, <1>6, <1>7, <1>8, <1>9, <1>10, <1>12, <1>13, <1>14 DEF Inv, CopyInv

-------------------------------------------------------------------------------
(* The climb. *)
WalkType ==
  [row : SubAccount \cup {None}, at : {Budget, None} \cup Row, fetched : 0..MaxDepth + 1]

(* A step that only walks leaves the copy as it was. *)
LEMMA WalkingKeeps ==
  ASSUME Inv, pc = "measure", pc' = "measure", UNCHANGED original,
         UNCHANGED <<search, left, found, held, level, copied, under, links>>,
         WalkInv', walk' \in WalkType
  PROVE  Inv'
<1>1. OriginalInv' /\ (Calm' <=> Calm)
  BY GotoKeepsOriginal DEF Inv
<1>2. Copying' = Copying /\ Linking' = Linking
  BY DEF Copying, Linking
<1>3. CopiedInv' /\ PlacedInv' /\ LinkedInv'
  BY <1>1, <1>2 DEF Inv, CopyInv, CopiedInv, PlacedInv, LinkedInv, Misplaced, original
<1>4. FoundInv' /\ FailedInv' /\ HeldInv' /\ DoneInv'
  BY <1>1 DEF Inv, CopyInv, FoundInv, FailedInv, HeldInv, DoneInv, Unstarted, original
<1>5. SearchInv' /\ LeftInv' /\ LevelInv'
  BY DEF Inv, CopyInv, SearchInv, LeftInv, LevelInv, original
<1>6. TypeOK'
  BY DEF Inv, TypeOK, WalkType, original
<1> QED
  BY <1>1, <1>3, <1>4, <1>5, <1>6 DEF Inv, CopyInv

LEMMA BeginWalkKeeps ==
  ASSUME Inv, NEW s \in SubAccount, BeginWalk(s)
  PROVE  Inv'
<1>1. /\ pc = "measure" /\ pc' = "measure" /\ UNCHANGED original
      /\ UNCHANGED <<search, left, found, held, level, copied, under, links>>
      /\ s \in found /\ walk' = [row |-> s, at |-> s, fetched |-> 0]
  BY DEF BeginWalk, Goto
<1>2. s \in Row /\ s \in Object /\ s # None /\ s # Budget /\ s \in Subtree[s]
  BY SubtreeIs, ApartFromBudget DEF Row, Placed, Object
<1>3. WalkInv'
  BY <1>1, <1>2, DepthIs DEF WalkInv
<1>4. walk' \in WalkType
  BY <1>1, <1>2, DepthIs DEF WalkType
<1> QED
  BY <1>1, <1>3, <1>4, WalkingKeeps

LEMMA ClimbKeeps ==
  ASSUME Inv, Climb
  PROVE  Inv'
<1> DEFINE up == ParentOf[walk.at]
           next == IF up \in objects THEN up ELSE None
<1>1. /\ pc = "measure" /\ pc' = "measure" /\ UNCHANGED original
      /\ UNCHANGED <<search, left, found, held, level, copied, under, links>>
      /\ walk.at \in Row
      /\ walk' = [walk EXCEPT !.fetched = walk.fetched + 1, !.at = next]
  BY DEF Climb, Goto
<1>2. walk \in WalkType
  BY DEF Inv, TypeOK, WalkType
<1>3. walk # NoWalk
  BY <1>1, DepthIs DEF NoWalk
<1>4. /\ walk.row \in found /\ walk.fetched + Depth[walk.at] = Depth[walk.row]
      /\ walk.row \in Subtree[walk.at] /\ walk.row \in SubAccount
  BY <1>1, <1>3, DepthIs DEF Inv, CopyInv, WalkInv, TypeOK
<1>5. /\ walk'.row = walk.row /\ walk'.at = next
      /\ walk'.fetched = walk.fetched + 1
  BY <1>1, <1>2 DEF WalkType
<1>6. /\ walk.row \in Row /\ walk.at \in Object /\ walk.at \in Placed
      /\ walk.fetched \in Nat
      /\ Depth[walk.at] \in Nat /\ Depth[walk.row] \in 0..MaxDepth
  BY <1>1, <1>2, <1>4, DepthIs DEF Row, Placed, Object, WalkType
<1>7. \/ up \in Row /\ Depth[walk.at] = Depth[up] + 1 /\ Depth[up] \in Nat
      \/ up = Budget /\ Depth[walk.at] = 0
  BY <1>1, DepthIs DEF Row
<1>8. walk.row \in Subtree[up]
  <2>1. up \in Object
    BY <1>7 DEF Object, Placed
  <2>2. walk.at \in Subtree[up]
    BY <2>1, <1>6, SubtreeIs
  <2>3. Subtree[walk.at] \subseteq Subtree[up]
    BY <2>1, <2>2, <1>6, SubtreeIs
  <2> QED
    BY <1>4, <2>3
<1>9. walk.row \in throughout => up \in objects
  <2>1. HAVE walk.row \in throughout
  <2>2. walk.row \in throughout \cap Object
    BY <2>1, <1>6 DEF Object, Placed
  <2>3. walk.at \in throughout \cap Object
    BY <2>2, <1>4, <1>6, AboveStays DEF Inv, OriginalInv
  <2>4. up \in throughout
    BY <2>3, <1>6, ThroughoutIs DEF Inv
  <2>5. up \in Object
    BY <1>7 DEF Object, Placed
  <2> QED
    BY <2>4, <2>5, ThroughoutIs DEF Inv
<1> HIDE DEF up
<1>10. next \in {up, None} /\ (up \in objects => next = up)
  OBVIOUS
<1>11. Budget # None /\ None \notin Row /\ Budget \notin Row
  BY DepthIs, ApartFromBudget
<1> HIDE DEF next
<1>12. walk'.fetched \in 1..Depth[walk.row] + 1
  BY <1>4, <1>5, <1>6
<1>13. next \in Row => walk'.fetched + Depth[next] = Depth[walk.row]
  BY <1>4, <1>5, <1>6, <1>7, <1>10, <1>11
<1>14. next = Budget => walk'.fetched = Depth[walk.row] + 1
  BY <1>4, <1>5, <1>6, <1>7, <1>10, <1>11
<1>15. WalkInv'
  <2>1. walk'.row \in found' /\ walk'.at \in Row \cup {Budget, None}
    BY <1>1, <1>4, <1>5, <1>7, <1>10
  <2>2. walk'.at # None => walk'.row \in Subtree[walk'.at]
    BY <1>5, <1>8, <1>10
  <2>3. walk'.row \in throughout' => walk'.at # None
    BY <1>1, <1>5, <1>7, <1>9, <1>10, <1>11 DEF original
  <2> QED
    BY <2>1, <2>2, <2>3, <1>5, <1>12, <1>13, <1>14 DEF WalkInv
<1>16. walk' \in WalkType
  <2>1. walk'.fetched \in 0..MaxDepth + 1
    BY <1>6, <1>12, DepthIs
  <2>2. next \in {Budget, None} \cup Row
    BY <1>7, <1>10
  <2> QED
    BY <1>1, <1>2, <1>5, <2>1, <2>2 DEF WalkType
<1> QED
  BY <1>1, <1>15, <1>16, WalkingKeeps

(* The budget can only be missing if it was deleted. *)
LEMMA ClimbFailsKeeps ==
  ASSUME Inv, ClimbFails
  PROVE  Inv'
<1>1. Fail /\ Budget \notin objects
  BY DEF ClimbFails
<1>2. Budget \notin throughout
  BY <1>1, ThroughoutIs DEF Inv, Object
<1>3. ~Calm
  BY <1>2 DEF Inv, OriginalInv
<1> QED
  BY <1>1, <1>3, FailKeeps

LEMMA LevelIs ==
  ASSUME Inv
  PROVE  DOMAIN level \subseteq found /\ \A s \in DOMAIN level : level[s] \in -1..MaxDepth
<1>1. PICK d \in SUBSET found : level \in [d -> -1..MaxDepth]
  BY DEF Inv, TypeOK
<1> QED
  BY <1>1

LEMMA EndWalkFails ==
  ASSUME Inv, walk # NoWalk, pc = "measure", Gone({walk.row}) \/ walk.row \notin objects
  PROVE  ~Calm
<1>1. walk.row \in found /\ walk.row \in SubAccount
  BY DEF Inv, CopyInv, WalkInv, TypeOK
<1>2. Calm => walk.row \in objects
  BY <1>1, ThroughoutIs DEF Inv, CopyInv, FoundInv, Row
<1> QED
  BY <1>2, GoneOvertaken

LEMMA EndWalkKeeps ==
  ASSUME Inv, EndWalk
  PROVE  Inv'
<1>0. CASE (Gone({walk.row}) \/ walk.row \notin objects) /\ Fail
  BY <1>0, EndWalkFails, FailKeeps DEF EndWalk
<1>1. CASE ~Gone({walk.row}) /\ Measured /\ walk' = NoWalk
  <2> DEFINE row == walk.row
  <2>1. /\ pc = "measure" /\ pc' = "measure" /\ UNCHANGED original
        /\ UNCHANGED <<objects, contacts, refs, throughout, ever, disturbed>>
        /\ UNCHANGED <<search, left, found, copied, under>>
        /\ walk # NoWalk /\ walk.at \notin Row /\ walk' = NoWalk
        /\ level' = [s \in DOMAIN level \cup {row} |->
                       IF s = row THEN walk.fetched - 2 ELSE level[s]]
        /\ held' = {p \in held : p[1] # row}
        /\ links' = links \cup Carried({row})
    BY <1>1 DEF EndWalk, Measured, Goto, original
  <2>2. /\ row \in found /\ walk.at \in {Budget, None}
        /\ row \in SubAccount /\ row \in Row
    BY <2>1 DEF Inv, CopyInv, WalkInv, TypeOK, Row
  <2>3. Depth[row] \in 0..MaxDepth
    BY <2>2, DepthIs
  <2>4. walk.fetched - 2 \in -1..Depth[row] - 1
    <3>1. walk.fetched \in 1..Depth[row] + 1
      BY <2>1, <2>2, <2>3 DEF Inv, CopyInv, WalkInv
    <3> QED
      BY <3>1, <2>3
  <2>5. row \in throughout => walk.fetched - 2 = Depth[row] - 1
    <3>1. HAVE row \in throughout
    <3>2. walk.fetched = Depth[row] + 1
      BY <3>1, <2>1, <2>2 DEF Inv, CopyInv, WalkInv
    <3> QED
      BY <3>2, <2>3
  <2>6. DOMAIN level \subseteq found /\ \A s \in DOMAIN level : level[s] \in -1..MaxDepth
    BY LevelIs
  <2>7. LevelInv'
    <3>1. \A s \in DOMAIN level' : s = row \/ s \in DOMAIN level
      BY <2>1
    <3>2. level'[row] = walk.fetched - 2
      BY <2>1
    <3>3. \A s \in DOMAIN level : s # row => level'[s] = level[s]
      BY <2>1
    <3> QED
      BY <3>1, <3>2, <3>3, <2>1, <2>4, <2>5 DEF Inv, CopyInv, LevelInv
  <2>8. /\ Carried({row}) \subseteq held
        /\ \A p \in Carried({row}) : p[1] = row /\ p[2] \in Mine
        /\ held \subseteq CanRefer /\ held \subseteq ever
    BY DEF Carried, Inv, TypeOK, CopyInv, HeldInv
  <2>9. OriginalInv' /\ (Calm' <=> Calm)
    BY <2>1, GotoKeepsOriginal DEF Inv
  <2>10. TypeOK'
    <3>1. walk.fetched - 2 \in -1..MaxDepth
      BY <2>3, <2>4, DepthIs
    <3>2. level' \in [DOMAIN level \cup {row} -> -1..MaxDepth]
      BY <2>1, <2>6, <3>1
    <3>3. DOMAIN level \cup {row} \in SUBSET found
      BY <2>2, <2>6
    <3>4. level' \in UNION {[s -> -1..MaxDepth] : s \in SUBSET found}
      BY <3>2, <3>3
    <3>5. walk' \in WalkType
      BY <2>1, DepthIs DEF NoWalk, WalkType
    <3>6. held' \subseteq CanRefer /\ links' \subseteq CanRefer
      BY <2>1, <2>8 DEF Inv, TypeOK
    <3> QED
      BY <2>1, <3>4, <3>5, <3>6 DEF Inv, TypeOK, WalkType
  <2>11. WalkInv' /\ FailedInv' /\ DoneInv' /\ LeftInv' /\ SearchInv'
    BY <2>1 DEF WalkInv, FailedInv, DoneInv, Inv, CopyInv, LeftInv, SearchInv
  <2>12. FoundInv'
    BY <2>1, <2>9 DEF Inv, CopyInv, FoundInv, Unstarted
  <2>13. HeldInv'
    <3>1. held' \subseteq held
      BY <2>1
    <3>2. Calm' => \A p \in links' : p[2] \in Contact => p[2] \in contacts
      <4>1. \A p \in Carried({row}) : p \in held /\ p[2] \in Contact
        BY <2>8, DuplicationAssumption
      <4>2. objects \cap Contact = {}
        BY ObjectsApart DEF Inv, TypeOK
      <4> QED
        BY <2>1, <2>9, <4>1, <4>2 DEF Inv, CopyInv, HeldInv
    <3>3. \A p \in throughout \cap CanRefer :
            p[1] \in found \ DOMAIN level' /\ p[2] \in Contact => p \in held'
      BY <2>1 DEF Inv, CopyInv, HeldInv
    <3> QED
      BY <2>1, <2>9, <3>1, <3>2, <3>3 DEF Inv, CopyInv, HeldInv
  <2>14. Copying' = Copying
    BY <2>1 DEF Copying
  <2>15. CopiedInv'
    BY <2>1, <2>9, <2>14 DEF Inv, CopyInv, CopiedInv, Unstarted
  <2>16. PlacedInv'
    BY <2>1 DEF Inv, CopyInv, PlacedInv, Misplaced
  <2>17. LinkedInv'
    <3>1. ASSUME NEW p \in throughout \cap Linking' PROVE p \in links'
      <4>1. p \in CanRefer /\ p[2] \in Contact /\ p[2] \in Mine /\ p[1] \in DOMAIN level'
        <5>1. /\ p \in CanRefer /\ p[2] \notin Group /\ p[2] \notin Fringe /\ p[2] \notin Markup
              /\ p[1] \notin Actual
          BY <2>1, <3>1 DEF Linking, WithActuals
        <5>2. p[2] \in Contact
          BY <5>1, CanReferIs
        <5> QED
          BY <2>1, <3>1, <5>1, <5>2 DEF Linking
      <4>2. CASE p[1] = row /\ row \notin DOMAIN level
        <5>1. p \in held
          BY <2>1, <2>2, <3>1, <4>1, <4>2 DEF Inv, CopyInv, HeldInv
        <5> QED
          BY <2>1, <4>1, <4>2, <5>1 DEF Carried
      <4>3. CASE p[1] \in DOMAIN level
        <5>1. p \in Linking
          BY <2>1, <3>1, <4>1, <4>3 DEF Linking
        <5> QED
          BY <2>1, <3>1, <5>1 DEF Inv, CopyInv, LinkedInv
      <4> QED
        BY <2>1, <4>1, <4>2, <4>3
    <3>2. \A p \in Carried({row}) : p[1] \in found /\ p[2] \in Mine /\ p \in ever
      BY <2>2, <2>8
    <3> QED
      BY <2>1, <3>1, <3>2 DEF Inv, CopyInv, LinkedInv
  <2> QED
    BY <2>7, <2>9, <2>10, <2>11, <2>12, <2>13, <2>15, <2>16, <2>17 DEF Inv, CopyInv
<1> QED
  BY <1>0, <1>1 DEF EndWalk

(* Depths that are consecutive. *)
LEMMA InitialSegment ==
  ASSUME NEW D \in SUBSET Nat, NEW n \in Nat, \A d \in D : d <= n,
         \A d \in D : d = 0 \/ d - 1 \in D
  PROVE  D = 0..(Cardinality(D) - 1)
<1>1. ASSUME NEW d \in D, NEW i \in 0..d, i \notin D
      PROVE  FALSE
  <2> DEFINE T == {j \in Nat : j <= d /\ d - j \notin D}
             R == OpToRel(<, Nat)
  <2>1. T \subseteq Nat /\ d - i \in T
    BY <1>1
  <2>2. T # {}
    BY <2>1
  <2>3. PICK j \in T : \A k \in T : ~(<<k, j>> \in R)
    <3> HIDE DEF T
    <3> QED
      BY <2>1, <2>2, NatLessThanWellFounded, WFMin
  <2>4. j \in Nat /\ j <= d /\ d - j \notin D /\ d \in Nat
    BY <1>1, <2>3
  <2>5. j # 0
    BY <1>1, <2>4
  <2>6. j - 1 \in Nat /\ j - 1 < j /\ j - 1 <= d
    BY <2>4, <2>5
  <2>7. <<j - 1, j>> \in R
    BY <2>4, <2>6 DEF OpToRel
  <2>8. d - (j - 1) \in D
    BY <2>3, <2>4, <2>6, <2>7
  <2>9. d - (j - 1) # 0 /\ d - (j - 1) - 1 = d - j
    BY <2>4
  <2> QED
    BY <2>4, <2>8, <2>9
<1>2. IsFiniteSet(D) /\ Cardinality(D) \in Nat
  BY FS_BoundedSetOfNaturals, FS_CardinalityType
<1>3. \A d \in D : d <= Cardinality(D) - 1
  <2> TAKE d \in D
  <2>1. 0..d \in SUBSET D /\ d \in Nat
    BY <1>1
  <2>2. Cardinality(0..d) = d + 1 /\ Cardinality(0..d) <= Cardinality(D)
    BY <1>2, <2>1, FS_Subset, FS_Interval
  <2> QED
    BY <1>2, <2>1, <2>2
<1> DEFINE I == 0..(Cardinality(D) - 1)
<1>4. D \in SUBSET I
  BY <1>2, <1>3
<1>5. IsFiniteSet(I) /\ Cardinality(I) = Cardinality(D)
  <2>1. 0 \in Int /\ Cardinality(D) - 1 \in Int
    BY <1>2
  <2>2. IsFiniteSet(I) /\ Cardinality(I) = IF 0 > Cardinality(D) - 1 THEN 0 ELSE Cardinality(D) - 1 - 0 + 1
    BY <2>1, FS_Interval
  <2> QED
    BY <1>2, <2>2
<1> HIDE DEF I
<1>6. I = D
  BY <1>4, <1>5, FS_Subset
<1> QED
  BY <1>6 DEF I

(* Where the copy of a sub-account goes. *)
LEMMA ParentsAre ==
  ASSUME Inv, pc = "measure", DOMAIN level = found, NEW s \in found
  PROVE  /\ Parents(s) \subseteq (copied \cup found) \cap Row
         /\ \A y, z \in Parents(s) : y = z
         /\ \A y \in Parents(s) : y = ParentOf[s] \/ Misplaced(<<s, y>>)
         /\ s \in throughout =>
              /\ ParentOf[s] \in Parents(s) /\ level[s] \in Nat
              /\ level[s] # 0 => ParentOf[s] \in found /\ level[ParentOf[s]] = level[s] - 1
<1>1. /\ s \in SubAccount /\ s \in Row /\ s \in Object /\ s \in Placed
      /\ found \subseteq SubAccount
  BY DEF Inv, TypeOK, Row, Placed, Object
<1>2. /\ level[s] \in -1..Depth[s] - 1 /\ (s \in throughout => level[s] = Depth[s] - 1)
      /\ Depth[s] \in Nat
  BY <1>1, DepthIs DEF Inv, CopyInv, LevelInv
<1>3. /\ ParentOf[s] \in Row /\ Depth[s] = Depth[ParentOf[s]] + 1
      /\ Depth[ParentOf[s]] \in Nat
      /\ ParentOf[s] \in Account <=> Depth[s] = 1
  BY <1>1, DepthIs DEF Row
<1>4. /\ \A y, z \in Account : KeyOf[y] = KeyOf[z] => y = z
      /\ \A y, z \in SubAccount : KeyOf[y] = KeyOf[z] => y = z
  BY DuplicationAssumption
<1>5. CASE level[s] = 0
  <2>1. Parents(s) = {y \in copied \cap Account : KeyOf[y] = KeyOf[ParentOf[s]]}
    BY <1>5 DEF Parents, Copies
  <2>2. \A y \in Parents(s) : y = ParentOf[s] \/ Misplaced(<<s, y>>)
    <3> TAKE y \in Parents(s)
    <3>1. y \in Account /\ KeyOf[y] = KeyOf[ParentOf[s]]
      BY <2>1
    <3>2. CASE ParentOf[s] \in Account
      BY <3>1, <3>2, <1>4
    <3>3. CASE ParentOf[s] \in SubAccount
      <4>1. s \notin throughout
        BY <3>3, <1>2, <1>3, <1>5, Apart
      <4> QED
        BY <4>1, <3>1, <3>3, <1>1 DEF Misplaced
    <3> QED
      BY <3>2, <3>3, <1>3 DEF Row
  <2>3. s \in throughout => ParentOf[s] \in Parents(s)
    <3>1. HAVE s \in throughout
    <3>2. ParentOf[s] \in Account
      BY <3>1, <1>2, <1>3, <1>5
    <3>3. ParentOf[s] \in throughout \cap Object
      BY <3>1, <3>2, <1>1, ThroughoutIs DEF Inv, Object, Placed, Row
    <3>4. ParentOf[s] \in Copying
      BY <3>2, <3>3, Apart DEF Copying
    <3>5. ParentOf[s] \in copied
      BY <3>3, <3>4 DEF Inv, CopyInv, CopiedInv
    <3> QED
      BY <2>1, <3>2, <3>5
  <2> QED
    BY <2>1, <2>2, <2>3, <1>4, <1>5 DEF Row
<1>6. CASE level[s] # 0
  <2>1. Parents(s) = {y \in found : level[y] = level[s] - 1 /\ KeyOf[y] = KeyOf[ParentOf[s]]}
    BY <1>6 DEF Parents, Copies
  <2>2. \A y \in Parents(s) : y = ParentOf[s]
    <3> TAKE y \in Parents(s)
    <3>1. y \in SubAccount /\ KeyOf[y] = KeyOf[ParentOf[s]] /\ level[y] = level[s] - 1
      BY <2>1, <1>1
    <3>2. level[y] >= -1 /\ level[y] \in Int
      <4>1. y \in DOMAIN level /\ y \in Row
        BY <2>1, <3>1 DEF Row
      <4>2. level[y] \in -1..Depth[y] - 1
        BY <4>1 DEF Inv, CopyInv, LevelInv
      <4>3. Depth[y] \in Nat
        BY <4>1, DepthIs
      <4> QED
        BY <4>2, <4>3
    <3>3. Depth[s] > 1
      BY <3>1, <3>2, <1>2, <1>6
    <3>4. ParentOf[s] \in SubAccount
      BY <3>3, <1>3 DEF Row
    <3> QED
      BY <3>1, <3>4, <1>4
  <2>3. s \in throughout => /\ ParentOf[s] \in found /\ level[ParentOf[s]] = level[s] - 1
                            /\ level[s] \in Nat
    <3>1. HAVE s \in throughout
    <3>2. level[s] \in Nat
      BY <3>1, <1>2, <1>3
    <3>3. ParentOf[s] \in SubAccount
      BY <3>1, <1>2, <1>3, <1>6 DEF Row
    <3>4. ParentOf[s] \in throughout
      BY <3>1, <1>1, ThroughoutIs DEF Inv
    <3>5. ParentOf[s] \in found
      BY <3>3, <3>4 DEF Inv, CopyInv, FoundInv, Unstarted
    <3>6. level[ParentOf[s]] = Depth[ParentOf[s]] - 1
      BY <3>4, <3>5 DEF Inv, CopyInv, LevelInv
    <3> QED
      BY <3>1, <3>2, <3>5, <3>6, <1>2, <1>3
  <2> QED
    BY <2>1, <2>2, <2>3, <1>1, <1>6 DEF Row
<1> QED
  BY <1>5, <1>6


(* All of them can be placed if no row was deleted meanwhile. *)
LEMMA CalmCreatable ==
  ASSUME Inv, Calm, pc = "measure", DOMAIN level = found
  PROVE  Creatable
<1> DEFINE D == {level[s] : s \in found}
<1>1. found \subseteq throughout
  BY DEF Inv, CopyInv, FoundInv
<1>2. \A s \in found : /\ ParentOf[s] \in Parents(s) /\ level[s] \in Nat
                       /\ level[s] # 0 => ParentOf[s] \in found /\ level[ParentOf[s]] = level[s] - 1
  BY <1>1, ParentsAre
<1>3. \A s \in found : level[s] <= MaxDepth
  BY LevelIs, DepthIs
<1>4. D \in SUBSET Nat /\ \A d \in D : d <= MaxDepth
  BY <1>2, <1>3
<1>5. \A d \in D : d = 0 \/ d - 1 \in D
  BY <1>2
<1> HIDE DEF D
<1>6. D = 0..(Cardinality(D) - 1)
  BY <1>4, <1>5, DepthIs, InitialSegment
<1> QED
  BY <1>2, <1>6 DEF Creatable, D

LEMMA CopySubAccountsKeeps ==
  ASSUME Inv, CopySubAccounts
  PROVE  Inv'
<1>1. pc = "measure" /\ DOMAIN level = found /\ walk = NoWalk
  BY DEF CopySubAccounts
<1>2. CASE ~Creatable
  BY <1>1, <1>2, CalmCreatable, FailKeeps DEF CopySubAccounts
<1>3. CASE Creatable
  <2>1. /\ pc' = "groups" /\ UNCHANGED original
        /\ UNCHANGED <<objects, contacts, refs, throughout, ever, disturbed>>
        /\ UNCHANGED <<search, left, held, found, walk, level, links>>
        /\ copied' = copied \cup found
        /\ under' = under \cup {p \in found \X Row : p[2] \in Parents(p[1])}
    BY <1>3 DEF CopySubAccounts, Goto, KeepRows, original
  <2>2. OriginalInv' /\ (Calm' <=> Calm)
    BY <2>1, GotoKeepsOriginal DEF Inv
  <2>3. /\ found \subseteq SubAccount /\ found \subseteq Placed /\ found \subseteq Object
        /\ copied \subseteq {Budget} \cup Account
    BY <1>1 DEF Inv, TypeOK, Row, Placed, Object, CopyInv, CopiedInv, Copying, BeforeGroups
  <2>4. TypeOK'
    BY <2>1, <2>3 DEF Inv, TypeOK, Steps
  <2>5. WalkInv' /\ LevelInv' /\ LeftInv' /\ DoneInv' /\ FailedInv'
    BY <2>1 DEF Inv, CopyInv, WalkInv, LevelInv, LeftInv, DoneInv, FailedInv
  <2>6. FoundInv' /\ HeldInv'
    BY <1>1, <2>1, <2>2 DEF Inv, CopyInv, FoundInv, HeldInv, Unstarted
  <2>12. SearchInv'
    BY <1>1, <2>1 DEF Inv, CopyInv, SearchInv, Unstarted
  <2>7. Copying' = {Budget} \cup Row
    BY <2>1, Apart, ApartFromBudget DEF Copying, BeforeGroups, BeforeFringes, WithActuals, Object, Placed, Row
  <2>8. Copying = {Budget} \cup Account
    BY <1>1, Apart, ApartFromBudget DEF Copying, BeforeGroups, BeforeFringes, WithActuals, Object, Placed, Row
  <2>9. CopiedInv'
    <3>1. throughout \cap SubAccount \subseteq found
      BY <1>1 DEF Inv, CopyInv, FoundInv, Unstarted
    <3>2. throughout \cap Copying \subseteq copied /\ Budget \in copied
      BY <1>1 DEF Inv, CopyInv, CopiedInv
    <3>3. throughout' \cap Copying' \subseteq copied'
      BY <2>1, <2>7, <2>8, <3>1, <3>2 DEF Row
    <3>4. copied' \subseteq ever'
      BY <2>1 DEF Inv, CopyInv, CopiedInv, FoundInv
    <3>5. Calm' => copied' \cap Account \subseteq throughout'
      BY <2>1, <2>2, <2>3, Apart DEF Inv, CopyInv, CopiedInv
    <3> QED
      BY <2>1, <2>3, <2>7, <3>2, <3>3, <3>4, <3>5 DEF CopiedInv, Row
  <2>10. PlacedInv'
    <3> DEFINE new == {p \in found \X Row : p[2] \in Parents(p[1])}
    <3>1. \A s \in found : copied \cap {s} = {}
      BY <2>3, Apart, ApartFromBudget
    <3>2. \A p \in under : p[1] \in copied /\ p[1] \notin found
      BY <3>1 DEF Inv, CopyInv, PlacedInv
    <3>3. \A p \in new : p[1] \in found /\ p[2] \in Parents(p[1]) /\ p = <<p[1], p[2]>>
      OBVIOUS
    <3>4. \A p \in under' :
            /\ p[1] \in copied' /\ p[2] \in copied'
            /\ p[2] = ParentOf[p[1]] \/ Misplaced(p)
      <4>1. \A p \in under : /\ p[1] \in copied' /\ p[2] \in copied'
                             /\ p[2] = ParentOf[p[1]] \/ Misplaced(p)
        BY <2>1 DEF Inv, CopyInv, PlacedInv
      <4>2. \A p \in new : /\ p[1] \in copied' /\ p[2] \in copied'
                           /\ p[2] = ParentOf[p[1]] \/ Misplaced(p)
        BY <1>1, <2>1, <3>3, ParentsAre
      <4> QED
        BY <2>1, <4>1, <4>2
    <3>5. \A p \in under' : Misplaced(p) => Misplaced(p)'
      BY <2>1 DEF Misplaced
    <3>6. ASSUME NEW x \in copied' \cap Placed
          PROVE  /\ \E y : {p \in under' : p[1] = x} = {<<x, y>>}
                 /\ x \in throughout => <<x, ParentOf[x]>> \in under'
      <4>1. CASE x \in found
        <5>1. PICK y : y \in Parents(x)
          BY <1>3, <4>1 DEF Creatable
        <5>2. y \in Row /\ \A z \in Parents(x) : z = y
          BY <1>1, <4>1, <5>1, ParentsAre
        <5>3. <<x, y>> \in new
          BY <4>1, <5>1, <5>2
        <5>4. \A p \in under' : p[1] = x => p = <<x, y>>
          BY <2>1, <3>2, <3>3, <4>1, <5>2
        <5>5. {p \in under' : p[1] = x} = {<<x, y>>}
          BY <2>1, <5>3, <5>4
        <5>6. x \in throughout => ParentOf[x] = y
          BY <1>1, <4>1, <5>2, ParentsAre
        <5> QED
          BY <2>1, <5>3, <5>5, <5>6
      <4>2. CASE x \notin found
        <5>1. x \in copied \cap Placed
          BY <2>1, <4>2
        <5>2. {p \in under' : p[1] = x} = {p \in under : p[1] = x}
          BY <2>1, <3>3, <4>2
        <5> QED
          BY <2>1, <5>1, <5>2 DEF Inv, CopyInv, PlacedInv
      <4> QED
        BY <4>1, <4>2
    <3>7. throughout' = throughout
      BY <2>1
    <3> QED
      BY <3>4, <3>5, <3>6, <3>7 DEF PlacedInv
  <2>11. LinkedInv'
    <3>1. ASSUME NEW p \in throughout' \cap Linking' PROVE p \in links'
      <4>1. p \in CanRefer /\ p[2] \in Contact /\ p[1] \in SubAccount /\ p[2] \in Mine
        <5>1. /\ p \in CanRefer /\ p[2] \notin Group /\ p[2] \notin Fringe /\ p[2] \notin Markup
              /\ p[1] \notin Actual
          BY <2>1, <3>1 DEF Linking, WithActuals, BeforeFringes
        <5>2. p[2] \in Contact /\ p[1] \in SubAccount
          BY <5>1, CanReferIs
        <5> QED
          BY <3>1, <5>1, <5>2 DEF Linking
      <4>2. p[1] \in DOMAIN level
        BY <1>1, <2>1, <3>1, <4>1, ThroughoutIs DEF Inv, CopyInv, FoundInv, Unstarted
      <4>3. p[2] \notin Group /\ p[2] \notin Fringe /\ p[2] \notin Markup /\ p[1] \notin Actual
        BY <4>1, Apart
      <4>4. p \in Linking
        BY <1>1, <4>1, <4>2, <4>3 DEF Linking, Unstarted
      <4> QED
        BY <2>1, <3>1, <4>4 DEF Inv, CopyInv, LinkedInv
    <3> QED
      BY <2>1, <3>1 DEF Inv, CopyInv, LinkedInv
  <2> QED
    BY <2>2, <2>4, <2>5, <2>6, <2>12, <2>9, <2>10, <2>11 DEF Inv, CopyInv
<1> QED
  BY <1>2, <1>3


-------------------------------------------------------------------------------
(* What is copied after the rows. *)
Later ==
  {"groups", "account members", "subaccount members", "fringes", "link fringes",
   "markups", "link markups", "actuals", "look up actuals", "commit"}

LEMMA LaterKeeps ==
  ASSUME Inv, pc \in Later, pc' \in Later \cup {"done"}, UNCHANGED original, KeepRows
  PROVE  /\ OriginalInv' /\ WalkInv' /\ LevelInv' /\ FoundInv' /\ FailedInv'
         /\ (Calm' <=> Calm)
         /\ UNCHANGED <<objects, contacts, refs, throughout, ever, disturbed>>
         /\ UNCHANGED <<found, walk, level>>
<1>1. OriginalInv' /\ (Calm' <=> Calm)
  BY GotoKeepsOriginal DEF Inv
<1>2. /\ UNCHANGED <<objects, contacts, refs, throughout, ever, disturbed>>
      /\ UNCHANGED <<found, walk, level>>
  BY DEF KeepRows, original
<1>3. WalkInv' /\ LevelInv'
  BY <1>2 DEF Inv, CopyInv, WalkInv, LevelInv
<1>4. FoundInv' /\ FailedInv'
  BY <1>1, <1>2 DEF Inv, CopyInv, FoundInv, FailedInv, Unstarted, Later
<1> QED
  BY <1>1, <1>2, <1>3, <1>4

LEMMA LaterTypes ==
  ASSUME Inv, pc' \in Later \cup {"done"}, UNCHANGED original, KeepRows,
         search' \in SearchType, left' \subseteq LeftType, held' \subseteq CanRefer,
         copied' \subseteq Object, under' \subseteq Placed \X ({Budget} \cup Row),
         links' \subseteq CanRefer
  PROVE  TypeOK'
<1>1. pc' \in Steps
  BY DEF Later, Steps
<1>2. /\ UNCHANGED <<objects, contacts, refs, throughout, ever, disturbed>>
      /\ UNCHANGED <<found, walk, level>>
  BY DEF KeepRows, original
<1> QED
  BY <1>1, <1>2 DEF Inv, TypeOK, SearchType, LeftType

LEMMA TypesAre ==
  ASSUME Inv
  PROVE  /\ search \in SearchType /\ left \subseteq LeftType /\ held \subseteq CanRefer
         /\ copied \subseteq Object /\ under \subseteq Placed \X ({Budget} \cup Row)
         /\ links \subseteq CanRefer /\ refs \subseteq CanRefer /\ found \subseteq SubAccount
         /\ NewSearch("list") \in SearchType
BY DEF Inv, TypeOK, SearchType, LeftType, NewSearch

LEMMA SearchKeeps ==
  ASSUME Inv, pc \in Later, pc' \in Later \cup {"done"}, throughout' = throughout,
         \/ search' = NewSearch("list")
         \/ search' = search /\ pc \notin {"groups", "markups"}
  PROVE  SearchInv'
<1>1. CASE search' = NewSearch("list")
  BY <1>1 DEF SearchInv, NewSearch
<1>2. CASE search' = search /\ pc \notin {"groups", "markups"}
  <2>1. /\ search.step \in {"list", "tops"} /\ search.seen = {}
        /\ search.step = "tops" => throughout \cap Account \subseteq search.listed
    BY <1>2 DEF Inv, CopyInv, SearchInv, Later, Unstarted
  <2> QED
    BY <1>2, <2>1 DEF SearchInv
<1> QED
  BY <1>1, <1>2

LEMMA HeldKeeps ==
  ASSUME Inv, pc \in Later, pc' \in Later \cup {"done"}, pc' # "look up actuals",
         UNCHANGED original, KeepRows, held' = held, copied \subseteq copied',
         \A p \in links' : p \in links \/ p[2] \notin Contact
  PROVE  HeldInv'
<1>1. pc' # "measure" /\ (Calm' <=> Calm)
  BY LaterKeeps DEF Later
<1>2. UNCHANGED <<objects, contacts, ever, found>>
  BY LaterKeeps
<1> QED
  BY <1>1, <1>2 DEF Inv, CopyInv, HeldInv

LEMMA CopiedIs ==
  ASSUME Inv, pc \in Later
  PROVE  /\ {Budget} \cup Row \subseteq Copying
         /\ found \subseteq copied /\ Budget \in copied
         /\ throughout \cap Row \subseteq copied
         /\ throughout \cap SubAccount \subseteq found
         /\ copied \subseteq Copying /\ copied \subseteq Object
         /\ copied \subseteq ever /\ throughout \cap Copying \subseteq copied
         /\ Calm => copied \cap Account \subseteq throughout
<1>1. {Budget} \cup Row \subseteq Copying
  BY Apart, ApartFromBudget DEF Later, Copying, BeforeGroups, BeforeFringes, WithActuals, Object, Placed, Row
<1> QED
  BY <1>1 DEF Inv, CopyInv, CopiedInv, FoundInv, TypeOK, Later, Unstarted

(* What is copied next to what has been. *)
LEMMA CopyingKeeps ==
  ASSUME Inv, pc \in Later, pc' \in Later \cup {"done"}, UNCHANGED original, KeepRows,
         NEW new, new \subseteq objects, new \cap Row = {}, copied' = copied \cup new,
         throughout \cap Copying' \subseteq copied \cup new,
         Copying \cup new \subseteq Copying'
  PROVE  CopiedInv'
<1>1. UNCHANGED <<throughout, ever, found>> /\ (Calm' <=> Calm)
  BY LaterKeeps
<1>2. new \subseteq ever
  BY DEF Inv, OriginalInv
<1>3. copied' \cap Account = copied \cap Account
  BY DEF Row
<1>4. pc' # "accounts"
  BY DEF Later
<1> QED
  BY <1>1, <1>2, <1>3, <1>4, CopiedIs DEF CopiedInv

(* As long as nothing overtakes the copying, all there is was there          *)
(* throughout.                                                               *)
LEMMA CalmIs ==
  ASSUME Inv, Calm
  PROVE  /\ objects \subseteq throughout /\ refs \subseteq throughout
         /\ pc \in Later => \A y \in objects : y \in Row \cup {Budget} => y \in copied
         /\ \A y \in objects : y \in Copying => y \in copied
         /\ \A y \in objects \cap Placed : ParentOf[y] \in objects \cap (Row \cup {Budget})
<1>1. objects \subseteq throughout /\ refs \subseteq throughout
  BY DEF Inv, OriginalInv
<1>2. \A y \in objects \cap Placed : ParentOf[y] \in objects \cap (Row \cup {Budget})
  BY DuplicationAssumption DEF Inv, OriginalInv, Whole
<1> QED
  BY <1>1, <1>2, CopiedIs DEF Inv, CopyInv, CopiedInv

LEMMA CalmHavePlaces ==
  ASSUME Inv, Calm, pc \in Later, NEW s, s \subseteq objects \cap Placed
  PROVE  HavePlaces(s)
BY CalmIs DEF HavePlaces

LEMMA PlacesKeep ==
  ASSUME Inv, NEW s, s \subseteq Placed, s \cap copied = {}, HavePlaces(s),
         copied' = copied \cup s, under' = under \cup Places(s), throughout' = throughout
  PROVE  PlacedInv' /\ under' \subseteq Placed \X ({Budget} \cup Row)
<1>0. PlacedInv /\ under \subseteq Placed \X ({Budget} \cup Row)
  BY DEF Inv, CopyInv, TypeOK
<1>1. \A x \in Placed : ParentOf[x] \in {Budget} \cup Row
  BY DuplicationAssumption
<1>2. \A p \in Places(s) : p[1] \in s /\ p[2] = ParentOf[p[1]] /\ p = <<p[1], p[2]>>
  BY DEF Places
<1>3. \A p \in under : p[1] \notin s
  BY <1>0 DEF PlacedInv
<1>4. Places(s) \subseteq Placed \X ({Budget} \cup Row)
  BY DEF Places
<1>5. \A p \in under' : /\ p[1] \in copied' /\ p[2] \in copied'
                        /\ p[2] = ParentOf[p[1]] \/ Misplaced(p)
  BY <1>0, <1>2 DEF PlacedInv, HavePlaces
<1>6. \A p \in under' : Misplaced(p) => Misplaced(p)'
  BY DEF Misplaced
<1>7. ASSUME NEW x \in copied' \cap Placed
      PROVE  /\ \E y : {p \in under' : p[1] = x} = {<<x, y>>}
             /\ x \in throughout => <<x, ParentOf[x]>> \in under'
  <2>1. CASE x \in s
    <3>1. <<x, ParentOf[x]>> \in Places(s)
      BY <1>1, <2>1 DEF Places
    <3>2. {p \in under' : p[1] = x} = {<<x, ParentOf[x]>>}
      BY <3>1, <1>2, <1>3, <2>1
    <3> QED
      BY <3>1, <3>2
  <2>2. CASE x \notin s
    <3>1. {p \in under' : p[1] = x} = {p \in under : p[1] = x}
      BY <1>2, <2>2
    <3> QED
      BY <3>1, <2>2, <1>0 DEF PlacedInv
  <2> QED
    BY <2>1, <2>2
<1> QED
  BY <1>0, <1>4, <1>5, <1>6, <1>7 DEF PlacedInv

LEMMA ListedIs ==
  ASSUME Inv, search.step = "select", NEW s, s \subseteq Placed
  PROVE  /\ Listed(s) \subseteq objects \cap Placed /\ Listed(s) \subseteq s
         /\ throughout \cap s \subseteq Listed(s)
<1>1. throughout \cap Row \subseteq search.listed
  BY DEF Inv, CopyInv, SearchInv
<1>2. ASSUME NEW x \in throughout \cap s
      PROVE  x \in objects /\ ParentOf[x] \in {Budget} \cup search.listed
  <2>1. x \in Placed /\ x \in Object
    BY DEF Object
  <2>2. x \in objects /\ ParentOf[x] \in throughout
    BY <2>1, ThroughoutIs DEF Inv
  <2>3. ParentOf[x] \in {Budget} \cup Row
    BY <2>1, DuplicationAssumption
  <2> QED
    BY <1>1, <2>2, <2>3
<1> QED
  BY <1>2 DEF Listed

LEMMA CopyGroupsKeeps ==
  ASSUME Inv, CopyGroups
  PROVE  Inv'
<1> DEFINE gs == Listed(Group)
<1>1. pc = "groups" /\ pc \in Later /\ search.step = "select"
  BY DEF CopyGroups, Later
<1>2. Group \subseteq Placed
  BY DEF Placed
<1>3. /\ gs \subseteq objects \cap Placed /\ gs \subseteq Group
      /\ throughout \cap Group \subseteq gs /\ gs \subseteq Object
  BY <1>1, <1>2, ListedIs DEF Object
<1> HIDE DEF gs
<1>4. CASE Fail /\ ~HavePlaces(gs)
  BY <1>1, <1>3, <1>4, CalmHavePlaces, FailKeeps
<1>5. CASE /\ HavePlaces(gs)
           /\ copied' = copied \cup gs /\ under' = under \cup Places(gs)
           /\ search' = NewSearch("list")
           /\ Goto("account members") /\ KeepRows /\ UNCHANGED <<left, held, links>>
  <2>1. /\ pc' = "account members" /\ UNCHANGED original /\ pc' \in Later
        /\ pc' # "look up actuals" /\ UNCHANGED <<left, held, links>>
    BY <1>5 DEF Goto, Later
  <2>2. UNCHANGED <<objects, refs, throughout, ever, found>>
    BY <1>1, <1>5, <2>1, LaterKeeps
  <2>3. gs \cap copied = {} /\ gs \cap Row = {}
    BY <1>1, <1>3, CopiedIs, Apart DEF Copying, Row
  <2>4. PlacedInv' /\ under' \subseteq Placed \X ({Budget} \cup Row)
    BY <1>3, <1>5, <2>2, <2>3, PlacesKeep
  <2>5. Copying' = Copying \cup Group
    BY <1>1, <2>1, Apart, ApartFromBudget
       DEF Copying, BeforeGroups, BeforeFringes, WithActuals, Object, Placed, Row
  <2>6. CopiedInv'
    <3>1. throughout \cap Copying' \subseteq copied \cup gs
      BY <1>1, <1>3, <2>5, CopiedIs
    <3> QED
      BY <1>1, <1>3, <1>5, <2>1, <2>3, <2>5, <3>1, CopyingKeeps
  <2>7. Linking' = Linking
    BY <1>1, <2>1 DEF Linking, Unstarted, BeforeFringes, WithActuals
  <2>8. LinkedInv'
    BY <1>5, <2>1, <2>2, <2>7 DEF Inv, CopyInv, LinkedInv
  <2>9. HeldInv' /\ SearchInv'
    BY <1>1, <1>5, <2>1, <2>2, HeldKeeps, SearchKeeps
  <2>10. LeftInv' /\ DoneInv'
    BY <2>1 DEF LeftInv, DoneInv
  <2>11. TypeOK'
    BY <1>3, <1>5, <2>1, <2>4, LaterTypes, TypesAre
  <2> QED
    BY <1>1, <1>5, <2>1, <2>4, <2>6, <2>8, <2>9, <2>10, <2>11, LaterKeeps DEF Inv, CopyInv
<1> QED
  BY <1>4, <1>5 DEF CopyGroups, gs

(* A step that only links. *)
LEMMA LinkingKeeps ==
  ASSUME Inv, pc \in Later \ {"groups", "markups"}, pc' \in Later \ {"look up actuals"},
         UNCHANGED original, KeepRows, UNCHANGED <<search, held, copied, under>>,
         Copying' = Copying, NEW new, links' = links \cup new,
         new \subseteq refs, \A p \in new : p[1] \in copied /\ p[2] \in copied,
         \A p \in throughout \cap Linking' : p \in Linking \/ p \in new,
         left' \subseteq left, LeftInv'
  PROVE  Inv'
<1>1. /\ UNCHANGED <<objects, refs, throughout, ever, found>>
      /\ pc \in Later /\ pc' \in Later \cup {"done"} /\ pc' # "look up actuals"
  BY LaterKeeps
<1>2. CopiedInv'
  <2>1. /\ {} \subseteq objects /\ {} \cap Row = {} /\ copied' = copied \cup {}
        /\ throughout \cap Copying' \subseteq copied \cup {}
        /\ Copying \cup {} \subseteq Copying'
    BY CopiedIs
  <2> QED
    BY <1>1, <2>1, CopyingKeeps
<1>3. PlacedInv'
  BY <1>1 DEF Inv, CopyInv, PlacedInv, Misplaced
<1>4. LinkedInv'
  BY <1>1 DEF Inv, CopyInv, LinkedInv, OriginalInv
<1>5. links' \subseteq CanRefer /\ left' \subseteq LeftType
  BY TypesAre
<1>6. TypeOK'
  BY <1>1, <1>5, LaterTypes, TypesAre
<1>7. \A p \in links' : p \in links \/ p[2] \notin Contact
  BY ObjectsApart, TypesAre
<1>8. HeldInv' /\ SearchInv'
  BY <1>1, <1>7, HeldKeeps, SearchKeeps
<1>9. DoneInv'
  BY DEF DoneInv, Later
<1> QED
  BY <1>1, <1>2, <1>3, <1>4, <1>6, <1>8, <1>9, LaterKeeps DEF Inv, CopyInv

LEMMA GroupsCopied ==
  ASSUME Inv, pc \in {"account members", "subaccount members"},
         NEW p \in throughout \cap CanRefer, p[2] \in Group
  PROVE  /\ p \in refs /\ p[2] \in Group \cap copied
         /\ p[1] \in Row \cap copied
<1>1. pc \in Later /\ p[2] \in Object
  BY DEF Later, Object, Placed
<1>2. p[2] \in Copying
  BY <1>1, Apart, ApartFromBudget DEF Copying, BeforeGroups, BeforeFringes, WithActuals
<1>3. p \in refs /\ p[1] \in throughout /\ p[2] \in throughout
  BY ThroughoutIs, Apart DEF Inv
<1>4. p[1] \in Row
  BY CanReferIs, Apart
<1> QED
  BY <1>1, <1>2, <1>3, <1>4, CopiedIs

LEMMA PrefetchAccountsKeeps ==
  ASSUME Inv, PrefetchAccounts
  PROVE  Inv'
<1> DEFINE new == {p \in refs : p[2] \in Group \cap copied /\ p[1] \in Account \cap copied}
<1>1. /\ pc = "account members" /\ pc' = "subaccount members" /\ UNCHANGED original /\ KeepRows
      /\ pc \in Later \ {"groups", "markups"} /\ pc' \in Later \ {"look up actuals"}
      /\ UNCHANGED <<search, left, held, copied, under>> /\ links' = links \cup new
  BY DEF PrefetchAccounts, Goto, Later
<1>2. Copying' = Copying
  BY <1>1 DEF Copying, BeforeGroups, BeforeFringes, WithActuals
<1>3. ASSUME NEW p \in throughout \cap Linking' PROVE p \in Linking \/ p \in new
  <2>1. p \in CanRefer /\ (p \in Linking \/ p[2] \in Group)
    BY <1>1, <1>3 DEF Linking, Unstarted, BeforeFringes, WithActuals
  <2>2. p[2] \in Group => p[1] \in Account
    BY <1>1, <1>3 DEF Linking
  <2> QED
    BY <1>1, <1>3, <2>1, <2>2, GroupsCopied
<1>4. new \subseteq refs /\ \A p \in new : p[1] \in copied /\ p[2] \in copied
  OBVIOUS
<1>5. LeftInv'
  BY <1>1 DEF LeftInv
<1> HIDE DEF new
<1> QED
  BY <1>1, <1>2, <1>3, <1>4, <1>5, LinkingKeeps

LEMMA PrefetchSubAccountsKeeps ==
  ASSUME Inv, PrefetchSubAccounts
  PROVE  Inv'
<1> DEFINE members == {p \in refs : p[2] \in Group \cap copied /\ p[1] \in SubAccount}
           new == {p \in members : p[1] \in copied}
<1>1. /\ pc = "subaccount members"
      /\ pc \in Later \ {"groups", "markups"} /\ pc \in Later
  BY DEF PrefetchSubAccounts, Later
<1>2. CASE Fail /\ \E p \in members : p[1] \notin copied
  <2>1. ASSUME Calm, NEW p \in members PROVE p[1] \in copied
    <3>1. p[1] \in objects /\ p[1] \in Row
      BY ThroughoutIs DEF Inv, Row
    <3> QED
      BY <1>1, <2>1, <3>1, CalmIs
  <2> QED
    BY <1>2, <2>1, FailKeeps
<1>3. CASE /\ links' = links \cup new
           /\ Goto("fringes") /\ KeepRows /\ UNCHANGED <<search, left, held, copied, under>>
  <2>1. /\ pc' = "fringes" /\ UNCHANGED original /\ pc' \in Later \ {"look up actuals"}
        /\ UNCHANGED <<search, left, held, copied, under>>
    BY <1>3 DEF Goto, Later
  <2>2. Copying' = Copying
    BY <1>1, <2>1 DEF Copying, BeforeGroups, BeforeFringes, WithActuals
  <2>3. ASSUME NEW p \in throughout \cap Linking' PROVE p \in Linking \/ p \in new
    <3>1. p \in CanRefer /\ (p \in Linking \/ (p[2] \in Group /\ p[1] \notin Account))
      BY <1>1, <2>1, <2>3 DEF Linking, Unstarted, BeforeFringes, WithActuals
    <3>2. p[2] \in Group => p \in refs /\ p[2] \in Group \cap copied /\ p[1] \in Row \cap copied
      BY <1>1, <2>3, <3>1, GroupsCopied
    <3> QED
      BY <3>1, <3>2 DEF Row
  <2>4. new \subseteq refs /\ \A p \in new : p[1] \in copied /\ p[2] \in copied
    OBVIOUS
  <2>5. LeftInv'
    BY <2>1 DEF LeftInv
  <2> HIDE DEF new
  <2> QED
    BY <1>1, <1>3, <2>1, <2>2, <2>3, <2>4, <2>5, LinkingKeeps
<1> QED
  BY <1>2, <1>3 DEF PrefetchSubAccounts

LEMMA CopyFringesKeeps ==
  ASSUME Inv, CopyFringes
  PROVE  Inv'
<1> DEFINE fs == Fringe \cap objects
<1>1. /\ pc = "fringes" /\ pc' = "link fringes" /\ UNCHANGED original /\ KeepRows
      /\ copied' = copied \cup fs /\ UNCHANGED <<search, held, under, links>> /\ left' = found
      /\ pc \in Later /\ pc' \in Later /\ pc' # "look up actuals"
  BY DEF CopyFringes, Goto, Later
<1>2. UNCHANGED <<objects, refs, throughout, ever, found>>
  BY <1>1, LaterKeeps
<1>3. Copying' = Copying \cup Fringe
  BY <1>1, Apart, ApartFromBudget
     DEF Copying, BeforeGroups, BeforeFringes, WithActuals, Object, Placed, Row
<1>4. throughout \cap Fringe \subseteq fs /\ fs \subseteq objects /\ fs \subseteq Object
      /\ fs \cap Placed = {} /\ fs \cap Row = {}
  BY ThroughoutIs, Apart DEF Inv, Object, Placed, Row
<1>5. CopiedInv'
  <2>1. throughout \cap Copying' \subseteq copied \cup fs
    BY <1>1, <1>3, <1>4, CopiedIs
  <2> QED
    BY <1>1, <1>3, <1>4, <2>1, CopyingKeeps
<1> HIDE DEF fs
<1>6. PlacedInv'
  <2>1. copied' \cap Placed = copied \cap Placed
    BY <1>1, <1>4
  <2> QED
    BY <1>1, <1>2, <2>1 DEF Inv, CopyInv, PlacedInv, Misplaced
<1>7. LinkedInv'
  <2>1. ASSUME NEW p \in throughout \cap Linking' PROVE p \in Linking
    <3>1. p \in CanRefer /\ (p \in Linking \/ p[2] \in Fringe)
      BY <1>1, <2>1 DEF Linking, Unstarted, BeforeFringes, WithActuals
    <3>2. p[2] \in Fringe => p[1] \in SubAccount /\ p[1] \in throughout
      BY <2>1, <3>1, CanReferIs, ThroughoutIs, Apart DEF Inv
    <3>3. p[2] \in Fringe => p[1] \notin left'
      BY <1>1, <2>1 DEF Linking
    <3> QED
      BY <1>1, <3>1, <3>2, <3>3, CopiedIs
  <2> QED
    BY <1>1, <1>2, <2>1 DEF Inv, CopyInv, LinkedInv
<1>8. TypeOK'
  <2>1. left' \subseteq LeftType
    BY <1>1, TypesAre DEF LeftType, Row
  <2> QED
    BY <1>1, <1>4, <2>1, LaterTypes, TypesAre
<1>9. HeldInv' /\ SearchInv'
  BY <1>1, <1>2, HeldKeeps, SearchKeeps
<1>10. LeftInv' /\ DoneInv'
  BY <1>1, <1>2 DEF LeftInv, DoneInv
<1> QED
  BY <1>1, <1>5, <1>6, <1>7, <1>8, <1>9, <1>10, LaterKeeps DEF Inv, CopyInv

LEMMA LinkFringesKeeps ==
  ASSUME Inv, NEW s \in SubAccount, LinkFringes(s)
  PROVE  Inv'
<1> DEFINE linked == {p \in refs : p[1] = s /\ p[2] \in Fringe}
<1>1. /\ pc = "link fringes" /\ s \in left /\ pc \in Later \ {"groups", "markups"} /\ pc \in Later
  BY DEF LinkFringes, Later
<1>2. Fringe \subseteq Copying
  BY <1>1, Apart, ApartFromBudget DEF Copying, BeforeGroups, BeforeFringes, WithActuals, Object
<1>3. CASE Fail /\ ~(\A p \in linked : p[2] \in copied)
  <2>1. ASSUME Calm, NEW p \in linked PROVE p[2] \in copied
    <3>1. p[2] \in objects
      BY ThroughoutIs, Apart DEF Inv
    <3> QED
      BY <2>1, <3>1, <1>2, CalmIs
  <2> QED
    BY <1>3, <2>1, FailKeeps
<1>4. CASE /\ \A p \in linked : p[2] \in copied
           /\ links' = links \cup linked /\ left' = left \ {s}
           /\ Goto(pc) /\ KeepRows /\ UNCHANGED <<search, held, copied, under>>
  <2>1. /\ pc' = pc /\ UNCHANGED original /\ pc' \in Later \ {"look up actuals"}
        /\ UNCHANGED <<search, held, copied, under>>
    BY <1>1, <1>4 DEF Goto, Later
  <2>2. Copying' = Copying
    BY <1>1, <2>1 DEF Copying
  <2>3. ASSUME NEW p \in throughout \cap Linking' PROVE p \in Linking \/ p \in linked
    <3>1. p \in CanRefer /\ (p \in Linking \/ (p[2] \in Fringe /\ p[1] = s))
      BY <1>1, <1>4, <2>1, <2>3 DEF Linking
    <3>2. p \in refs
      BY <3>1, <2>3, ThroughoutIs DEF Inv
    <3> QED
      BY <3>1, <3>2
  <2>4. s \in copied
    BY <1>1, CopiedIs DEF Inv, CopyInv, LeftInv
  <2>5. linked \subseteq refs /\ \A p \in linked : p[1] \in copied /\ p[2] \in copied
    BY <1>4, <2>4
  <2>6. LeftInv' /\ left' \subseteq left
    BY <1>1, <1>4, <2>1 DEF LeftInv, Inv, CopyInv, KeepRows
  <2> HIDE DEF linked
  <2> QED
    BY <1>1, <1>4, <2>1, <2>2, <2>3, <2>5, <2>6, LinkingKeeps
<1> QED
  BY <1>3, <1>4 DEF LinkFringes

LEMMA FringesLinkedKeeps ==
  ASSUME Inv, FringesLinked
  PROVE  Inv'
<1>1. /\ pc = "link fringes" /\ pc' = "markups" /\ UNCHANGED original /\ KeepRows
      /\ pc \in Later \ {"groups", "markups"} /\ pc' \in Later \ {"look up actuals"}
      /\ UNCHANGED <<search, left, held, copied, under, links>> /\ left = {}
  BY DEF FringesLinked, Goto, Later
<1>2. Copying' = Copying /\ Linking' = Linking
  BY <1>1 DEF Copying, Linking, BeforeGroups, BeforeFringes, WithActuals, Unstarted
<1>3. LeftInv' /\ links' = links \cup {} /\ left' \subseteq left
  BY <1>1 DEF LeftInv
<1> QED
  BY <1>1, <1>2, <1>3, {} \subseteq refs, LinkingKeeps

LEMMA CopyMarkupsKeeps ==
  ASSUME Inv, CopyMarkups
  PROVE  Inv'
<1> DEFINE ms == Listed(Markup)
<1>1. pc = "markups" /\ pc \in Later /\ search.step = "select"
  BY DEF CopyMarkups, Later
<1>2. Markup \subseteq Placed
  BY DEF Placed
<1>3. /\ ms \subseteq objects \cap Placed /\ ms \subseteq Markup
      /\ throughout \cap Markup \subseteq ms /\ ms \subseteq Object
  BY <1>1, <1>2, ListedIs DEF Object
<1> HIDE DEF ms
<1>4. CASE Fail /\ ~HavePlaces(ms)
  BY <1>1, <1>3, <1>4, CalmHavePlaces, FailKeeps
<1>5. CASE /\ HavePlaces(ms)
           /\ copied' = copied \cup ms /\ under' = under \cup Places(ms)
           /\ search' = NewSearch("list") /\ left' = ms \X {Account, SubAccount}
           /\ Goto("link markups") /\ KeepRows /\ UNCHANGED <<held, links>>
  <2>1. /\ pc' = "link markups" /\ UNCHANGED original /\ pc' \in Later
        /\ pc' # "look up actuals" /\ UNCHANGED <<held, links>>
    BY <1>5 DEF Goto, Later
  <2>2. UNCHANGED <<objects, refs, throughout, ever, found>>
    BY <1>1, <1>5, <2>1, LaterKeeps
  <2>3. ms \cap copied = {} /\ ms \cap Row = {}
    BY <1>1, <1>3, CopiedIs, Apart DEF Copying, Row
  <2>4. PlacedInv' /\ under' \subseteq Placed \X ({Budget} \cup Row)
    BY <1>3, <1>5, <2>2, <2>3, PlacesKeep
  <2>5. Copying' = Copying \cup Markup
    BY <1>1, <2>1, Apart, ApartFromBudget
       DEF Copying, BeforeGroups, BeforeFringes, WithActuals, Object, Placed, Row
  <2>6. CopiedInv'
    <3>1. throughout \cap Copying' \subseteq copied \cup ms
      BY <1>1, <1>3, <2>5, CopiedIs
    <3> QED
      BY <1>1, <1>3, <1>5, <2>1, <2>3, <2>5, <3>1, CopyingKeeps
  <2>7. ASSUME NEW p \in throughout \cap Linking' PROVE p \in Linking
    <3>1. p \in CanRefer /\ (p \in Linking \/ p[2] \in Markup) /\ p[1] \notin Actual
      BY <1>1, <2>1, <2>7 DEF Linking, Unstarted, BeforeFringes, WithActuals
    <3>2. p[2] \in Markup => p[2] \in ms /\ p[1] \in Row
      BY <1>3, <2>7, <3>1, ThroughoutIs, CanReferIs, Apart DEF Inv
    <3>3. \A rows \in {Account, SubAccount} :
             p[2] \in Markup /\ p[1] \in rows => <<p[2], rows>> \notin left'
      BY <2>1, <2>7 DEF Linking
    <3>4. p[2] \in Markup => <<p[2], Account>> \in left' /\ <<p[2], SubAccount>> \in left'
      BY <1>5, <3>2
    <3> QED
      BY <3>1, <3>2, <3>3, <3>4 DEF Row
  <2>8. LinkedInv'
    BY <1>5, <2>1, <2>2, <2>7 DEF Inv, CopyInv, LinkedInv
  <2>9. HeldInv' /\ SearchInv'
    BY <1>1, <1>5, <2>1, <2>2, HeldKeeps, SearchKeeps
  <2>10. LeftInv' /\ DoneInv'
    BY <1>5, <2>1 DEF LeftInv, DoneInv
  <2>11. TypeOK'
    <3>1. left' \subseteq LeftType
      BY <1>3, <1>5 DEF LeftType
    <3> QED
      BY <1>3, <1>5, <2>1, <2>4, <3>1, LaterTypes, TypesAre
  <2> QED
    BY <1>1, <1>5, <2>1, <2>4, <2>6, <2>8, <2>9, <2>10, <2>11, LaterKeeps DEF Inv, CopyInv
<1> QED
  BY <1>4, <1>5 DEF CopyMarkups, ms

LEMMA LinkMarkupsKeeps ==
  ASSUME Inv, NEW m \in Markup, NEW rows \in {Account, SubAccount}, LinkMarkups(m, rows)
  PROVE  Inv'
<1> DEFINE new == {p \in refs : p[2] = m /\ p[1] \in rows \cap copied}
<1>1. /\ pc = "link markups" /\ pc' = pc /\ <<m, rows>> \in left
      /\ pc \in Later \ {"groups", "markups"} /\ pc' \in Later \ {"look up actuals"}
      /\ pc \in Later /\ UNCHANGED original /\ KeepRows
      /\ UNCHANGED <<search, held, copied, under>>
      /\ links' = links \cup new /\ left' = left \ {<<m, rows>>}
  BY DEF LinkMarkups, Goto, Later
<1>2. Copying' = Copying
  BY <1>1 DEF Copying
<1>3. m \in copied
  BY <1>1 DEF Inv, CopyInv, LeftInv
<1>4. ASSUME NEW p \in throughout \cap Linking' PROVE p \in Linking \/ p \in new
  <2>1. \A rs \in {Account, SubAccount} :
          <<p[2], rs>> \in left /\ <<p[2], rs>> \notin left' => p[2] = m /\ rs = rows
    BY <1>1
  <2>2. p \in CanRefer /\ (p \in Linking \/ (p[2] = m /\ p[1] \in rows))
    BY <1>1, <1>4, <2>1 DEF Linking
  <2>3. p \in refs /\ p[1] \in throughout
    BY <2>2, <1>4, ThroughoutIs DEF Inv
  <2>4. p[1] \in rows => p[1] \in copied
    BY <1>1, <2>3, CopiedIs DEF Row
  <2> QED
    BY <2>2, <2>3, <2>4
<1>5. new \subseteq refs /\ \A p \in new : p[1] \in copied /\ p[2] \in copied
  BY <1>3
<1>6. LeftInv' /\ left' \subseteq left
  BY <1>1 DEF LeftInv, Inv, CopyInv
<1> HIDE DEF new
<1> QED
  BY <1>1, <1>2, <1>4, <1>5, <1>6, LinkingKeeps

LEMMA MarkupsLinkedKeeps ==
  ASSUME Inv, MarkupsLinked
  PROVE  Inv'
<1>1. /\ pc = "link markups" /\ pc' = "actuals" /\ UNCHANGED original /\ KeepRows
      /\ pc \in Later \ {"groups", "markups"} /\ pc' \in Later \ {"look up actuals"}
      /\ UNCHANGED <<search, left, held, copied, under, links>> /\ left = {}
  BY DEF MarkupsLinked, Goto, Later
<1>2. Copying' = Copying /\ Linking' = Linking
  BY <1>1 DEF Copying, Linking, BeforeGroups, BeforeFringes, WithActuals, Unstarted
<1>3. LeftInv' /\ links' = links \cup {} /\ left' \subseteq left
  BY <1>1 DEF LeftInv
<1> QED
  BY <1>1, <1>2, <1>3, {} \subseteq refs, LinkingKeeps


(* The actuals. *)
LEMMA LoadActualsKeeps ==
  ASSUME Inv, LoadActuals
  PROVE  Inv'
<1> DEFINE xs == Actual \cap objects
           owners == {p \in refs : p[1] \in xs /\ p[2] \notin Contact}
<1>1. pc = "actuals" /\ pc \in Later
  BY DEF LoadActuals, Later
<1>2. SubAccount \cup Markup \subseteq Copying
  BY <1>1, Apart, ApartFromBudget
     DEF Copying, BeforeGroups, BeforeFringes, WithActuals, Object, Placed, Row
<1>3. CASE Fail /\ ~(\A p \in owners : p[2] \in copied)
  <2>1. ASSUME Calm, NEW p \in owners PROVE p[2] \in copied
    <3>1. p[2] \in objects /\ p \in CanRefer
      BY ThroughoutIs DEF Inv, TypeOK
    <3>2. p[2] \in SubAccount \cup Markup
      BY <3>1, CanReferIs, Apart DEF Row
    <3> QED
      BY <2>1, <3>1, <3>2, <1>2, CalmIs
  <2> QED
    BY <1>3, <2>1, FailKeeps
<1>4. CASE /\ \A p \in owners : p[2] \in copied
           /\ copied' = copied \cup xs /\ links' = links \cup owners
           /\ held' = {p \in refs : p[1] \in xs /\ p[2] \in Contact}
           /\ Goto("look up actuals") /\ KeepRows /\ UNCHANGED <<search, left, under>>
  <2>1. /\ pc' = "look up actuals" /\ UNCHANGED original /\ pc' \in Later
        /\ UNCHANGED <<search, left, under>>
    BY <1>4 DEF Goto, Later
  <2>2. /\ UNCHANGED <<objects, contacts, refs, throughout, ever, found>>
        /\ (Calm' <=> Calm)
    BY <1>1, <1>4, <2>1, LaterKeeps
  <2>3. /\ throughout \cap Actual \subseteq xs /\ xs \subseteq objects /\ xs \subseteq Object
        /\ xs \cap Placed = {} /\ xs \cap Row = {} /\ xs \subseteq Actual
    BY ThroughoutIs, Apart DEF Inv, Object, Placed, Row
  <2>4. Copying' = Copying \cup Actual
    BY <1>1, <2>1, Apart, ApartFromBudget
       DEF Copying, BeforeGroups, BeforeFringes, WithActuals, Object, Placed, Row
  <2>5. /\ owners \subseteq refs
        /\ \A p \in owners : p[1] \in copied' /\ p[2] \in copied' /\ p[2] \notin Contact
    BY <1>4
  <2>6. ASSUME NEW p \in throughout \cap Linking' PROVE p \in links'
    <3>1. p \in CanRefer /\ (p \in Linking \/ (p[1] \in Actual /\ p[2] \notin Contact))
      BY <1>1, <2>1, <2>6 DEF Linking, Unstarted, BeforeFringes, WithActuals
    <3>2. p \in refs /\ p[1] \in throughout
      BY <2>6, <3>1, ThroughoutIs DEF Inv
    <3>3. p \in Linking => p \in links
      BY <2>6 DEF Inv, CopyInv, LinkedInv
    <3> QED
      BY <1>4, <2>3, <3>1, <3>2, <3>3
  <2>7. /\ held' \subseteq refs /\ \A p \in held' : p[1] \in xs /\ p[2] \in Contact
        /\ \A p \in refs : p[1] \in xs /\ p[2] \in Contact => p \in held'
    BY <1>4
  <2> HIDE DEF xs, owners
  <2>8. CopiedInv'
    <3>1. throughout \cap Copying' \subseteq copied \cup xs
      BY <1>1, <2>3, <2>4, CopiedIs
    <3> QED
      BY <1>1, <1>4, <2>1, <2>3, <2>4, <3>1, CopyingKeeps
  <2>9. PlacedInv'
    <3>1. copied' \cap Placed = copied \cap Placed
      BY <1>4, <2>3
    <3> QED
      BY <1>4, <2>1, <2>2, <3>1 DEF Inv, CopyInv, PlacedInv, Misplaced
  <2>10. LinkedInv'
    BY <1>4, <2>2, <2>5, <2>6 DEF Inv, CopyInv, LinkedInv, OriginalInv
  <2>11. HeldInv'
    <3>1. held' \subseteq ever /\ \A p \in held' : p[1] \in copied' /\ p[2] \in Contact
                                               /\ p[2] \in contacts
      BY <1>4, <2>7, ThroughoutIs DEF Inv, OriginalInv
    <3>2. Calm => \A p \in links' : p[2] \in Contact => p[2] \in contacts
      BY <1>4, <2>5 DEF Inv, CopyInv, HeldInv
    <3>3. \A p \in throughout \cap CanRefer : p[1] \in Actual /\ p[2] \in Contact => p \in held'
      BY <2>3, <2>7, ThroughoutIs DEF Inv
    <3> QED
      BY <2>1, <2>2, <3>1, <3>2, <3>3 DEF HeldInv
  <2>12. SearchInv' /\ LeftInv' /\ DoneInv'
    <3>1. SearchInv'
      BY <1>1, <2>1, <2>2, SearchKeeps
    <3> QED
      BY <2>1, <3>1 DEF LeftInv, DoneInv
  <2>13. TypeOK'
    <3>1. held' \subseteq CanRefer /\ links' \subseteq CanRefer /\ copied' \subseteq Object
      BY <1>4, <2>3, <2>5, <2>7, TypesAre
    <3> QED
      BY <1>4, <2>1, <3>1, LaterTypes, TypesAre
  <2> QED
    BY <1>1, <1>4, <2>1, <2>8, <2>9, <2>10, <2>11, <2>12, <2>13, LaterKeeps DEF Inv, CopyInv
<1> QED
  BY <1>3, <1>4 DEF LoadActuals

(* What only the last two steps come to. *)
LEMMA LastKeeps ==
  ASSUME Inv, pc \in {"look up actuals", "commit"}, pc' \in {"commit", "done"},
         UNCHANGED original, KeepRows, UNCHANGED <<search, left, copied, under>>,
         held' \subseteq held,
         NEW new, new \subseteq held, links' = links \cup new, \A p \in new : p[2] \in Mine,
         \A p \in throughout \cap Linking' : p \in Linking \/ p \in new,
         DoneInv'
  PROVE  Inv'
<1>1. pc \in Later /\ pc' \in Later \cup {"done"} /\ pc' # "look up actuals"
  BY DEF Later
<1>2. /\ UNCHANGED <<objects, contacts, refs, throughout, ever, found>>
      /\ (Calm' <=> Calm)
  BY <1>1, LaterKeeps
<1>3. Copying' = Copying
  BY DEF Copying, BeforeGroups, BeforeFringes, WithActuals
<1>4. CopiedInv'
  <2>1. /\ {} \subseteq objects /\ {} \cap Row = {} /\ copied' = copied \cup {}
        /\ throughout \cap Copying' \subseteq copied \cup {}
        /\ Copying \cup {} \subseteq Copying'
    BY <1>1, <1>3, CopiedIs
  <2> QED
    BY <1>1, <2>1, CopyingKeeps
<1>5. PlacedInv'
  BY <1>2 DEF Inv, CopyInv, PlacedInv, Misplaced
<1>6. held \subseteq ever /\ held \subseteq CanRefer
  BY TypesAre DEF Inv, CopyInv, HeldInv
<1>7. \A p \in new : p[1] \in copied \cup found
  BY DEF Inv, CopyInv, HeldInv
<1>8. LinkedInv'
  BY <1>2, <1>6, <1>7 DEF Inv, CopyInv, LinkedInv
<1>9. HeldInv'
  <2>1. Calm => \A p \in links' : p[2] \in Contact => p[2] \in contacts
    <3>1. objects \cap Contact = {}
      BY ObjectsApart DEF Inv, OriginalInv
    <3> QED
      BY <3>1 DEF Inv, CopyInv, HeldInv
  <2> QED
    BY <1>1, <1>2, <2>1 DEF Inv, CopyInv, HeldInv
<1>10. SearchInv' /\ LeftInv'
  <2>1. SearchInv'
    BY <1>1, <1>2, SearchKeeps
  <2> QED
    BY <2>1 DEF LeftInv
<1>11. TypeOK'
  <2>1. held' \subseteq CanRefer /\ links' \subseteq CanRefer
    BY <1>6, TypesAre
  <2> QED
    BY <1>1, <2>1, LaterTypes, TypesAre
<1> QED
  BY <1>1, <1>4, <1>5, <1>8, <1>9, <1>10, <1>11, LaterKeeps DEF Inv, CopyInv

LEMMA LookUpActualsKeeps ==
  ASSUME Inv, LookUpActuals
  PROVE  Inv'
<1> DEFINE new == Carried(Actual)
<1>1. CASE Gone(Actual) /\ Fail
  BY <1>1, GoneOvertaken, FailKeeps
<1>2. CASE /\ links' = links \cup new /\ held' = {}
           /\ Goto("commit") /\ KeepRows /\ UNCHANGED <<search, left, copied, under>>
  <2>1. pc = "look up actuals" /\ pc' = "commit" /\ UNCHANGED original
    BY <1>2 DEF LookUpActuals, Goto
  <2>2. new \subseteq held /\ \A p \in new : p[2] \in Mine
    BY DEF Carried
  <2>3. ASSUME NEW p \in throughout \cap Linking' PROVE p \in Linking \/ p \in new
    <3>1. /\ p \in CanRefer /\ (p[2] \in Contact => p[2] \in Mine)
          /\ (p \in Linking \/ (p[1] \in Actual /\ p[2] \in Contact))
      BY <2>1, <2>3 DEF Linking, Unstarted, BeforeFringes, WithActuals
    <3>2. p[1] \in Actual /\ p[2] \in Contact => p \in held
      BY <2>1, <2>3, <3>1 DEF Inv, CopyInv, HeldInv
    <3> QED
      BY <3>1, <3>2 DEF Carried
  <2>4. DoneInv'
    BY <2>1 DEF DoneInv
  <2> HIDE DEF new
  <2> QED
    BY <1>2, <2>1, <2>2, <2>3, <2>4, {} \subseteq held, LastKeeps
<1> QED
  BY <1>1, <1>2 DEF LookUpActuals

LEMMA CommitCopyKeeps ==
  ASSUME Inv, CommitCopy
  PROVE  Inv'
<1>1. CASE Fail /\ ~(\A p \in links : p[2] \in Contact => p[2] \in contacts)
  BY <1>1, FailKeeps DEF Inv, CopyInv, HeldInv
<1>2. CASE /\ \A p \in links : p[2] \in Contact => p[2] \in contacts
           /\ Goto("done") /\ KeepRows
           /\ UNCHANGED <<search, left, held, copied, under, links>>
  <2>1. pc = "commit" /\ pc' = "done" /\ UNCHANGED original
    BY <1>2 DEF CommitCopy, Goto
  <2>2. Linking' = Linking
    BY <2>1 DEF Linking, Unstarted, BeforeFringes, WithActuals
  <2>3. DoneInv'
    BY <1>2, <2>1 DEF DoneInv, original
  <2> DEFINE new == {}
  <2>4. links' = links \cup new /\ new \subseteq held /\ held' \subseteq held
    BY <1>2
  <2> QED
    <3>1. /\ pc \in {"look up actuals", "commit"} /\ pc' \in {"commit", "done"}
          /\ \A p \in new : p[2] \in Mine
          /\ \A p \in throughout \cap Linking' : p \in Linking \/ p \in new
          /\ UNCHANGED <<search, left, copied, under>> /\ KeepRows
      BY <1>2, <2>1, <2>2
    <3> HIDE DEF new
    <3> QED
      BY <2>1, <2>3, <2>4, <3>1, LastKeeps
<1> QED
  BY <1>1, <1>2 DEF CommitCopy

-------------------------------------------------------------------------------
LEMMA InitIs ==
  ASSUME Init
  PROVE  Inv
<1>1. PICK r \in SUBSET CanRefer, x \in (Object \ {Budget}) \cup {None} :
        /\ objects = Object \ IF x = None THEN {} ELSE Below(x, r)
        /\ refs = Among(r, objects \cup Contact)
  BY DEF Init
<1>2. /\ throughout = objects \cup refs /\ ever = objects \cup refs /\ disturbed = {}
      /\ pc = "accounts" /\ found = {} /\ walk = NoWalk /\ contacts = Contact
      /\ level = [s \in {} |-> 0] /\ DOMAIN level = {}
      /\ search = NewSearch("tops") /\ left = {} /\ held = {}
      /\ copied = {} /\ under = {} /\ links = {}
  BY DEF Init
<1>3. objects \subseteq Object /\ refs \subseteq CanRefer
  BY <1>1 DEF Among
<1>4. Budget \in objects
  <2>1. Budget \in Object /\ Budget # None
    BY ApartFromBudget DEF Object
  <2>2. x # None => Budget \notin Below(x, r)
    BY BelowIs
  <2> QED
    BY <1>1, <2>1, <2>2
<1>5. Whole(objects, refs)
  <2>1. ASSUME NEW y \in objects \cap Placed PROVE ParentOf[y] \in objects
    <3>1. ParentOf[y] \in Object
      BY DuplicationAssumption DEF Object, Placed
    <3>2. x # None => (ParentOf[y] \in Below(x, r) => y \in Below(x, r))
      BY BelowIs
    <3> QED
      BY <1>1, <2>1, <3>1, <3>2
  <2>2. \A p \in refs : p[1] \in objects /\ p[2] \in objects \cup Contact
    <3>1. \A p \in refs : p \in CanRefer /\ p[1] \in objects \cup Contact
                                     /\ p[2] \in objects \cup Contact
      BY <1>1 DEF Among
    <3>2. \A p \in refs : p[1] \in Object
      BY <3>1, PairsApart
    <3> QED
      BY <3>1, <3>2, ObjectsApart
  <2> QED
    BY <2>1, <2>2 DEF Whole
<1>6. throughout \cap Object = objects /\ throughout \cap CanRefer = refs
  BY <1>2, <1>3, PairsApart
<1>7. OriginalInv
  BY <1>2, <1>3, <1>4, <1>5, <1>6 DEF OriginalInv
<1>8. TypeOK
  <2>1. walk \in [row : SubAccount \cup {None}, at : {Budget, None} \cup Row,
                  fetched : 0..MaxDepth + 1]
    BY <1>2, DepthIs DEF NoWalk
  <2>2. level \in [{} -> -1..MaxDepth] /\ {} \in SUBSET found
    BY <1>2
  <2>3. level \in UNION {[s -> -1..MaxDepth] : s \in SUBSET found}
    BY <2>2
  <2>4. search \in SearchType
    BY <1>2 DEF NewSearch, SearchType
  <2> QED
    BY <1>2, <1>3, <2>1, <2>3, <2>4 DEF TypeOK, SearchType, Steps
<1>9. Copying = {} /\ Linking = {}
  BY <1>2 DEF Copying, Linking, Unstarted
<1>10. WalkInv /\ LevelInv /\ FoundInv /\ HeldInv /\ LeftInv /\ DoneInv
  BY <1>2 DEF WalkInv, LevelInv, FoundInv, HeldInv, LeftInv, DoneInv, Unstarted
<1>11. SearchInv
  BY <1>2 DEF SearchInv, NewSearch, Unstarted
<1>12. CopiedInv /\ PlacedInv /\ LinkedInv /\ FailedInv
  BY <1>2, <1>9 DEF CopiedInv, PlacedInv, LinkedInv, FailedInv, Unstarted
<1> QED
  BY <1>7, <1>8, <1>10, <1>11, <1>12 DEF Inv, CopyInv

LEMMA StutterKeeps ==
  ASSUME Inv, UNCHANGED vars
  PROVE  Inv'
<1>1. /\ UNCHANGED original
      /\ UNCHANGED <<objects, contacts, refs, throughout, ever, disturbed>>
      /\ UNCHANGED <<pc, search, left, found, held, walk, level, copied, under, links>>
  BY DEF vars, original, copying
<1>2. OriginalInv' /\ (Calm' <=> Calm)
  BY <1>1, GotoKeepsOriginal DEF Inv
<1>3. TypeOK'
  BY <1>1 DEF Inv, TypeOK
<1>4. WalkInv' /\ LevelInv' /\ FoundInv' /\ FailedInv' /\ LeftInv' /\ DoneInv'
  BY <1>1, <1>2 DEF Inv, CopyInv, WalkInv, LevelInv, FoundInv, FailedInv, LeftInv, DoneInv
<1>5. SearchInv' /\ HeldInv'
  BY <1>1, <1>2 DEF Inv, CopyInv, SearchInv, HeldInv
<1>6. Copying' = Copying /\ Linking' = Linking
  BY <1>1 DEF Copying, Linking
<1>7. CopiedInv' /\ PlacedInv' /\ LinkedInv'
  BY <1>1, <1>2, <1>6 DEF Inv, CopyInv, CopiedInv, PlacedInv, LinkedInv, Misplaced
<1> QED
  BY <1>2, <1>3, <1>4, <1>5, <1>7 DEF Inv, CopyInv

LEMMA NextKeeps ==
  ASSUME Inv, [Next]_vars
  PROVE  Inv'
<1>1. CASE Edit
  <2>1. OriginalInv'
    BY <1>1, EditIs DEF EditGoal, Inv, CopyInv
  <2>2. TypeOK' /\ CopyInv'
    BY <1>1, EditKeepsCopy DEF Inv
  <2> QED
    BY <2>1, <2>2 DEF Inv
<1>2. CASE LoadAccounts \/ LookUpAccounts
  BY <1>2, LoadAccountsKeeps, LookUpAccountsKeeps
<1>3. CASE ListAccounts \/ FindTops \/ OpenLevels \/ ListSubAccounts \/ LoadSubAccounts
  BY <1>3, ListAccountsKeeps, FindTopsKeeps, OpenLevelsKeeps, ListSubAccountsKeeps,
     LoadSubAccountsKeeps
<1>4. CASE \E y \in Row : Look(y)
  BY <1>4, LookKeeps
<1>5. CASE (\E s \in SubAccount : BeginWalk(s)) \/ Climb \/ ClimbFails \/ EndWalk
  BY <1>5, BeginWalkKeeps, ClimbKeeps, ClimbFailsKeeps, EndWalkKeeps
<1>6. CASE CopySubAccounts
  BY <1>6, CopySubAccountsKeeps
<1>7. CASE CopyGroups \/ PrefetchAccounts \/ PrefetchSubAccounts
  BY <1>7, CopyGroupsKeeps, PrefetchAccountsKeeps, PrefetchSubAccountsKeeps
<1>8. CASE CopyFringes \/ (\E s \in SubAccount : LinkFringes(s)) \/ FringesLinked
  BY <1>8, CopyFringesKeeps, LinkFringesKeeps, FringesLinkedKeeps
<1>9. CASE CopyMarkups \/ MarkupsLinked
  BY <1>9, CopyMarkupsKeeps, MarkupsLinkedKeeps
<1>10. CASE \E m \in Markup, rows \in {Account, SubAccount} : LinkMarkups(m, rows)
  BY <1>10, LinkMarkupsKeeps
<1>11. CASE LoadActuals \/ LookUpActuals \/ CommitCopy
  BY <1>11, LoadActualsKeeps, LookUpActualsKeeps, CommitCopyKeeps
<1>12. CASE Finished \/ UNCHANGED vars
  BY <1>12, StutterKeeps DEF Finished
<1> QED
  BY <1>1, <1>2, <1>3, <1>4, <1>5, <1>6, <1>7, <1>8, <1>9, <1>10, <1>11, <1>12 DEF Next

(* The inductive invariant: the types, the original whole, and the copy as   *)
(* far as the copying has got.                                               *)
THEOREM InvCorrect == Spec => []Inv
BY InitIs, NextKeeps, PTL DEF Spec

(* The state has the types of TypeOK: no climb goes on beyond the budget and *)
(* no level is found for a row that was not.                                 *)
THEOREM TypeCorrect == Spec => []TypeOK
<1>1. Inv => TypeOK
  BY DEF Inv
<1> QED
  BY <1>1, InvCorrect, PTL

LEMMA InvFaithful ==
  ASSUME Inv
  PROVE  IsFaithful
<1> SUFFICES ASSUME pc = "done"
             PROVE  StandsAlone /\ NothingLost /\ NothingInvented
  BY DEF IsFaithful, StandsAlone, NothingLost, NothingInvented
<1>1. Copying = Object /\ Linking = {p \in CanRefer : p[2] \in Contact => p[2] \in Mine}
  BY DEF Copying, Linking, Unstarted, BeforeGroups, BeforeFringes, WithActuals
<1>2. found \subseteq copied
  BY DEF Inv, CopyInv, CopiedInv, Unstarted
<1>3. StandsAlone
  <2>1. ASSUME NEW x \in copied \cap Placed
        PROVE  Cardinality({p \in under : p[1] = x}) = 1
    <3>1. PICK y : {p \in under : p[1] = x} = {<<x, y>>}
      BY DEF Inv, CopyInv, PlacedInv
    <3> QED
      BY <3>1, FS_Singleton
  <2>2. \A p \in under : p[1] \in copied /\ p[2] \in copied
    BY DEF Inv, CopyInv, PlacedInv
  <2>3. \A p \in links : p[1] \in copied /\ p[2] \in copied \cup (Mine \cap contacts)
    <3>1. \A p \in links : p[1] \in copied /\ p[2] \in copied \cup Mine
      BY <1>2 DEF Inv, CopyInv, LinkedInv
    <3>2. Mine \subseteq Contact
      BY DuplicationAssumption
    <3> QED
      BY <3>1, <3>2 DEF Inv, CopyInv, DoneInv
  <2> QED
    BY <2>1, <2>2, <2>3 DEF StandsAlone
<1>4. NothingLost
  <2>1. throughout \cap Object \subseteq copied
    BY <1>1 DEF Inv, CopyInv, CopiedInv
  <2>2. \A x \in throughout \cap Placed : <<x, ParentOf[x]>> \in under
    BY <2>1 DEF Inv, CopyInv, PlacedInv, Object
  <2>3. \A p \in throughout \cap CanRefer : p \in links \/ p[2] \in Contact \ Mine
    BY <1>1 DEF Inv, CopyInv, LinkedInv
  <2> QED
    BY <2>1, <2>2, <2>3 DEF NothingLost
<1>5. NothingInvented
  BY DEF NothingInvented, Inv, CopyInv, CopiedInv, PlacedInv, LinkedInv
<1> QED
  BY <1>3, <1>4, <1>5

(* A copy that is finished refers to itself only, and to contacts there are, *)
(* has in its place what was there throughout, and nothing that never was    *)
(* (Duplicator.__call__).                                                    *)
THEOREM FaithfulCorrect == Spec => []IsFaithful
BY InvCorrect, InvFaithful, PTL

(* Copying fails only if it was overtaken: by something added, a row         *)
(* deleted, or a group or a contact removed that it had in hand, between     *)
(* the query that read the column and the one that fetches what it names, or *)
(* between the use of a contact and the end of the transaction.              *)
THEOREM FailsOnlyIfOvertakenCorrect == Spec => []FailsOnlyIfOvertaken
<1>1. Inv => FailsOnlyIfOvertaken
  BY DEF Inv, CopyInv, FailedInv, Calm, Overtaking, FailsOnlyIfOvertaken
<1> QED
  BY <1>1, InvCorrect, PTL

-------------------------------------------------------------------------------
(***************************************************************************)
(* Actuals.                                                                *)
(*                                                                         *)
(* ActualsInv says of every request under way, by itself (Local), that the *)
(* rows it has actualized are right as it would store them, and that all   *)
(* others are as they were, except for rows that it is known (overlooked)  *)
(* another request has had a hand in; and of the database that every row   *)
(* not raced is right.  What a sum amounts to is of no concern in any      *)
(* step: only AddsUp reckons with sums.                                    *)
(***************************************************************************)

(* Natural numbers. *)

(* Induction, over a set in the place of a predicate. *)
LEMMA NatSetInduction ==
  ASSUME NEW S, 0 \in S, \A n \in Nat : n \in S => n + 1 \in S
  PROVE  Nat \subseteq S
<1> SUFFICES ASSUME Nat \ S # {} PROVE FALSE
  OBVIOUS
<1>1. PICK x \in Nat \ S : \A y \in Nat \ S : x <= y
  BY Least
<1>2. x # 0 /\ x - 1 \in Nat
  BY <1>1
<1>3. x - 1 \in S
  BY <1>1, <1>2
<1> QED
  BY <1>1, <1>2, <1>3

-------------------------------------------------------------------------------
(* The tree. *)

LEMMA RowsAre ==
  /\ DOMAIN Parent = Accounts \cup Subs /\ \A n \in Accounts \cup Subs : Parent[n] \in Rows
  /\ Rows = {BudgetRow} \cup Accounts \cup Subs /\ BudgetRow \notin Accounts \cup Subs
  /\ Accounts \cap Subs = {}
  /\ \A n \in Rows \ {BudgetRow} : n \in DOMAIN Parent /\ Parent[n] \in Rows
  /\ \A n \in Accounts : Parent[n] = BudgetRow
  /\ \A n \in Subs : Parent[n] \in Accounts \cup Subs
BY ActualizeAssumption DEF Rows

LEMMA ChildrenAre ==
  ASSUME NEW n, NEW c
  PROVE  c \in Children(n) <=> c \in Rows \ {BudgetRow} /\ Parent[c] = n
BY RowsAre DEF Children

LEMMA AboveClosed ==
  ASSUME NEW n \in Rows \ {BudgetRow}
  PROVE  /\ Above[n] \subseteq Rows /\ Parent[n] \in Above[n]
         /\ \A k \in Above[n] \ {BudgetRow} : Parent[k] \in Above[n]
<1>1. Above[n] = {m \in Rows : n # BudgetRow /\ \A S \in SUBSET Rows :
          Parent[n] \in S /\ (\A k \in S \ {BudgetRow} : Parent[k] \in S) => m \in S}
  BY DEF Above
<1>2. ASSUME NEW k \in Above[n] \ {BudgetRow} PROVE Parent[k] \in Above[n]
  <2>1. k \in Rows /\ Parent[k] \in Rows
    BY <1>1, RowsAre
  <2>2. ASSUME NEW S \in SUBSET Rows, Parent[n] \in S, \A j \in S \ {BudgetRow} : Parent[j] \in S
        PROVE  Parent[k] \in S
    BY <1>1, <2>2
  <2> QED
    BY <1>1, <2>1, <2>2
<1> QED
  BY <1>1, <1>2, RowsAre

LEMMA AboveLeast ==
  ASSUME NEW n \in Rows \ {BudgetRow}, NEW S \in SUBSET Rows,
         Parent[n] \in S, \A k \in S \ {BudgetRow} : Parent[k] \in S
  PROVE  Above[n] \subseteq S
BY DEF Above

LEMMA AboveBudget == Above[BudgetRow] = {}
BY RowsAre DEF Above

LEMMA AboveIs ==
  ASSUME NEW n \in Rows \ {BudgetRow}
  PROVE  Above[n] = {Parent[n]} \cup Above[Parent[n]]
<1> DEFINE S == {Parent[n]} \cup Above[Parent[n]]
<1>1. Parent[n] \in Rows
  BY RowsAre
<1>2. CASE Parent[n] = BudgetRow
  <2>1. S = {BudgetRow}
    BY <1>2, AboveBudget
  <2> DEFINE T == {BudgetRow}
  <2>2. Above[n] \subseteq T
    <3>1. T \in SUBSET Rows /\ Parent[n] \in T /\ \A k \in T \ {BudgetRow} : Parent[k] \in T
      BY <1>1, <1>2
    <3> HIDE DEF T
    <3> QED
      BY <3>1, AboveLeast
  <2> QED
    BY <1>2, <2>1, <2>2, AboveClosed
<1>3. CASE Parent[n] # BudgetRow
  <2>1. /\ Above[Parent[n]] \subseteq Rows /\ Parent[Parent[n]] \in Above[Parent[n]]
        /\ \A k \in Above[Parent[n]] \ {BudgetRow} : Parent[k] \in Above[Parent[n]]
    BY <1>1, <1>3, AboveClosed
  <2>2. Above[n] \subseteq S
    <3>1. S \in SUBSET Rows /\ Parent[n] \in S /\ \A k \in S \ {BudgetRow} : Parent[k] \in S
      BY <1>1, <2>1
    <3> HIDE DEF S
    <3> QED
      BY <3>1, AboveLeast
  <2>3. /\ Above[n] \subseteq Rows /\ Parent[n] \in Above[n]
        /\ \A k \in Above[n] \ {BudgetRow} : Parent[k] \in Above[n]
    BY AboveClosed
  <2>4. Parent[Parent[n]] \in Above[n]
    BY <1>3, <2>3
  <2>5. Above[Parent[n]] \subseteq Above[n]
    BY <1>1, <1>3, <2>3, <2>4, AboveLeast
  <2> QED
    BY <2>2, <2>3, <2>5
<1> QED
  BY <1>2, <1>3

LEMMA TierIs ==
  /\ \A n \in Rows : Tier[n] \in Nat
  /\ Tier[BudgetRow] = 0
  /\ \A n \in Rows \ {BudgetRow} : Tier[n] = Tier[Parent[n]] + 1
<1>1. \A n \in Rows : Tier[n] = Cardinality(Above[n])
  BY DEF Tier
<1>2. ASSUME NEW n \in Rows PROVE IsFiniteSet(Above[n]) /\ Tier[n] \in Nat
  <2>1. Above[n] \subseteq Rows /\ IsFiniteSet(Rows)
    BY ActualizeAssumption DEF Above
  <2> QED
    BY <1>1, <2>1, FS_Subset, FS_CardinalityType
<1>3. Tier[BudgetRow] = 0
  BY <1>1, AboveBudget, FS_EmptySet, RowsAre
<1>4. ASSUME NEW n \in Rows \ {BudgetRow} PROVE Tier[n] = Tier[Parent[n]] + 1
  <2>1. Parent[n] \in Rows /\ Parent[n] \notin Above[Parent[n]]
    BY RowsAre, ActualizeAssumption
  <2>2. Above[n] = Above[Parent[n]] \cup {Parent[n]}
    BY AboveIs
  <2>3. IsFiniteSet(Above[Parent[n]])
    BY <1>2, <2>1
  <2>4. Cardinality(Above[n]) = Cardinality(Above[Parent[n]]) + 1
    BY <2>1, <2>2, <2>3, FS_AddElement
  <2> QED
    BY <1>1, <2>1, <2>4
<1> QED
  BY <1>2, <1>3, <1>4

LEMMA TiersAre ==
  ASSUME NEW n \in Rows
  PROVE  /\ Tier[n] = 0 <=> n = BudgetRow
         /\ Tier[n] = 1 <=> n \in Accounts
         /\ Tier[n] > 1 <=> n \in Subs
<1>1. n = BudgetRow => Tier[n] = 0
  BY TierIs
<1>2. n \in Accounts => Tier[n] = 1
  BY TierIs, RowsAre
<1>3. ASSUME n \in Subs PROVE Tier[n] > 1
  <2>1. Parent[n] \in Rows \ {BudgetRow} /\ Tier[n] = Tier[Parent[n]] + 1
    BY <1>3, TierIs, RowsAre
  <2>2. Tier[Parent[n]] = Tier[Parent[Parent[n]]] + 1 /\ Parent[Parent[n]] \in Rows
    BY <2>1, TierIs, RowsAre
  <2> QED
    BY <2>1, <2>2, TierIs
<1> QED
  BY <1>1, <1>2, <1>3, TierIs, RowsAre

LEMMA AboveIsHigher ==
  ASSUME NEW n \in Rows, NEW m \in Above[n]
  PROVE  m \in Rows /\ n # BudgetRow /\ Tier[m] < Tier[n]
<1>1. n # BudgetRow
  BY AboveBudget
<1> DEFINE S == {k \in Rows : Tier[k] < Tier[n]}
<1>2. Parent[n] \in S
  BY <1>1, TierIs, RowsAre
<1>3. ASSUME NEW k \in S \ {BudgetRow} PROVE Parent[k] \in S
  BY TierIs, RowsAre
<1>4. Above[n] \subseteq S
  BY <1>1, <1>2, <1>3, AboveLeast
<1> QED
  BY <1>1, <1>4

LEMMA AboveByChild ==
  ASSUME NEW n \in Rows \ {BudgetRow}
  PROVE  \A j \in Above[n] : j = Parent[n] \/ \E i \in Above[n] \ {BudgetRow} : j = Parent[i]
<1>1. /\ Above[n] \subseteq Rows /\ Parent[n] \in Above[n]
      /\ \A j \in Above[n] \ {BudgetRow} : Parent[j] \in Above[n]
  BY AboveClosed
<1> DEFINE T == {j \in Above[n] : j = Parent[n] \/ \E i \in Above[n] \ {BudgetRow} : j = Parent[i]}
<1>2. T \in SUBSET Rows /\ Parent[n] \in T /\ \A j \in T \ {BudgetRow} : Parent[j] \in T
  BY <1>1
<1> HIDE DEF T
<1>3. Above[n] \subseteq T
  BY <1>2, AboveLeast
<1> QED
  BY <1>3 DEF T

LEMMA OneAboveInTier ==
  ASSUME NEW n \in Rows, NEW m \in Above[n], NEW k \in Above[n], Tier[m] = Tier[k]
  PROVE  m = k
<1>1. n \in Rows \ {BudgetRow}
  BY AboveBudget
<1>2. /\ Above[n] \subseteq Rows /\ Parent[n] \in Above[n]
      /\ \A j \in Above[n] \ {BudgetRow} : Parent[j] \in Above[n]
  BY <1>1, AboveClosed
<1>3. \A j \in Above[n] : j = Parent[n] \/ \E i \in Above[n] \ {BudgetRow} : j = Parent[i]
  BY <1>1, AboveByChild
<1>4. \A j \in Above[n] : Tier[j] < Tier[n] /\ Tier[j] \in Nat /\ j \in Rows
  BY AboveIsHigher, TierIs
<1> DEFINE S == {j \in Above[n] : \A i \in Above[n] : Tier[i] = Tier[j] => i = j}
<1>5. Parent[n] \in S
  <2>1. ASSUME NEW i \in Above[n], Tier[i] = Tier[Parent[n]] PROVE i = Parent[n]
    <3>1. SUFFICES ASSUME NEW h \in Above[n] \ {BudgetRow}, i = Parent[h] PROVE FALSE
      BY <1>3
    <3>2. Tier[h] = Tier[i] + 1 /\ Tier[n] = Tier[Parent[n]] + 1
      BY <1>1, <1>2, <3>1, TierIs
    <3> QED
      BY <1>4, <2>1, <3>1, <3>2
  <2> QED
    BY <1>2, <2>1
<1>6. ASSUME NEW j \in S \ {BudgetRow} PROVE Parent[j] \in S
  <2>1. Parent[j] \in Above[n] /\ j \in Above[n] /\ j \in Rows
    BY <1>2
  <2>2. ASSUME NEW i \in Above[n], Tier[i] = Tier[Parent[j]] PROVE i = Parent[j]
    <3>1. Tier[j] = Tier[Parent[j]] + 1 /\ Tier[j] < Tier[n] /\ Tier[n] = Tier[Parent[n]] + 1
      BY <1>1, <1>4, <2>1, TierIs
    <3>2. i # Parent[n]
      BY <1>1, <1>4, <2>2, <3>1, <1>2, <2>1
    <3>3. PICK h \in Above[n] \ {BudgetRow} : i = Parent[h]
      BY <1>3, <3>2
    <3>4. Tier[h] = Tier[j]
      BY <1>2, <2>2, <3>1, <3>3, TierIs
    <3>5. h = j
      BY <3>4
    <3> QED
      BY <3>3, <3>5
  <2> QED
    BY <2>1, <2>2
<1>7. S \subseteq Rows
  BY <1>2
<1> HIDE DEF S
<1>8. Above[n] \subseteq S
  BY <1>1, <1>5, <1>6, <1>7, AboveLeast
<1>9. k \in S
  BY <1>8
<1> QED
  BY <1>9 DEF S

-------------------------------------------------------------------------------

(* What is written about an actual counts for n, with the markups mk.       *)
Counts(e, n, mk) ==
  e # Null /\ e.owner \in {n} \cup {m \in mk : MarkupParent[m] = n}

(* Definitions of Actualize, of any figures r, actuals b and markups mk.    *)
InHandOf(n, t) == IF n \in DOMAIN t.tree THEN t.tree[n] ELSE t.mine[n]
FigureOf(n, t, r) == IF n \in DOMAIN t.tree \cup DOMAIN t.mine THEN InHandOf(n, t) ELSE r[n]
ViewOf(t, b) == [x \in Ids |-> IF x \in DOMAIN t.written THEN t.written[x] ELSE b[x]]
OwnOf(n, b, mk) == ValueOf(b, {n} \cup {m \in mk : MarkupParent[m] = n})
OwnIn(n, t, b, mk) == OwnOf(n, ViewOf(t, b), mk \ t.dropped)
DueIn(n, t, r, b, mk) ==
  Sum([c \in Children(n) |-> FigureOf(c, t, r)]) + OwnIn(n, t, b, mk)

-------------------------------------------------------------------------------
(* The invariant. *)

Entry == [owner : Owners \cup {Null}, value : Values]
ParentIn(n) == IF n = BudgetRow THEN {} ELSE {Parent[n]}
RowsAbout(e) == IF e = Null THEN {} ELSE {RowOf(o) : o \in {e.owner} \ {Null}}

(* What a request is about. *)
Requested(op) ==
  /\ op.kind \in {"add", "save", "delete", "markups"}
  /\ op.rows \subseteq Ids /\ op.markups \subseteq Markups
  /\ op.kind \in {"add", "save"} => \A x \in op.rows :
        op.to[x] \in Owners \cup {Null} /\ op.value[x] \in Values
  /\ op.kind \in {"save", "delete"} => \A x \in op.rows :
        op.was[x] \in Entry /\ op.was[x] # Null
  /\ op.kind = "save" /\ op.single => op.columns = {"owner", "value"}
  /\ op.kind = "save" => \A x \in op.rows :
        /\ "owner" \notin op.columns => op.to[x] = op.was[x].owner
        /\ "value" \notin op.columns => op.value[x] = op.was[x].value

(* It knows the actuals as they are, or that their rows were changed. *)
Fetched(t, b) ==
  t.stage = "asked" /\ t.op.kind \in {"save", "delete"} =>
    \A x \in t.op.rows : b[x] # t.op.was[x] =>
      RowsAbout(b[x]) \cup RowsAbout(t.op.was[x]) \subseteq t.overlooked

Fields(t) ==
  t = [stage |-> t.stage, op |-> t.op, written |-> t.written, dropped |-> t.dropped,
       doomed |-> t.doomed, given |-> t.given, left |-> t.left, tiers |-> t.tiers,
       todo |-> t.todo, mine |-> t.mine, unsaved |-> t.unsaved, tree |-> t.tree,
       seen |-> t.seen, overlooked |-> t.overlooked]

Form(t) ==
  /\ Fields(t)
  /\ t.stage \in {"rest", "asked", "climb", "pass"}
  /\ t.stage = "rest" => t = Resting
  /\ t.stage # "rest" => Requested(t.op)
  /\ t.stage = "asked" =>
       t = [Resting EXCEPT !.stage = "asked", !.op = t.op, !.overlooked = t.overlooked]
  /\ t.overlooked \subseteq Rows /\ t.dropped \subseteq Markups
  /\ t.doomed \subseteq Ids
  /\ DOMAIN t.written \subseteq Ids
  /\ \A x \in DOMAIN t.written : t.written[x] \in {Null} \cup Entry
  /\ t.op.kind = "markups" => DOMAIN t.written = {}

(* The rows given that have still to be started from. *)
Pending(t) == {g \in t.left \ DOMAIN t.mine : Tier[g] \in t.tiers}

Reach(S) == {n \in Rows : \E g \in S : n = g \/ n \in Above[g]}

(* Where the routine has come. *)
Climbing(t) ==
  /\ t.tiers \subseteq 0..Cardinality(Rows) /\ DOMAIN t.given \subseteq Rows
  /\ t.left \subseteq DOMAIN t.given /\ Avoids(DOMAIN t.given)
  /\ t.seen \cup t.todo \cup DOMAIN t.mine \cup DOMAIN t.tree \subseteq Reach(DOMAIN t.given)
  /\ DOMAIN t.given \subseteq t.seen \cup t.todo \cup Pending(t)
  /\ t.todo \subseteq DOMAIN t.mine /\ DOMAIN t.mine \subseteq t.todo \cup t.seen
  /\ DOMAIN t.tree \subseteq t.seen /\ DOMAIN t.tree \cap DOMAIN t.mine = {}
  /\ \A m, n \in t.todo : Tier[m] = Tier[n]
  /\ \A n \in t.todo, c \in t.seen : Tier[n] < Tier[c]
  /\ \A g \in Pending(t), c \in t.seen \cup t.todo : Tier[g] < Tier[c]
  /\ t.stage # "pass" => DOMAIN t.mine = {}
  /\ DOMAIN t.mine = t.todo => \A n \in t.todo : Tier[n] \notin t.tiers

(* What it takes for the figures of rows not stored is what will be stored. *)
HandsOver(t) ==
  /\ t.stage # "pass" => \A c \in DOMAIN t.unsaved :
       c \in Subs \cap DOMAIN t.tree /\ t.unsaved[c] = t.tree[c]
  /\ \A n \in t.todo : \A c \in StandIns(n, t.unsaved) :
       /\ c \in Children(n) /\ c \in DOMAIN t.tree \cup DOMAIN t.mine
       /\ t.unsaved[c] = InHandOf(c, t)

(* It has the stored values, or knows that they were changed. *)
Knows(t, r) ==
  /\ \A n \in t.todo : t.mine[n] # r[n] => {n} \cup ParentIn(n) \subseteq t.overlooked
  /\ \A n \in Pending(t) : t.given[n] # r[n] => {n} \cup ParentIn(n) \subseteq t.overlooked

(* Rows it has actualized are right, the others as they were. *)
Right(t, r, b, mk) ==
  /\ \A n \in t.seen \ t.overlooked : FigureOf(n, t, r) = DueIn(n, t, r, b, mk)
  /\ \A n \in Rows \ (t.seen \cup t.overlooked) :
       \A c \in Children(n) :
         (n \in t.todo => c \notin StandIns(n, t.unsaved)) => FigureOf(c, t, r) = r[c]
  /\ \A n \in Rows \ (t.seen \cup t.overlooked \cup DOMAIN t.given) :
       OwnIn(n, t, b, mk) = OwnOf(n, b, mk)

Local(t, r, b, mk) ==
  Form(t) /\ Fetched(t, b) /\ Climbing(t) /\ HandsOver(t) /\ Knows(t, r) /\ Right(t, r, b, mk)

ActualsInv ==
  /\ book \in [Ids -> {Null} \cup Entry] /\ markups \subseteq Markups /\ DOMAIN rec = Rows
  /\ raced \subseteq Rows /\ tx = [w \in Worker |-> tx[w]]
  /\ \A w \in Worker : Local(tx[w], rec, book, markups)
  /\ \A n \in Rows \ raced : rec[n] = Due(n, book, rec)

-------------------------------------------------------------------------------
(* Types, whatever situations there are. *)

(* What a worker has in hand. *)
Figures(t) ==
  /\ t.left \subseteq DOMAIN t.given /\ t.todo \subseteq Rows
  /\ DOMAIN t.given \cup DOMAIN t.mine \cup DOMAIN t.tree \cup DOMAIN t.unsaved \subseteq Rows
  /\ \A f \in {t.given, t.mine, t.tree, t.unsaved} : \A n \in DOMAIN f : f[n] \in Nat

Shapes ==
  /\ book \in [Ids -> {Null} \cup Entry] /\ markups \subseteq Markups
  /\ rec \in [Rows -> Nat] /\ raced \subseteq Rows
  /\ tx = [w \in Worker |-> tx[w]]
  /\ \A w \in Worker : Form(tx[w]) /\ Figures(tx[w])
  /\ \A v, w \in Worker : v # w => DOMAIN tx[v].written \cap DOMAIN tx[w].written = {}

(* What counts, and the sums, whatever they amount to. *)

LEMMA SumOver ==
  ASSUME NEW S, NEW f, NEW g, \A c \in S : f[c] = g[c]
  PROVE  [c \in S |-> f[c]] = [c \in S |-> g[c]]
OBVIOUS

LEMMA CountsRow ==
  ASSUME NEW n \in Rows, NEW mk \in SUBSET Markups, NEW e, Counts(e, n, mk)
  PROVE  n \in RowsAbout(e) /\ e # Null /\ e.owner # Null /\ RowOf(e.owner) = n
<1>1. e # Null /\ (e.owner = n \/ (e.owner \in mk /\ MarkupParent[e.owner] = n))
  BY DEF Counts
<1>2. n \notin Markups /\ n # Null /\ Null \notin Markups
  BY ActualizeAssumption
<1>3. e.owner # Null
  BY <1>1, <1>2
<1>4. RowOf(e.owner) = n
  BY <1>1, <1>2 DEF RowOf
<1> QED
  BY <1>1, <1>3, <1>4 DEF RowsAbout

LEMMA OwnSame ==
  ASSUME NEW n, NEW b1, NEW b2, NEW mk1, NEW mk2,
         \A x \in Ids : \/ ~Counts(b1[x], n, mk1) /\ ~Counts(b2[x], n, mk2)
                        \/ b1[x] = b2[x] /\ (Counts(b1[x], n, mk1) <=> Counts(b2[x], n, mk2))
  PROVE  OwnOf(n, b1, mk1) = OwnOf(n, b2, mk2)
<1> DEFINE O1 == {n} \cup {m \in mk1 : MarkupParent[m] = n}
           O2 == {n} \cup {m \in mk2 : MarkupParent[m] = n}
<1>1. \A e : Counts(e, n, mk1) <=> e # Null /\ e.owner \in O1
  BY DEF Counts
<1>2. \A e : Counts(e, n, mk2) <=> e # Null /\ e.owner \in O2
  BY DEF Counts
<1>3. OwnOf(n, b1, mk1) = ValueOf(b1, O1) /\ OwnOf(n, b2, mk2) = ValueOf(b2, O2)
  BY DEF OwnOf
<1> HIDE DEF O1, O2
<1>4. OwnedBy(b1, O1) = OwnedBy(b2, O2) /\ \A x \in OwnedBy(b1, O1) : b1[x] = b2[x]
  BY <1>1, <1>2 DEF OwnedBy
<1>5. [x \in OwnedBy(b1, O1) |-> b1[x].value] = [x \in OwnedBy(b2, O2) |-> b2[x].value]
  BY <1>4
<1> QED
  BY <1>3, <1>5 DEF ValueOf

LEMMA DueSame ==
  ASSUME NEW n, NEW t1, NEW r1, NEW b1, NEW m1, NEW t2, NEW r2, NEW b2, NEW m2,
         \A c \in Children(n) : FigureOf(c, t1, r1) = FigureOf(c, t2, r2),
         OwnIn(n, t1, b1, m1) = OwnIn(n, t2, b2, m2)
  PROVE  DueIn(n, t1, r1, b1, m1) = DueIn(n, t2, r2, b2, m2)
<1>1. [c \in Children(n) |-> FigureOf(c, t1, r1)] = [c \in Children(n) |-> FigureOf(c, t2, r2)]
  OBVIOUS
<1> QED
  BY <1>1 DEF DueIn

LEMMA ReachUp ==
  ASSUME NEW S \in SUBSET Rows
  PROVE  /\ S \subseteq Reach(S) /\ Reach(S) \subseteq Rows
         /\ \A n \in Reach(S) \ {BudgetRow} : Parent[n] \in Reach(S) /\ \E g \in S : Parent[n] \in Above[g]
<1>1. ASSUME NEW n \in Reach(S) \ {BudgetRow}
      PROVE  Parent[n] \in Reach(S) /\ \E g \in S : Parent[n] \in Above[g]
  <2>1. PICK g \in S : n \in Rows /\ (n = g \/ n \in Above[g])
    BY DEF Reach
  <2>2. g # BudgetRow
    BY <2>1, AboveBudget
  <2>3. Parent[n] \in Above[g]
    BY <2>1, <2>2, AboveClosed
  <2> QED
    BY <2>1, <2>3, RowsAre DEF Reach
<1> QED
  BY <1>1 DEF Reach

LEMMA TierBound ==
  /\ Cardinality(Rows) \in Nat \ {0}
  /\ \A n \in Rows : Tier[n] \in Nat /\ Tier[n] <= Cardinality(Rows)
<1>1. IsFiniteSet(Rows) /\ \A n \in Rows : Above[n] \subseteq Rows /\ Tier[n] = Cardinality(Above[n])
  BY ActualizeAssumption DEF Above, Tier
<1>2. Cardinality(Rows) # 0
  BY <1>1, FS_EmptySet, RowsAre
<1> QED
  BY <1>1, <1>2, TierIs, FS_Subset, FS_CardinalityType

LEMMA ChildTier ==
  ASSUME NEW n, NEW c \in Children(n)
  PROVE  c \in Rows /\ c # BudgetRow /\ Parent[c] = n /\ n \in Rows /\ Tier[c] = Tier[n] + 1 /\ Tier[n] \in Nat
BY ChildrenAre, TierIs, RowsAre

(* Within a table a key is of one row. *)
LEMMA KeyOfOne ==
  ASSUME NEW m \in Rows, NEW n \in Rows, Key[m] = Key[n], Tier[m] = Tier[n]
  PROVE  m = n
<1>1. \/ m = BudgetRow /\ n = BudgetRow
      \/ m \in Accounts /\ n \in Accounts
      \/ m \in Subs /\ n \in Subs
  BY TiersAre, RowsAre
<1> QED
  BY <1>1, ActualizeAssumption

-------------------------------------------------------------------------------
(* The steps of the routine, each of which concerns one worker. *)

(* It starts from the rows given on the lowest tier left. *)
LEMMA StartClimbLocal ==
  ASSUME Avoided = Situations,
         NEW r, NEW b, NEW mk, NEW t, NEW u, Local(t, r, b, mk),
         t.stage = "climb", NEW k \in t.tiers, \A j \in t.tiers : j <= k,
         NEW here, here = {n \in t.left : Tier[n] = k},
         u = [t EXCEPT !.stage = "pass", !.tiers = t.tiers \ {k}, !.todo = here,
                       !.mine = Restrict(t.given, here), !.unsaved = HandedOver(t, k)]
  PROVE  Local(u, r, b, mk)
<1>1. Form(t) /\ Climbing(t) /\ HandsOver(t) /\ Knows(t, r) /\ Right(t, r, b, mk)
  BY DEF Local
<1>2. /\ u.stage = "pass" /\ u.tiers = t.tiers \ {k} /\ u.todo = here
      /\ u.mine = Restrict(t.given, here) /\ u.unsaved = HandedOver(t, k)
      /\ u.op = t.op /\ u.written = t.written /\ u.dropped = t.dropped /\ u.given = t.given
      /\ u.left = t.left /\ u.tree = t.tree /\ u.seen = t.seen /\ u.overlooked = t.overlooked
      /\ u.doomed = t.doomed
  BY <1>1 DEF Form, Fields
<1>3. Form(u)
  <2>1. Fields(u)
    BY <1>1 DEF Form, Fields
  <2> QED
    BY <1>1, <1>2, <2>1 DEF Form
<1>4. Fetched(u, b)
  BY <1>2 DEF Fetched
<1>5. /\ DOMAIN t.given \subseteq Rows /\ t.left \subseteq DOMAIN t.given /\ here \subseteq t.left
      /\ DOMAIN t.mine = {} /\ t.todo = {} /\ DOMAIN u.mine = here
      /\ t.tiers \subseteq 0..Cardinality(Rows) /\ Cardinality(Rows) \in Nat /\ k \in Nat
      /\ \A n \in here : Tier[n] = k /\ u.mine[n] = t.given[n]
  BY <1>1, <1>2, TierBound DEF Climbing, Restrict
<1>6. here \subseteq Pending(t) /\ Pending(t) \subseteq Pending(u) \cup here /\ Pending(u) \subseteq Pending(t)
  BY <1>2, <1>5 DEF Pending
<1>7. \A g \in Pending(t), c \in t.seen : Tier[g] < Tier[c]
  BY <1>1 DEF Climbing
<1>8. \A g \in here : g \in Rows /\ g \in DOMAIN t.given /\ Tier[g] \in Nat
  BY <1>5, TierIs
<1>9. t.seen \subseteq Rows /\ DOMAIN t.tree \subseteq t.seen /\ t.seen \subseteq Reach(DOMAIN t.given)
  BY <1>1, <1>5, ReachUp DEF Climbing
<1>10. here \cap t.seen = {}
  <2> SUFFICES ASSUME NEW g \in here, g \in t.seen PROVE FALSE
    OBVIOUS
  <2>1. g \in Pending(t)
    BY <1>6
  <2>2. Tier[g] < Tier[g]
    BY <1>7, <2>1
  <2> QED
    BY <1>8, <2>2
<1>11. Climbing(u)
  <2>1. /\ u.tiers \subseteq 0..Cardinality(Rows) /\ DOMAIN u.given \subseteq Rows
        /\ u.left \subseteq DOMAIN u.given /\ Avoids(DOMAIN u.given)
    BY <1>1, <1>2 DEF Climbing
  <2>2. u.seen \cup u.todo \cup DOMAIN u.mine \cup DOMAIN u.tree \subseteq Reach(DOMAIN u.given)
    BY <1>2, <1>5, <1>9, ReachUp
  <2>3. DOMAIN u.given \subseteq u.seen \cup u.todo \cup Pending(u)
    BY <1>1, <1>2, <1>5, <1>6 DEF Climbing
  <2>4. \A g \in Pending(u), c \in u.seen \cup u.todo : Tier[g] < Tier[c]
    <3> SUFFICES ASSUME NEW g \in Pending(u), NEW c \in u.seen \cup u.todo
                 PROVE  Tier[g] < Tier[c]
      OBVIOUS
    <3>1. g \in t.left /\ Tier[g] \in t.tiers \ {k}
      BY <1>2 DEF Pending
    <3>2. Tier[g] \in Nat /\ Tier[g] <= k /\ Tier[g] # k
      BY <1>5, <3>1
    <3>3. CASE c \in t.seen
      <4>1. g \in Pending(t)
        BY <1>6
      <4> QED
        BY <1>7, <3>3, <4>1
    <3>4. CASE c \in here
      <4>1. Tier[c] = k
        BY <1>5, <3>4
      <4> QED
        BY <1>5, <3>2, <4>1
    <3> QED
      BY <1>2, <3>3, <3>4
  <2>5. \A n \in u.todo : Tier[n] \notin u.tiers
    BY <1>2, <1>5
  <2> QED
    BY <1>2, <1>5, <1>6, <1>7, <1>9, <1>10, <2>1, <2>2, <2>3, <2>4, <2>5 DEF Climbing
<1>12. HandsOver(u)
  <2> SUFFICES ASSUME NEW n \in here, NEW c \in StandIns(n, u.unsaved)
               PROVE  /\ c \in Children(n) /\ c \in DOMAIN u.tree \cup DOMAIN u.mine
                      /\ u.unsaved[c] = InHandOf(c, u)
    BY <1>2 DEF HandsOver
  <2>1. c \in DOMAIN u.unsaved /\ Key[Parent[c]] = Key[n]
    BY DEF StandIns
  <2>2. CASE k = 0
    <3>1. n = BudgetRow /\ n \in Rows
      BY <1>5, <1>8, <2>2, TiersAre
    <3>2. u.unsaved = Restrict(t.tree, DOMAIN t.tree \cap Accounts)
      BY <1>2, <2>2 DEF HandedOver
    <3>3. c \in Accounts /\ c \in DOMAIN t.tree /\ u.unsaved[c] = t.tree[c]
      BY <2>1, <3>2 DEF Restrict
    <3> QED
      BY <1>2, <3>1, <3>3, RowsAre DEF Children, InHandOf
  <2>3. CASE k # 0
    <3>1. u.unsaved = t.unsaved
      BY <1>2, <2>3 DEF HandedOver
    <3>2. c \in Subs /\ c \in DOMAIN t.tree /\ u.unsaved[c] = t.tree[c]
      BY <1>1, <1>2, <2>1, <3>1 DEF HandsOver
    <3>3. c \in Rows \ {BudgetRow} /\ Parent[c] \in Rows /\ Parent[c] \in Accounts \cup Subs
      BY <3>2, RowsAre
    <3>4. n \in Rows /\ n \in Accounts \cup Subs /\ n \in DOMAIN t.given
      BY <1>5, <1>8, <2>3, TiersAre, RowsAre
    <3>5. n = Parent[c]
      <4>1. CASE n \in Accounts /\ Parent[c] \in Accounts
        BY <2>1, <4>1, ActualizeAssumption
      <4>2. CASE n \in Subs /\ Parent[c] \in Subs
        BY <2>1, <4>2, ActualizeAssumption
      <4>3. CASE n \in Accounts /\ Parent[c] \in Subs
        <5>1. c \in Reach(DOMAIN t.given)
          BY <1>9, <3>2
        <5>2. PICK g \in DOMAIN t.given : Parent[c] \in Above[g]
          BY <1>5, <3>3, <5>1, ReachUp
        <5>3. g \in Rows
          BY <1>5
        <5>4. SameKey(DOMAIN t.given)
          BY <2>1, <3>4, <4>3, <5>2 DEF SameKey
        <5>5. ~SameKey(DOMAIN t.given)
          BY <1>1 DEF Climbing, Avoids, Situations
        <5> QED
          BY <5>4, <5>5
      <4>4. CASE n \in Subs /\ Parent[c] \in Accounts
        <5>1. Tier[n] > 1 /\ Tier[n] < Tier[c]
          BY <1>6, <1>7, <1>9, <3>2, <3>4, <4>4, TiersAre
        <5>2. Tier[c] = Tier[Parent[c]] + 1 /\ Tier[Parent[c]] = 1 /\ Tier[n] \in Nat
          BY <3>3, <3>4, <4>4, TierIs, TiersAre
        <5> QED
          BY <5>1, <5>2
      <4> QED
        BY <3>3, <3>4, <4>1, <4>2, <4>3, <4>4
    <3> QED
      BY <1>2, <3>2, <3>3, <3>5, ChildrenAre DEF InHandOf
  <2> QED
    BY <2>2, <2>3
<1>13. Knows(u, r)
  <2>1. \A n \in Pending(t) : t.given[n] # r[n] => {n} \cup ParentIn(n) \subseteq t.overlooked
    BY <1>1 DEF Knows
  <2>2. \A n \in here : u.mine[n] # r[n] => {n} \cup ParentIn(n) \subseteq t.overlooked
    BY <1>5, <1>6, <2>1
  <2>3. \A n \in Pending(u) : t.given[n] # r[n] => {n} \cup ParentIn(n) \subseteq t.overlooked
    BY <1>6, <2>1
  <2> QED
    BY <1>2, <2>2, <2>3 DEF Knows
<1>14. \A n \in Rows : FigureOf(n, u, r) # FigureOf(n, t, r) =>
          n \in here /\ {n} \cup ParentIn(n) \subseteq t.overlooked
  <2> SUFFICES ASSUME NEW n \in Rows, FigureOf(n, u, r) # FigureOf(n, t, r)
               PROVE  n \in here /\ {n} \cup ParentIn(n) \subseteq t.overlooked
    OBVIOUS
  <2>1. n \in here /\ FigureOf(n, u, r) = t.given[n] /\ FigureOf(n, t, r) = r[n]
    BY <1>2, <1>5, <1>9, <1>10 DEF FigureOf, InHandOf
  <2> QED
    BY <1>1, <1>6, <2>1 DEF Knows
<1>15. \A n, c : c \in Children(n) /\ n \notin t.overlooked => FigureOf(c, u, r) = FigureOf(c, t, r)
  <2> SUFFICES ASSUME NEW n, NEW c \in Children(n), n \notin t.overlooked
               PROVE  FigureOf(c, u, r) = FigureOf(c, t, r)
    OBVIOUS
  <2>1. c \in Rows /\ c # BudgetRow /\ Parent[c] = n
    BY ChildrenAre
  <2> QED
    BY <1>14, <2>1 DEF ParentIn
<1>16. \A n : OwnIn(n, u, b, mk) = OwnIn(n, t, b, mk)
  BY <1>2 DEF OwnIn, ViewOf
<1>17. Right(u, r, b, mk)
  <2>1. ASSUME NEW n \in t.seen \ t.overlooked PROVE FigureOf(n, u, r) = DueIn(n, u, r, b, mk)
    <3>1. FigureOf(n, u, r) = FigureOf(n, t, r)
      BY <1>9, <1>10, <1>14
    <3>2. DueIn(n, u, r, b, mk) = DueIn(n, t, r, b, mk)
      <4>1. \A c \in Children(n) : FigureOf(c, u, r) = FigureOf(c, t, r)
        BY <1>15, <2>1
      <4>2. OwnIn(n, u, b, mk) = OwnIn(n, t, b, mk)
        BY <1>16
      <4>3. [c \in Children(n) |-> FigureOf(c, u, r)] = [c \in Children(n) |-> FigureOf(c, t, r)]
        BY <4>1
      <4> QED
        BY <4>2, <4>3 DEF DueIn
    <3> QED
      BY <1>1, <3>1, <3>2 DEF Right
  <2>2. ASSUME NEW n \in Rows \ (t.seen \cup t.overlooked), NEW c \in Children(n)
        PROVE  FigureOf(c, u, r) = r[c]
    <3>1. FigureOf(c, t, r) = r[c]
      BY <1>1, <1>5 DEF Right
    <3> QED
      BY <1>15, <3>1
  <2>3. \A n \in Rows \ (t.seen \cup t.overlooked \cup DOMAIN t.given) :
           OwnIn(n, u, b, mk) = OwnOf(n, b, mk)
    BY <1>1, <1>16 DEF Right
  <2> QED
    BY <1>2, <2>1, <2>2, <2>3 DEF Right
<1> QED
  BY <1>3, <1>4, <1>11, <1>12, <1>13, <1>17 DEF Local

(* The climb's rows are kept for the end, and its sub-accounts at hand. *)
LEMMA EndClimbLocal ==
  ASSUME NEW r, NEW b, NEW mk, NEW t, NEW u, Local(t, r, b, mk),
         t.stage = "pass", t.todo = {},
         u = [t EXCEPT !.stage = "climb", !.left = t.left \ DOMAIN t.mine,
                       !.unsaved = Restrict(t.mine, DOMAIN t.mine \cap Subs),
                       !.mine = Nothing, !.tree = Merge(t.tree, t.mine)]
  PROVE  Local(u, r, b, mk)
<1>1. Form(t) /\ Climbing(t) /\ HandsOver(t) /\ Knows(t, r) /\ Right(t, r, b, mk)
  BY DEF Local
<1>2. /\ u.stage = "climb" /\ u.tiers = t.tiers /\ u.todo = {} /\ u.mine = Nothing
      /\ u.unsaved = Restrict(t.mine, DOMAIN t.mine \cap Subs)
      /\ u.op = t.op /\ u.written = t.written /\ u.dropped = t.dropped /\ u.given = t.given
      /\ u.left = t.left \ DOMAIN t.mine /\ u.tree = Merge(t.tree, t.mine)
      /\ u.seen = t.seen /\ u.overlooked = t.overlooked /\ u.doomed = t.doomed
  BY <1>1 DEF Form, Fields
<1>3. Form(u)
  <2>1. Fields(u)
    BY <1>1 DEF Form, Fields
  <2> QED
    BY <1>1, <1>2, <2>1 DEF Form
<1>4. Fetched(u, b)
  BY <1>2 DEF Fetched
<1>5. /\ DOMAIN t.mine \subseteq t.seen /\ DOMAIN t.tree \cap DOMAIN t.mine = {}
      /\ DOMAIN u.mine = {} /\ DOMAIN u.tree = DOMAIN t.tree \cup DOMAIN t.mine
      /\ \A n \in DOMAIN t.tree : u.tree[n] = t.tree[n]
      /\ \A n \in DOMAIN t.mine : u.tree[n] = t.mine[n]
  BY <1>1, <1>2 DEF Climbing, Merge, Nothing
<1>6. Pending(u) = Pending(t)
  BY <1>2, <1>5 DEF Pending
<1>7. Climbing(u)
  BY <1>1, <1>2, <1>5, <1>6 DEF Climbing
<1>8. HandsOver(u)
  <2>1. ASSUME NEW c \in DOMAIN u.unsaved
        PROVE  c \in Subs \cap DOMAIN u.tree /\ u.unsaved[c] = u.tree[c]
    <3>1. c \in DOMAIN t.mine /\ c \in Subs /\ u.unsaved[c] = t.mine[c]
      BY <1>2 DEF Restrict
    <3> QED
      BY <1>5, <3>1
  <2> QED
    BY <1>2, <2>1 DEF HandsOver
<1>9. Knows(u, r)
  BY <1>1, <1>2, <1>6 DEF Knows
<1>10. \A n : FigureOf(n, u, r) = FigureOf(n, t, r)
  BY <1>5 DEF FigureOf, InHandOf
<1>11. \A n : OwnIn(n, u, b, mk) = OwnIn(n, t, b, mk)
  BY <1>2 DEF OwnIn, ViewOf
<1>12. Right(u, r, b, mk)
  <2>1. ASSUME NEW n \in t.seen \ t.overlooked PROVE FigureOf(n, u, r) = DueIn(n, u, r, b, mk)
    <3>1. FigureOf(n, t, r) = DueIn(n, t, r, b, mk)
      BY <1>1, <2>1 DEF Right
    <3>2. [c \in Children(n) |-> FigureOf(c, u, r)] = [c \in Children(n) |-> FigureOf(c, t, r)]
      BY <1>10
    <3> QED
      BY <1>10, <1>11, <3>1, <3>2 DEF DueIn
  <2>2. ASSUME NEW n \in Rows \ (t.seen \cup t.overlooked), NEW c \in Children(n)
        PROVE  FigureOf(c, u, r) = r[c]
    <3>1. FigureOf(c, t, r) = r[c]
      BY <1>1 DEF Right
    <3> QED
      BY <1>10, <3>1
  <2>3. \A n \in Rows \ (t.seen \cup t.overlooked \cup DOMAIN t.given) :
           OwnIn(n, u, b, mk) = OwnOf(n, b, mk)
    BY <1>1, <1>11 DEF Right
  <2> QED
    BY <1>2, <2>1, <2>2, <2>3 DEF Right
<1> QED
  BY <1>3, <1>4, <1>7, <1>8, <1>9, <1>12 DEF Local

(* What is actualized from figures as they will be stored is what is due. *)
LEMMA ActualizedIs ==
  ASSUME NEW t, NEW n, StandIns(n, t.unsaved) \subseteq Children(n),
         \A c \in StandIns(n, t.unsaved) : t.unsaved[c] = FigureOf(c, t, rec),
         \A c \in Children(n) \ StandIns(n, t.unsaved) : FigureOf(c, t, rec) = rec[c]
  PROVE  Actualized(n, t) = DueIn(n, t, rec, book, markups)
<1> DEFINE mine == StandIns(n, t.unsaved)
<1>1. View(t) = ViewOf(t, book)
  BY DEF View, ViewOf
<1>2. ValueOf(View(t), {n} \cup MarkupsOf(n, t)) = OwnIn(n, t, book, markups)
  BY <1>1 DEF OwnIn, OwnOf, MarkupsOf
<1>3. [c \in Children(n) \cup mine |-> IF c \in mine THEN t.unsaved[c] ELSE rec[c]]
      = [c \in Children(n) |-> FigureOf(c, t, rec)]
  <2>1. Children(n) \cup mine = Children(n)
    OBVIOUS
  <2> QED
    BY <2>1
<1>4. Actualized(n, t)
      = Sum([c \in Children(n) \cup mine |-> IF c \in mine THEN t.unsaved[c] ELSE rec[c]])
        + ValueOf(View(t), {n} \cup MarkupsOf(n, t))
  BY DEF Actualized
<1> QED
  BY <1>2, <1>3, <1>4 DEF DueIn

(* One pass up the tree: the rows it actualizes are right, or known to be    *)
(* raced, and their parents are next.                                      *)
LEMMA PassLocal ==
  ASSUME Avoided = Situations,
         NEW t, NEW u, Local(t, rec, book, markups), t.stage = "pass",
         NEW new, new = [n \in t.todo |-> Actualized(n, t)],
         NEW altered, altered = {n \in t.todo : new[n] # t.mine[n]},
         NEW next, next = {Parent[n] : n \in altered \ {BudgetRow}},
         NEW kept, kept = IF DOMAIN t.mine = t.todo THEN {} ELSE DOMAIN t.mine,
         u = [t EXCEPT !.todo = next,
                !.mine = [n \in kept \cup altered \cup next |->
                            IF n \in altered THEN new[n]
                            ELSE IF n \in DOMAIN t.mine THEN t.mine[n] ELSE rec[n]],
                !.unsaved = Restrict(new, altered),
                !.seen = t.seen \cup t.todo,
                !.overlooked = t.overlooked \ {n \in t.todo : Current(n, t)}]
  PROVE  Local(u, rec, book, markups)
<1>1. /\ Form(t) /\ Climbing(t) /\ HandsOver(t) /\ Knows(t, rec)
      /\ Right(t, rec, book, markups)
  BY DEF Local
<1>2. /\ u.stage = "pass" /\ u.tiers = t.tiers /\ u.todo = next
      /\ u.mine = [n \in kept \cup altered \cup next |->
                     IF n \in altered THEN new[n]
                     ELSE IF n \in DOMAIN t.mine THEN t.mine[n] ELSE rec[n]]
      /\ u.unsaved = Restrict(new, altered)
      /\ u.op = t.op /\ u.written = t.written /\ u.dropped = t.dropped /\ u.given = t.given
      /\ u.left = t.left /\ u.tree = t.tree /\ u.doomed = t.doomed
      /\ u.seen = t.seen \cup t.todo
      /\ u.overlooked = t.overlooked \ {n \in t.todo : Current(n, t)}
  BY <1>1 DEF Form, Fields
<1>3. Form(u)
  <2>1. Fields(u)
    BY <1>1 DEF Form, Fields
  <2> QED
    BY <1>1, <1>2, <2>1 DEF Form
<1>4. Fetched(u, book)
  BY <1>2 DEF Fetched
(* Where the rows are. *)
<1>5. /\ DOMAIN t.given \subseteq Rows /\ t.left \subseteq DOMAIN t.given
      /\ t.todo \subseteq DOMAIN t.mine /\ DOMAIN t.mine \subseteq t.todo \cup t.seen
      /\ DOMAIN t.tree \subseteq t.seen /\ DOMAIN t.tree \cap DOMAIN t.mine = {}
      /\ t.seen \subseteq Reach(DOMAIN t.given) /\ t.todo \subseteq Reach(DOMAIN t.given)
      /\ t.seen \subseteq Rows /\ t.todo \subseteq Rows /\ altered \subseteq t.todo
      /\ kept \subseteq DOMAIN t.mine /\ DOMAIN u.mine = kept \cup altered \cup next
  BY <1>1, <1>2, ReachUp DEF Climbing
<1>6. \A n \in Rows : Tier[n] \in Nat
  BY TierIs
<1>7. \A n \in next : \E m \in altered : m # BudgetRow /\ n = Parent[m]
  OBVIOUS
<1>8. ASSUME NEW n \in next
      PROVE  /\ n \in Rows /\ n \in Reach(DOMAIN t.given)
             /\ \E g \in DOMAIN t.given : n \in Above[g]
             /\ \A m \in t.todo : Tier[m] = Tier[n] + 1
             /\ \A c \in t.seen : Tier[c] > Tier[n] + 1
  <2>1. PICK m \in altered : m # BudgetRow /\ n = Parent[m]
    BY <1>7
  <2>2. m \in Rows \ {BudgetRow} /\ m \in t.todo /\ m \in Reach(DOMAIN t.given) \ {BudgetRow}
    BY <1>5, <2>1
  <2>3. Tier[m] = Tier[n] + 1 /\ n \in Rows
    BY <2>1, <2>2, TierIs, RowsAre
  <2>4. n \in Reach(DOMAIN t.given) /\ \E g \in DOMAIN t.given : n \in Above[g]
    BY <1>5, <2>1, <2>2, ReachUp
  <2>5. \A i \in t.todo : Tier[i] = Tier[m]
    BY <1>1, <2>2 DEF Climbing
  <2>6. ASSUME NEW c \in t.seen PROVE Tier[c] > Tier[n] + 1
    <3>1. Tier[m] < Tier[c]
      BY <1>1, <2>2 DEF Climbing
    <3>2. Tier[c] \in Nat /\ Tier[n] \in Nat
      BY <1>5, <1>6, <2>3
    <3> QED
      BY <2>3, <3>1, <3>2
  <2> QED
    BY <2>3, <2>4, <2>5, <2>6
<1>9. \A n \in next : n \notin t.todo /\ n \notin t.seen /\ n \notin DOMAIN t.mine /\ n \notin DOMAIN t.tree
  <2> SUFFICES ASSUME NEW n \in next PROVE n \notin t.todo /\ n \notin t.seen
    BY <1>5
  <2>1. Tier[n] \in Nat
    BY <1>6, <1>8
  <2>2. n \notin t.todo
    <3> SUFFICES ASSUME n \in t.todo PROVE FALSE
      OBVIOUS
    <3>1. Tier[n] = Tier[n] + 1
      BY <1>8
    <3> QED
      BY <2>1, <3>1
  <2>3. n \notin t.seen
    <3> SUFFICES ASSUME n \in t.seen PROVE FALSE
      OBVIOUS
    <3>1. Tier[n] > Tier[n] + 1
      BY <1>8
    <3> QED
      BY <2>1, <3>1
  <2> QED
    BY <2>2, <2>3
<1>10. \A n \in t.todo : n \notin t.seen /\ n \notin DOMAIN t.tree
  <2> SUFFICES ASSUME NEW n \in t.todo, n \in t.seen PROVE FALSE
    BY <1>5
  <2>1. Tier[n] < Tier[n]
    BY <1>1 DEF Climbing
  <2> QED
    BY <1>5, <1>6, <2>1
<1>11. /\ \A n \in altered : u.mine[n] = new[n]
       /\ \A n \in next : u.mine[n] = rec[n]
       /\ \A n \in kept \ altered : u.mine[n] = t.mine[n]
  <2>1. \A n \in kept \cup altered \cup next :
          u.mine[n] = IF n \in altered THEN new[n]
                      ELSE IF n \in DOMAIN t.mine THEN t.mine[n] ELSE rec[n]
    BY <1>2
  <2>2. \A n \in next : n \notin altered /\ n \notin DOMAIN t.mine
    BY <1>5, <1>9
  <2>3. kept \subseteq DOMAIN t.mine
    BY <1>5
  <2> QED
    BY <2>1, <2>2, <2>3
<1>12. /\ Pending(u) \subseteq Pending(t) /\ Pending(t) \subseteq Pending(u) \cup next
       /\ \A g \in Pending(t) : g \in Rows /\ g \in DOMAIN t.given /\ g \notin DOMAIN t.mine
       /\ \A g \in Pending(t), c \in t.seen \cup t.todo : Tier[g] < Tier[c]
       /\ \A g \in Pending(u) : g \notin next
  <2>1. DOMAIN t.mine \subseteq t.seen \cup t.todo
    BY <1>5
  <2>2. \A g \in Pending(t), c \in t.seen \cup t.todo : Tier[g] < Tier[c]
    BY <1>1 DEF Climbing
  <2>3. \A g \in Pending(t) : g \in Rows /\ g \in DOMAIN t.given /\ g \notin DOMAIN t.mine
    BY <1>5 DEF Pending
  <2>4. ASSUME NEW g \in Pending(u) PROVE g \in Pending(t) /\ g \notin next
    <3>1. g \in t.left /\ g \notin DOMAIN u.mine /\ Tier[g] \in t.tiers
      BY <1>2 DEF Pending
    <3>2. g \in Rows /\ g \notin next /\ g \in DOMAIN t.given
      BY <1>5, <3>1
    <3>3. g \notin DOMAIN t.mine
      <4> SUFFICES ASSUME g \in DOMAIN t.mine PROVE FALSE
        OBVIOUS
      <4>1. DOMAIN t.mine = t.todo /\ g \in t.todo
        BY <1>5, <3>1
      <4> QED
        BY <1>1, <3>1, <4>1 DEF Climbing
    <3> QED
      BY <3>1, <3>2, <3>3 DEF Pending
  <2>5. ASSUME NEW g \in Pending(t) PROVE g \in Pending(u) \cup next
    <3>1. g \in t.left /\ g \notin DOMAIN t.mine /\ Tier[g] \in t.tiers
      BY DEF Pending
    <3>2. g \notin next => g \notin DOMAIN u.mine
      BY <1>5, <3>1
    <3> QED
      BY <1>2, <3>1, <3>2 DEF Pending
  <2> QED
    BY <2>2, <2>3, <2>4, <2>5
<1>13. ASSUME NEW g \in Pending(u), NEW c \in u.seen \cup u.todo
       PROVE  Tier[g] < Tier[c]
  <2>1. g \in Pending(t) /\ g \notin next /\ g \in Rows /\ g \in DOMAIN t.given
    BY <1>12
  <2>2. CASE c \in t.seen \cup t.todo
    BY <1>12, <2>1, <2>2
  <2>3. CASE c \in next
    <3>1. PICK i \in DOMAIN t.given : c \in Above[i]
      BY <1>8, <2>3
    <3>2. PICK m \in altered : m # BudgetRow /\ c = Parent[m]
      BY <1>7, <2>3
    <3>3. m \in t.todo /\ Tier[m] = Tier[c] + 1 /\ Tier[g] < Tier[m]
      BY <1>5, <1>8, <1>12, <2>1, <2>3, <3>2
    <3>4. c \in Rows /\ i \in Rows /\ Tier[c] < Tier[i]
      BY <1>5, <3>1, AboveIsHigher
    <3>5. Tier[c] \in Nat /\ Tier[g] \in Nat /\ Tier[i] \in Nat /\ Tier[g] <= Tier[c]
      BY <1>6, <2>1, <3>3, <3>4
    <3>6. Tier[g] # Tier[c]
      <4> SUFFICES ASSUME Tier[g] = Tier[c] PROVE FALSE
        OBVIOUS
      <4>1. g \notin Above[i]
        BY <2>1, <2>3, <3>1, <3>4, OneAboveInTier
      <4>2. MixedLevels(DOMAIN t.given)
        BY <2>1, <3>4, <4>1 DEF MixedLevels
      <4> QED
        BY <1>1, <4>2 DEF Climbing, Avoids, Situations
    <3> QED
      BY <3>5, <3>6
  <2> QED
    BY <1>2, <2>2, <2>3
<1>14. Climbing(u)
  <2>1. /\ u.tiers \subseteq 0..Cardinality(Rows) /\ DOMAIN u.given \subseteq Rows
        /\ u.left \subseteq DOMAIN u.given /\ Avoids(DOMAIN u.given)
    BY <1>1, <1>2 DEF Climbing
  <2>2. u.seen \cup u.todo \cup DOMAIN u.mine \cup DOMAIN u.tree \subseteq Reach(DOMAIN u.given)
    BY <1>2, <1>5, <1>8
  <2>3. DOMAIN u.given \subseteq u.seen \cup u.todo \cup Pending(u)
    BY <1>1, <1>2, <1>12 DEF Climbing
  <2>4. u.todo \subseteq DOMAIN u.mine /\ DOMAIN u.mine \subseteq u.todo \cup u.seen
    BY <1>2, <1>5
  <2>5. DOMAIN u.tree \subseteq u.seen /\ DOMAIN u.tree \cap DOMAIN u.mine = {}
    BY <1>2, <1>5, <1>9
  <2>6. \A m, n \in u.todo : Tier[m] = Tier[n]
    <3> SUFFICES ASSUME NEW m \in next, NEW n \in next PROVE Tier[m] = Tier[n]
      BY <1>2
    <3>1. PICK i \in altered : i # BudgetRow /\ m = Parent[i]
      BY <1>7
    <3>2. Tier[i] = Tier[m] + 1 /\ Tier[i] = Tier[n] + 1
      BY <1>5, <1>8, <3>1
    <3>3. Tier[m] \in Nat /\ Tier[n] \in Nat
      BY <1>6, <1>8
    <3> QED
      BY <3>2, <3>3
  <2>7. \A n \in u.todo, c \in u.seen : Tier[n] < Tier[c]
    <3> SUFFICES ASSUME NEW n \in next, NEW c \in u.seen PROVE Tier[n] < Tier[c]
      BY <1>2
    <3>1. Tier[n] \in Nat /\ Tier[c] \in Nat
      BY <1>2, <1>5, <1>6, <1>8
    <3>2. c \in t.seen => Tier[c] > Tier[n] + 1
      BY <1>8
    <3>3. c \in t.todo => Tier[c] = Tier[n] + 1
      BY <1>8
    <3> QED
      BY <1>2, <3>1, <3>2, <3>3
  <2>8. u.stage # "pass" => DOMAIN u.mine = {}
    BY <1>2
  <2>9. DOMAIN u.mine = u.todo => \A n \in u.todo : Tier[n] \notin u.tiers
    <3>1. DOMAIN u.mine = u.todo => altered = {}
      BY <1>2, <1>5, <1>9
    <3> QED
      BY <1>2, <1>7, <3>1
  <2> QED
    BY <1>13, <2>1, <2>2, <2>3, <2>4, <2>5, <2>6, <2>7, <2>8, <2>9 DEF Climbing
<1>15. HandsOver(u)
  <2> SUFFICES ASSUME NEW n \in next, NEW c \in StandIns(n, u.unsaved)
               PROVE  /\ c \in Children(n) /\ c \in DOMAIN u.tree \cup DOMAIN u.mine
                      /\ u.unsaved[c] = InHandOf(c, u)
    BY <1>2 DEF HandsOver
  <2>1. c \in altered /\ Key[Parent[c]] = Key[n] /\ u.unsaved[c] = new[c]
    BY <1>2 DEF StandIns, Restrict
  <2>2. c \in Rows /\ n \in Rows /\ Tier[c] = Tier[n] + 1 /\ Tier[c] \in Nat /\ Tier[n] \in Nat
    BY <1>5, <1>6, <1>8, <2>1
  <2>3. c # BudgetRow
    BY <2>2, TierIs
  <2>4. Parent[c] \in Rows /\ Tier[c] = Tier[Parent[c]] + 1 /\ Tier[Parent[c]] \in Nat
    BY <2>2, <2>3, TierIs, RowsAre
  <2>5. Parent[c] = n
    BY <2>1, <2>2, <2>4, KeyOfOne
  <2>6. c \notin DOMAIN u.tree /\ c \in DOMAIN u.mine /\ u.mine[c] = new[c]
    BY <1>2, <1>5, <1>10, <1>11, <2>1
  <2> QED
    BY <2>1, <2>2, <2>3, <2>5, <2>6, ChildrenAre DEF InHandOf
<1>16. Knows(u, rec)
  <2>1. \A n \in next : u.mine[n] = rec[n]
    BY <1>11
  <2>2. ASSUME NEW n \in Pending(u), t.given[n] # rec[n]
        PROVE  {n} \cup ParentIn(n) \subseteq u.overlooked
    <3>1. n \in Pending(t) /\ n \in Rows
      BY <1>12
    <3>2. {n} \cup ParentIn(n) \subseteq t.overlooked
      BY <1>1, <2>2, <3>1 DEF Knows
    <3>3. ASSUME NEW i \in {n} \cup ParentIn(n) PROVE i \notin t.todo
      <4> SUFFICES ASSUME i \in t.todo PROVE FALSE
        OBVIOUS
      <4>1. Tier[n] < Tier[i]
        BY <1>12, <3>1
      <4>2. i = n \/ (n # BudgetRow /\ i = Parent[n])
        BY <3>3 DEF ParentIn
      <4> QED
        BY <3>1, <4>1, <4>2, TierIs, RowsAre
    <3> QED
      BY <1>2, <3>2, <3>3
  <2>3. \A n \in u.todo : u.mine[n] = rec[n]
    BY <1>2, <2>1
  <2>4. \A n \in Pending(u) : u.given[n] # rec[n] => {n} \cup ParentIn(n) \subseteq u.overlooked
    <3>1. u.given = t.given
      BY <1>2
    <3> QED
      BY <2>2, <3>1
  <2> QED
    BY <2>3, <2>4 DEF Knows
(* The figures before and after. *)
<1>17. \A n \in Rows : n \notin t.todo /\ n \notin next => FigureOf(n, u, rec) = FigureOf(n, t, rec)
  <2> SUFFICES ASSUME NEW n \in Rows, n \notin t.todo, n \notin next
               PROVE  FigureOf(n, u, rec) = FigureOf(n, t, rec)
    OBVIOUS
  <2>1. CASE n \in DOMAIN t.mine
    <3>1. n \in kept /\ n \notin altered /\ n \notin DOMAIN t.tree /\ u.tree = t.tree
      BY <1>2, <1>5, <2>1
    <3>2. n \in DOMAIN u.mine /\ u.mine[n] = t.mine[n]
      BY <1>5, <1>11, <3>1
    <3> QED
      BY <2>1, <3>1, <3>2 DEF FigureOf, InHandOf
  <2>2. CASE n \notin DOMAIN t.mine
    <3>1. n \notin DOMAIN u.mine /\ u.tree = t.tree
      BY <1>2, <1>5, <2>2
    <3>2. CASE n \in DOMAIN t.tree
      BY <3>1, <3>2 DEF FigureOf, InHandOf
    <3>3. CASE n \notin DOMAIN t.tree
      BY <2>2, <3>1, <3>3 DEF FigureOf
    <3> QED
      BY <3>2, <3>3
  <2> QED
    BY <2>1, <2>2
<1>18. \A n \in next : FigureOf(n, u, rec) = rec[n]
  BY <1>2, <1>5, <1>9, <1>11 DEF FigureOf, InHandOf
<1>19. \A n \in altered : FigureOf(n, u, rec) = new[n]
  BY <1>2, <1>5, <1>10, <1>11 DEF FigureOf, InHandOf
<1>20. \A n \in t.todo \ altered :
         \/ n \in kept /\ FigureOf(n, u, rec) = t.mine[n] /\ FigureOf(n, t, rec) = t.mine[n]
         \/ FigureOf(n, u, rec) = rec[n]
  <2> SUFFICES ASSUME NEW n \in t.todo, n \notin altered
               PROVE  \/ n \in kept /\ FigureOf(n, u, rec) = t.mine[n] /\ FigureOf(n, t, rec) = t.mine[n]
                      \/ FigureOf(n, u, rec) = rec[n]
    OBVIOUS
  <2>1. n \notin DOMAIN t.tree /\ n \notin next /\ n \in DOMAIN t.mine
    BY <1>5, <1>9, <1>10
  <2> QED
    BY <1>2, <1>5, <1>11, <2>1 DEF FigureOf, InHandOf
<1>21. \A n : OwnIn(n, u, book, markups) = OwnIn(n, t, book, markups)
  BY <1>2 DEF OwnIn, ViewOf
<1>22. ASSUME NEW n \in t.seen \cup t.todo
       PROVE  DueIn(n, u, rec, book, markups) = DueIn(n, t, rec, book, markups)
  <2>1. ASSUME NEW c \in Children(n) PROVE FigureOf(c, u, rec) = FigureOf(c, t, rec)
    <3>1. c \in Rows /\ Tier[c] = Tier[n] + 1 /\ Tier[n] \in Nat /\ Tier[c] \in Nat
      BY <1>6, ChildTier
    <3>2. c \notin t.todo
      <4> SUFFICES ASSUME c \in t.todo PROVE FALSE
        OBVIOUS
      <4>1. n \in t.todo => Tier[n] = Tier[c]
        BY <1>1 DEF Climbing
      <4>2. n \in t.seen => Tier[c] < Tier[n]
        BY <1>1 DEF Climbing
      <4> QED
        BY <3>1, <4>1, <4>2
    <3>3. c \notin next
      <4> SUFFICES ASSUME c \in next PROVE FALSE
        OBVIOUS
      <4>1. n \in t.todo => Tier[n] = Tier[c] + 1
        BY <1>8
      <4>2. n \in t.seen => Tier[n] > Tier[c] + 1
        BY <1>8
      <4> QED
        BY <3>1, <4>1, <4>2
    <3> QED
      BY <1>17, <3>1, <3>2, <3>3
  <2>2. [c \in Children(n) |-> FigureOf(c, u, rec)] = [c \in Children(n) |-> FigureOf(c, t, rec)]
    BY <2>1
  <2>3. OwnIn(n, u, book, markups) = OwnIn(n, t, book, markups)
    BY <1>21
  <2> QED
    BY <2>2, <2>3 DEF DueIn
<1>23. ASSUME NEW n \in t.todo, n \notin t.overlooked \/ Current(n, t)
       PROVE  new[n] = DueIn(n, t, rec, book, markups) /\ t.mine[n] = rec[n]
  <2>1. n \in Rows /\ n \notin t.seen /\ new[n] = Actualized(n, t)
    BY <1>5, <1>10
  <2>2. \A c \in StandIns(n, t.unsaved) :
          /\ c \in Children(n) /\ c \in DOMAIN t.tree \cup DOMAIN t.mine
          /\ t.unsaved[c] = InHandOf(c, t)
    BY <1>1, <1>23 DEF HandsOver
  <2>3. \A c \in StandIns(n, t.unsaved) : t.unsaved[c] = FigureOf(c, t, rec)
    BY <2>2 DEF FigureOf
  <2>4. \A c \in Children(n) \ StandIns(n, t.unsaved) : FigureOf(c, t, rec) = rec[c]
    <3>1. CASE n \notin t.overlooked
      BY <1>1, <2>1, <3>1 DEF Right
    <3>2. CASE Current(n, t)
      BY <3>2 DEF Current, Figure, FigureOf, InHandOf
    <3> QED
      BY <1>23, <3>1, <3>2
  <2>5. t.mine[n] = rec[n]
    <3>1. CASE n \notin t.overlooked
      BY <1>1, <3>1 DEF Knows
    <3>2. CASE Current(n, t)
      BY <3>2 DEF Current
    <3> QED
      BY <1>23, <3>1, <3>2
  <2>6. StandIns(n, t.unsaved) \subseteq Children(n)
    BY <2>2
  <2>7. Actualized(n, t) = DueIn(n, t, rec, book, markups)
    BY <2>3, <2>4, <2>6, ActualizedIs
  <2> QED
    BY <2>1, <2>5, <2>7
<1>24. ASSUME NEW n \in u.seen \ u.overlooked
       PROVE  FigureOf(n, u, rec) = DueIn(n, u, rec, book, markups)
  <2>1. CASE n \in t.todo
    <3>1. n \notin t.overlooked \/ Current(n, t)
      BY <1>2, <1>24, <2>1
    <3>2. new[n] = DueIn(n, u, rec, book, markups) /\ t.mine[n] = rec[n]
      BY <1>22, <1>23, <2>1, <3>1
    <3>3. FigureOf(n, u, rec) = new[n]
      <4>1. CASE n \in altered
        BY <1>19, <4>1
      <4>2. CASE n \notin altered
        <5>1. new[n] = t.mine[n]
          BY <2>1, <4>2
        <5> QED
          BY <1>20, <2>1, <3>2, <4>2, <5>1
      <4> QED
        BY <4>1, <4>2
    <3> QED
      BY <3>2, <3>3
  <2>2. CASE n \in t.seen /\ n \notin t.todo
    <3>1. n \notin t.overlooked
      BY <1>2, <1>24, <2>2
    <3>2. FigureOf(n, t, rec) = DueIn(n, t, rec, book, markups)
      BY <1>1, <2>2, <3>1 DEF Right
    <3>3. FigureOf(n, u, rec) = FigureOf(n, t, rec)
      BY <1>5, <1>9, <1>17, <2>2
    <3> QED
      BY <1>22, <2>2, <3>2, <3>3
  <2> QED
    BY <1>2, <1>24, <2>1, <2>2
<1>25. ASSUME NEW n \in Rows \ (u.seen \cup u.overlooked), NEW c \in Children(n),
              n \in u.todo => c \notin StandIns(n, u.unsaved)
       PROVE  FigureOf(c, u, rec) = rec[c]
  <2>1. n \notin t.todo /\ n \notin t.seen /\ n \notin t.overlooked
    BY <1>2, <1>25
  <2>2. FigureOf(c, t, rec) = rec[c]
    BY <1>1, <2>1 DEF Right
  <2>3. c \in Rows /\ c # BudgetRow /\ Parent[c] = n
    BY ChildrenAre
  <2>4. c \notin altered
    <3> SUFFICES ASSUME c \in altered PROVE FALSE
      OBVIOUS
    <3>1. n \in next
      BY <2>3
    <3>2. c \in StandIns(n, u.unsaved)
      BY <1>2, <1>5, <2>3 DEF StandIns, Restrict
    <3> QED
      BY <1>2, <1>25, <3>1, <3>2
  <2>5. c \in t.todo => FigureOf(c, u, rec) = rec[c]
    BY <1>20, <2>2, <2>4
  <2>6. c \in next => FigureOf(c, u, rec) = rec[c]
    BY <1>18
  <2> QED
    BY <1>17, <2>2, <2>3, <2>5, <2>6
<1>26. ASSUME NEW n \in Rows \ (u.seen \cup u.overlooked \cup DOMAIN u.given)
       PROVE  OwnIn(n, u, book, markups) = OwnOf(n, book, markups)
  <2>1. n \notin t.seen /\ n \notin t.overlooked /\ n \notin DOMAIN t.given
    BY <1>2, <1>26
  <2>2. OwnIn(n, t, book, markups) = OwnOf(n, book, markups)
    BY <1>1, <2>1 DEF Right
  <2> QED
    BY <1>21, <2>2
<1>27. Right(u, rec, book, markups)
  BY <1>24, <1>25, <1>26 DEF Right
<1> QED
  BY <1>3, <1>4, <1>14, <1>15, <1>16, <1>27 DEF Local

-------------------------------------------------------------------------------
(* The steps before and after the routine. *)

LEMMA ViewOfSame ==
  ASSUME NEW b, NEW S, b \in [Ids -> S], NEW t, DOMAIN t.written = {}
  PROVE  ViewOf(t, b) = b
BY DEF ViewOf

LEMMA NothingInHand ==
  ASSUME NEW t, DOMAIN t.mine = {}, DOMAIN t.tree = {}
  PROVE  \A n, r : FigureOf(n, t, r) = r[n]
BY DEF FigureOf

(* A worker at rest, or that has just looked up what its request is about. *)
LEMMA IdleLocal ==
  ASSUME NEW r, NEW S, NEW b \in [Ids -> S], NEW mk, NEW t,
         Form(t), Fetched(t, b), t.stage \in {"rest", "asked"}
  PROVE  Local(t, r, b, mk)
<1>1. /\ t.written = [x \in {} |-> Null] /\ t.dropped = {} /\ t.given = Nothing /\ t.left = {}
      /\ t.tiers = {} /\ t.todo = {} /\ t.mine = Nothing /\ t.unsaved = Nothing /\ t.tree = Nothing
      /\ t.seen = {}
  <2>1. CASE t.stage = "rest"
    <3>1. t = Resting
      BY <2>1 DEF Form
    <3> QED
      BY <3>1 DEF Resting
  <2>2. CASE t.stage = "asked"
    <3>1. t = [Resting EXCEPT !.stage = "asked", !.op = t.op, !.overlooked = t.overlooked]
      BY <2>2 DEF Form
    <3> QED
      BY <3>1 DEF Resting
  <2> QED
    BY <2>1, <2>2
<1>2. DOMAIN Nothing = {} /\ DOMAIN t.written = {}
  BY <1>1 DEF Nothing
<1>3. Pending(t) = {}
  BY <1>1 DEF Pending
<1>4. Climbing(t)
  <2>1. Avoids(DOMAIN t.given)
    BY <1>1, <1>2 DEF Avoids, MixedLevels, SameKey
  <2> QED
    BY <1>1, <1>2, <1>3, <2>1 DEF Climbing
<1>5. HandsOver(t) /\ Knows(t, r)
  BY <1>1, <1>2, <1>3 DEF HandsOver, Knows
<1>6. \A n : FigureOf(n, t, r) = r[n]
  BY <1>1, <1>2, NothingInHand
<1>7. \A n : OwnIn(n, t, b, mk) = OwnOf(n, b, mk)
  <2>1. ViewOf(t, b) = b
    BY <1>2, ViewOfSame
  <2>2. mk \ t.dropped = mk
    BY <1>1
  <2> QED
    BY <2>1, <2>2 DEF OwnIn
<1>8. Right(t, r, b, mk)
  BY <1>1, <1>6, <1>7 DEF Right
<1> QED
  BY <1>4, <1>5, <1>8 DEF Local

LEMMA RestLocal ==
  ASSUME NEW r, NEW S, NEW b \in [Ids -> S], NEW mk
  PROVE  Local(Resting, r, b, mk)
<1>1. Resting.stage = "rest" /\ Resting.overlooked = {} /\ Resting.dropped = {} /\ Resting.doomed = {}
      /\ Resting.written = [x \in {} |-> Null] /\ DOMAIN Resting.written = {} /\ Fields(Resting)
  BY DEF Resting, Fields
<1>2. Form(Resting)
  BY <1>1 DEF Form
<1>3. Fetched(Resting, b)
  BY <1>1 DEF Fetched
<1> QED
  BY <1>1, <1>2, <1>3, IdleLocal

(* The rows of the owners of what was written are given to the routine.    *)
LEMMA StartLocal ==
  ASSUME NEW S, NEW b \in [Ids -> S], NEW mk, NEW t, NEW u, Local(t, rec, b, mk),
         t.stage = "asked", NEW given \in SUBSET Rows, Avoids(given), DOMAIN rec = Rows,
         Fields(u), u.stage = "climb", u.op = t.op, u.overlooked = t.overlooked,
         u.given = Restrict(rec, given), u.left = given,
         u.tiers = {Tier[n] : n \in given \cap Subs} \cup {0, 1},
         u.todo = t.todo, u.mine = t.mine, u.unsaved = t.unsaved, u.tree = t.tree,
         u.seen = t.seen, DOMAIN u.written \subseteq Ids, u.dropped \subseteq Markups,
         u.doomed \subseteq Ids,
         \A x \in DOMAIN u.written : u.written[x] \in {Null} \cup Entry,
         u.op.kind = "markups" => DOMAIN u.written = {},
         \A n \in Rows \ (given \cup u.overlooked) : OwnIn(n, u, b, mk) = OwnOf(n, b, mk)
  PROVE  Local(u, rec, b, mk)
<1>1. Form(t)
  BY DEF Local
<1>2. /\ u.todo = {} /\ u.mine = Nothing /\ u.unsaved = Nothing /\ u.tree = Nothing /\ u.seen = {}
  BY <1>1 DEF Form, Resting
<1>3. DOMAIN u.mine = {} /\ DOMAIN u.tree = {} /\ DOMAIN u.unsaved = {}
  BY <1>2 DEF Nothing
<1>4. DOMAIN u.given = given /\ \A n \in given : u.given[n] = rec[n]
  BY DEF Restrict
<1>5. Form(u)
  BY <1>1 DEF Form
<1>6. Fetched(u, b)
  BY DEF Fetched
<1>7. Climbing(u)
  <2>1. u.tiers \subseteq 0..Cardinality(Rows)
    <3>1. \A n \in given : Tier[n] \in 0..Cardinality(Rows)
      BY TierBound
    <3>2. {0, 1} \subseteq 0..Cardinality(Rows)
      BY TierBound
    <3> QED
      BY <3>1, <3>2
  <2>2. ASSUME NEW g \in given PROVE g \in Pending(u)
    <3>1. Tier[g] \in u.tiers
      <4>1. g \in Subs => Tier[g] \in u.tiers
        OBVIOUS
      <4>2. g \notin Subs => Tier[g] \in {0, 1}
        BY TiersAre, RowsAre
      <4> QED
        BY <4>1, <4>2
    <3> QED
      BY <1>3, <3>1 DEF Pending
  <2> QED
    BY <1>2, <1>3, <1>4, <2>1, <2>2 DEF Climbing
<1>8. HandsOver(u)
  BY <1>2, <1>3 DEF HandsOver
<1>9. Knows(u, rec)
  BY <1>2, <1>4 DEF Knows, Pending
<1>10. Right(u, rec, b, mk)
  <2>1. \A n : FigureOf(n, u, rec) = rec[n]
    BY <1>3, NothingInHand
  <2> QED
    BY <1>2, <1>4, <2>1 DEF Right
<1> QED
  BY <1>5, <1>6, <1>7, <1>8, <1>9, <1>10 DEF Local

-------------------------------------------------------------------------------
(* The end of a transaction. *)

(* Nothing about a row changes when no actual does that is about it.        *)
LEMMA OwnElsewhere ==
  ASSUME NEW n \in Rows, NEW b1, NEW b2, NEW mk1 \in SUBSET Markups, NEW mk2 \in SUBSET mk1,
         \A x \in Ids : b1[x] = b2[x] \/ n \notin RowsAbout(b1[x]) \cup RowsAbout(b2[x]),
         \A m \in mk1 \ mk2 : MarkupParent[m] # n
  PROVE  OwnOf(n, b1, mk1) = OwnOf(n, b2, mk2)
<1>1. \A e : Counts(e, n, mk1) <=> Counts(e, n, mk2)
  BY DEF Counts
<1>2. ASSUME NEW x \in Ids, b1[x] # b2[x]
      PROVE  ~Counts(b1[x], n, mk1) /\ ~Counts(b2[x], n, mk2)
  <2>1. n \notin RowsAbout(b1[x]) /\ n \notin RowsAbout(b2[x])
    BY <1>2
  <2>2. mk2 \in SUBSET Markups
    OBVIOUS
  <2>3. Counts(b1[x], n, mk1) => n \in RowsAbout(b1[x])
    BY CountsRow
  <2>4. Counts(b2[x], n, mk2) => n \in RowsAbout(b2[x])
    BY <2>2, CountsRow
  <2> QED
    BY <2>1, <2>3, <2>4
<1>3. \A x \in Ids : \/ ~Counts(b1[x], n, mk1) /\ ~Counts(b2[x], n, mk2)
                     \/ b1[x] = b2[x] /\ (Counts(b1[x], n, mk1) <=> Counts(b2[x], n, mk2))
  BY <1>1, <1>2
<1> QED
  BY <1>3, OwnSame

(* Another's commit concerns the rows of T only.                            *)
Concerns(T, r, b, mk, r2, b2, mk2) ==
  /\ T \subseteq Rows /\ mk \subseteq Markups /\ mk2 \subseteq mk
  /\ \A n \in Rows : r2[n] # r[n] => {n} \cup ParentIn(n) \subseteq T
  /\ \A x \in Ids : b2[x] # b[x] => RowsAbout(b[x]) \cup RowsAbout(b2[x]) \subseteq T
  /\ \A m \in mk \ mk2 : MarkupParent[m] \in T

(* Only the last value of a field counts.                                   *)
LEMMA OverlookedAnew ==
  ASSUME NEW f, NEW op, NEW o, NEW y
  PROVE  [[f EXCEPT !.stage = "asked", !.op = op, !.overlooked = o] EXCEPT !.overlooked = y]
           = [f EXCEPT !.stage = "asked", !.op = op, !.overlooked = y]
OBVIOUS

(* A request under way, told of these, still knows what it must.            *)
LEMMA OtherLocal ==
  ASSUME NEW r, NEW b, NEW mk, NEW t, Local(t, r, b, mk), t.stage # "rest",
         NEW r2, NEW b2, NEW mk2, NEW T, Concerns(T, r, b, mk, r2, b2, mk2)
  PROVE  Local([t EXCEPT !.overlooked = t.overlooked \cup T], r2, b2, mk2)
<1> DEFINE u == [t EXCEPT !.overlooked = t.overlooked \cup T]
<1>0. /\ T \in SUBSET Rows /\ mk \in SUBSET Markups /\ mk2 \in SUBSET mk
      /\ \A n \in Rows : r2[n] # r[n] => {n} \cup ParentIn(n) \subseteq T
      /\ \A x \in Ids : b2[x] # b[x] => RowsAbout(b[x]) \cup RowsAbout(b2[x]) \subseteq T
      /\ \A m \in mk \ mk2 : MarkupParent[m] \in T
  BY DEF Concerns
<1>1. Form(t) /\ Fetched(t, b) /\ Climbing(t) /\ HandsOver(t) /\ Knows(t, r) /\ Right(t, r, b, mk)
  BY DEF Local
<1>2. /\ u.stage = t.stage /\ u.op = t.op /\ u.written = t.written /\ u.dropped = t.dropped
      /\ u.given = t.given /\ u.left = t.left /\ u.tiers = t.tiers /\ u.todo = t.todo
      /\ u.mine = t.mine /\ u.unsaved = t.unsaved /\ u.tree = t.tree /\ u.seen = t.seen
      /\ u.doomed = t.doomed /\ u.overlooked = t.overlooked \cup T
  BY <1>1 DEF Form, Fields
<1>3. Form(u)
  <2>1. Fields(u)
    BY <1>1 DEF Form, Fields
  <2>2. t.stage = "asked" =>
          u = [Resting EXCEPT !.stage = "asked", !.op = u.op, !.overlooked = u.overlooked]
    <3> SUFFICES ASSUME t.stage = "asked"
                 PROVE u = [Resting EXCEPT !.stage = "asked", !.op = u.op, !.overlooked = u.overlooked]
      OBVIOUS
    <3> PICK op, o, y : op = t.op /\ o = t.overlooked /\ y = t.overlooked \cup T
      OBVIOUS
    <3>1. t = [Resting EXCEPT !.stage = "asked", !.op = op, !.overlooked = o]
      BY <1>1 DEF Form
    <3>2. u = [t EXCEPT !.overlooked = y]  OBVIOUS
    <3>3. u.op = op /\ u.overlooked = y  BY <1>2
    <3> HIDE DEF u
    <3>4. u = [Resting EXCEPT !.stage = "asked", !.op = op, !.overlooked = y]
      BY <3>1, <3>2, OverlookedAnew
    <3> QED  BY <3>3, <3>4
  <2> HIDE DEF u
  <2> QED
    BY <1>0, <1>1, <1>2, <2>1, <2>2 DEF Form
<1> HIDE DEF u
<1>4. Fetched(u, b2)
  <2> SUFFICES ASSUME t.stage = "asked", t.op.kind \in {"save", "delete"},
                      NEW x \in t.op.rows, b2[x] # t.op.was[x]
               PROVE  RowsAbout(b2[x]) \cup RowsAbout(t.op.was[x]) \subseteq t.overlooked \cup T
    BY <1>2 DEF Fetched
  <2>1. x \in Ids
    BY <1>1 DEF Form, Requested
  <2>2. b[x] # t.op.was[x] => RowsAbout(b[x]) \cup RowsAbout(t.op.was[x]) \subseteq t.overlooked
    BY <1>1 DEF Fetched
  <2>3. b2[x] # b[x] => RowsAbout(b[x]) \cup RowsAbout(b2[x]) \subseteq T
    BY <1>0, <2>1
  <2>4. CASE b2[x] = b[x]
    BY <2>2, <2>4
  <2>5. CASE b2[x] # b[x] /\ b[x] = t.op.was[x]
    BY <2>3, <2>5
  <2>6. CASE b2[x] # b[x] /\ b[x] # t.op.was[x]
    BY <2>2, <2>3, <2>6
  <2> QED
    BY <2>4, <2>5, <2>6
<1>5. Pending(u) = Pending(t)
  BY <1>2 DEF Pending
<1>6. Climbing(u)
  BY <1>1, <1>2, <1>5 DEF Climbing
<1>7. \A c : InHandOf(c, u) = InHandOf(c, t)
  BY <1>2 DEF InHandOf
<1>8. HandsOver(u)
  <2>1. t.stage # "pass" => \A c \in DOMAIN u.unsaved :
          c \in Subs \cap DOMAIN u.tree /\ u.unsaved[c] = u.tree[c]
    BY <1>1, <1>2 DEF HandsOver
  <2>2. \A n : StandIns(n, u.unsaved) = StandIns(n, t.unsaved)
    BY <1>2
  <2>3. \A n \in t.todo : \A c \in StandIns(n, t.unsaved) :
          /\ c \in Children(n) /\ c \in DOMAIN t.tree \cup DOMAIN t.mine
          /\ t.unsaved[c] = InHandOf(c, t)
    BY <1>1 DEF HandsOver
  <2>4. ASSUME NEW n \in u.todo, NEW c \in StandIns(n, u.unsaved)
        PROVE  /\ c \in Children(n) /\ c \in DOMAIN u.tree \cup DOMAIN u.mine
               /\ u.unsaved[c] = InHandOf(c, u)
    <3>1. n \in t.todo /\ c \in StandIns(n, t.unsaved)
      BY <1>2, <2>2, <2>4
    <3>2. /\ c \in Children(n) /\ c \in DOMAIN t.tree \cup DOMAIN t.mine
          /\ t.unsaved[c] = InHandOf(c, t)
      BY <2>3, <3>1
    <3>3. InHandOf(c, u) = InHandOf(c, t)
      BY <1>7
    <3> QED
      BY <1>2, <3>2, <3>3
  <2> QED
    BY <1>2, <2>1, <2>4 DEF HandsOver
<1>9. t.todo \subseteq Rows /\ Pending(t) \subseteq Rows /\ t.seen \subseteq Rows
  BY <1>1, ReachUp DEF Climbing, Pending
<1>10. Knows(u, r2)
  <2>1. ASSUME NEW n \in t.todo, t.mine[n] # r2[n]
        PROVE  {n} \cup ParentIn(n) \subseteq t.overlooked \cup T
    <3>1. t.mine[n] # r[n] => {n} \cup ParentIn(n) \subseteq t.overlooked
      BY <1>1 DEF Knows
    <3>2. r2[n] # r[n] => {n} \cup ParentIn(n) \subseteq T
      BY <1>0, <1>9
    <3> QED
      BY <2>1, <3>1, <3>2
  <2>2. ASSUME NEW n \in Pending(t), t.given[n] # r2[n]
        PROVE  {n} \cup ParentIn(n) \subseteq t.overlooked \cup T
    <3>1. t.given[n] # r[n] => {n} \cup ParentIn(n) \subseteq t.overlooked
      BY <1>1 DEF Knows
    <3>2. r2[n] # r[n] => {n} \cup ParentIn(n) \subseteq T
      BY <1>0, <1>9
    <3> QED
      BY <2>2, <3>1, <3>2
  <2> QED
    BY <1>2, <1>5, <2>1, <2>2 DEF Knows
<1>11. \A n \in Rows \ T : r2[n] = r[n] /\ \A c \in Children(n) : r2[c] = r[c] /\ c \in Rows
  BY <1>0, ChildrenAre DEF ParentIn
<1>12. \A n \in Rows : r2[n] = r[n] => FigureOf(n, u, r2) = FigureOf(n, t, r)
  BY <1>2, <1>7 DEF FigureOf
<1>13. ASSUME NEW n \in Rows \ T
       PROVE  OwnOf(n, b, mk) = OwnOf(n, b2, mk2)
  <2>1. /\ \A x \in Ids : b[x] = b2[x] \/ n \notin RowsAbout(b[x]) \cup RowsAbout(b2[x])
        /\ \A m \in mk \ mk2 : MarkupParent[m] # n
    BY <1>0, <1>13
  <2> QED
    BY <1>0, <1>13, <2>1, OwnElsewhere
<1>14. ASSUME NEW n \in Rows \ T
       PROVE  OwnIn(n, t, b, mk) = OwnIn(n, u, b2, mk2)
  <2> DEFINE v1 == ViewOf(t, b)
             v2 == ViewOf(t, b2)
  <2>1. \A x \in Ids : v1[x] = v2[x] \/ (v1[x] = b[x] /\ v2[x] = b2[x])
    BY DEF ViewOf
  <2> HIDE DEF v1, v2
  <2>2. \A x \in Ids : v1[x] = v2[x] \/ n \notin RowsAbout(v1[x]) \cup RowsAbout(v2[x])
    <3> SUFFICES ASSUME NEW x \in Ids, v1[x] # v2[x]
                 PROVE  n \notin RowsAbout(v1[x]) \cup RowsAbout(v2[x])
      OBVIOUS
    <3>1. v1[x] = b[x] /\ v2[x] = b2[x]
      BY <2>1
    <3> QED
      BY <1>0, <1>14, <3>1
  <2>3. mk \ t.dropped \in SUBSET Markups /\ mk2 \ t.dropped \in SUBSET (mk \ t.dropped)
    BY <1>0
  <2>4. \A m \in (mk \ t.dropped) \ (mk2 \ t.dropped) : MarkupParent[m] # n
    BY <1>0, <1>14
  <2>5. OwnOf(n, v1, mk \ t.dropped) = OwnOf(n, v2, mk2 \ t.dropped)
    BY <2>2, <2>3, <2>4, OwnElsewhere
  <2>6. ViewOf(u, b2) = v2 /\ u.dropped = t.dropped
    BY <1>2 DEF v2, ViewOf
  <2> QED
    BY <2>5, <2>6 DEF OwnIn, v1
<1>15. ASSUME NEW n \in t.seen \ (t.overlooked \cup T)
       PROVE  FigureOf(n, u, r2) = DueIn(n, u, r2, b2, mk2)
  <2>1. FigureOf(n, t, r) = DueIn(n, t, r, b, mk) /\ n \in Rows \ T
    BY <1>1, <1>9, <1>15 DEF Right
  <2>2. FigureOf(n, u, r2) = FigureOf(n, t, r)
    BY <1>11, <1>12, <2>1
  <2>3. [c \in Children(n) |-> FigureOf(c, u, r2)] = [c \in Children(n) |-> FigureOf(c, t, r)]
    BY <1>11, <1>12, <2>1
  <2>4. OwnIn(n, t, b, mk) = OwnIn(n, u, b2, mk2)
    BY <1>14, <2>1
  <2> QED
    BY <2>1, <2>2, <2>3, <2>4 DEF DueIn
<1>16. ASSUME NEW n \in Rows \ (t.seen \cup t.overlooked \cup T), NEW c \in Children(n),
              n \in t.todo => c \notin StandIns(n, t.unsaved)
       PROVE  FigureOf(c, u, r2) = r2[c]
  <2>1. FigureOf(c, t, r) = r[c]
    BY <1>1, <1>16 DEF Right
  <2> QED
    BY <1>11, <1>12, <1>16, <2>1
<1>17. ASSUME NEW n \in Rows \ (t.seen \cup t.overlooked \cup T \cup DOMAIN t.given)
       PROVE  OwnIn(n, u, b2, mk2) = OwnOf(n, b2, mk2)
  <2>1. OwnIn(n, t, b, mk) = OwnOf(n, b, mk)
    BY <1>1, <1>17 DEF Right
  <2> QED
    BY <1>13, <1>14, <1>17, <2>1
<1>18. Right(u, r2, b2, mk2)
  BY <1>2, <1>15, <1>16, <1>17 DEF Right
<1> QED
  BY <1>3, <1>4, <1>6, <1>8, <1>10, <1>18 DEF Local, u

LEMMA DueIs ==
  ASSUME NEW n, NEW b, NEW f
  PROVE  Due(n, b, f) = Sum([c \in Children(n) |-> f[c]]) + OwnOf(n, b, markups)
BY DEF Due, OwnOf

(* A step of a worker that changes nothing but what it has in hand.         *)
LEMMA StepKeeps ==
  ASSUME ActualsInv, NEW w \in Worker, NEW u, tx' = [tx EXCEPT ![w] = u],
         UNCHANGED <<book, markups, rec, raced>>, Local(u, rec, book, markups)
  PROVE  ActualsInv'
<1>1. /\ tx' = [tx EXCEPT ![w] = u] /\ book' = book /\ markups' = markups /\ rec' = rec
      /\ raced' = raced
  OBVIOUS
<1>2. tx = [v \in Worker |-> tx[v]]
  BY DEF ActualsInv
<1>3. tx' = [v \in Worker |-> tx'[v]] /\ \A v \in Worker : tx'[v] = IF v = w THEN u ELSE tx[v]
  BY <1>1, <1>2
<1>4. \A v \in Worker : Local(tx'[v], rec', book', markups')
  BY <1>1, <1>3 DEF ActualsInv
<1>5. \A n \in Rows \ raced' : rec'[n] = Due(n, book, rec)'
  BY <1>1 DEF ActualsInv, Due
<1> QED
  BY <1>1, <1>3, <1>4, <1>5 DEF ActualsInv

(* What one's own commit makes of the actuals.                              *)
Committed(t) == [x \in Ids |-> IF x \in Doomed(t) THEN Null ELSE View(t)[x]]

LEMMA CommittedElsewhere ==
  ASSUME NEW t, Form(t), NEW x \in Ids, Committed(t)[x] # book[x]
  PROVE  RowsAbout(book[x]) \cup RowsAbout(Committed(t)[x]) \subseteq Losing(t)
<1>1. Committed(t)[x] = IF x \in Doomed(t) THEN Null
                        ELSE IF x \in DOMAIN t.written THEN t.written[x] ELSE book[x]
  BY DEF Committed, View
<1>2. x \in DOMAIN t.written \cup Doomed(t)
  BY <1>1
<1>3. RowsAbout(book[x]) \subseteq Losing(t)
  BY <1>2 DEF RowsAbout, Losing
<1>4. RowsAbout(Committed(t)[x]) \subseteq Losing(t)
  <2>1. CASE x \in Doomed(t)
    BY <1>1, <2>1 DEF RowsAbout
  <2>2. CASE x \notin Doomed(t)
    <3>1. Committed(t)[x] = t.written[x] /\ x \in DOMAIN t.written
      BY <1>1, <1>2, <2>2
    <3> QED
      BY <3>1 DEF RowsAbout, Losing
  <2> QED
    BY <2>1, <2>2
<1> QED
  BY <1>3, <1>4

(* A row that is not robbed of an actual has those it was actualized with.  *)
LEMMA CommittedOwn ==
  ASSUME markups \subseteq Markups, NEW t, Form(t), NEW n \in Rows, n \notin Robbed(t)
  PROVE  OwnOf(n, Committed(t), markups \ t.dropped) = OwnIn(n, t, book, markups)
<1> DEFINE mk == markups \ t.dropped
           v  == ViewOf(t, book)
<1>1. \A x \in Ids : Committed(t)[x] = IF x \in Doomed(t) THEN Null ELSE v[x]
  BY DEF Committed, View, ViewOf
<1>2. ASSUME NEW x \in Ids, x \in Doomed(t) PROVE ~Counts(v[x], n, mk)
  <2> SUFFICES ASSUME Counts(v[x], n, mk) PROVE FALSE
    OBVIOUS
  <2>1. t.op.kind = "markups" /\ DOMAIN t.written = {}
    BY <1>2 DEF Form, Doomed
  <2>2. v[x] = book[x]
    BY <2>1 DEF ViewOf
  <2>3. mk \in SUBSET Markups
    OBVIOUS
  <2>4. book[x] # Null /\ book[x].owner # Null /\ RowOf(book[x].owner) = n
    BY <2>2, <2>3, CountsRow
  <2>5. book[x].owner \notin t.dropped
    <3>1. book[x].owner = n \/ book[x].owner \in mk
      BY <2>2 DEF Counts
    <3>2. n \notin t.dropped
      BY ActualizeAssumption DEF Form
    <3> QED
      BY <3>1, <3>2
  <2> QED
    BY <1>2, <2>4, <2>5 DEF Robbed
<1> HIDE DEF mk, v
<1>3. ~Counts(Null, n, mk)
  BY DEF Counts
<1>4. \A x \in Ids : \/ ~Counts(Committed(t)[x], n, mk) /\ ~Counts(v[x], n, mk)
                     \/ /\ Committed(t)[x] = v[x]
                        /\ Counts(Committed(t)[x], n, mk) <=> Counts(v[x], n, mk)
  BY <1>1, <1>2, <1>3
<1>5. OwnOf(n, Committed(t), mk) = OwnOf(n, v, mk)
  BY <1>4, OwnSame
<1> QED
  BY <1>5 DEF OwnIn, mk, v

LEMMA TouchedRows ==
  ASSUME book \in [Ids -> {Null} \cup Entry], NEW t, Form(t), DOMAIN t.tree \subseteq Rows
  PROVE  Touched(t) \subseteq Rows /\ Robbed(t) \subseteq Rows
<1>1. \A o \in Owners : RowOf(o) \in Rows
  BY ActualizeAssumption DEF Owners, RowOf, Rows
<1>2. \A x \in Ids : book[x] # Null => book[x].owner \in Owners \cup {Null}
  BY DEF Entry
<1>3. Doomed(t) \subseteq Ids
  BY DEF Doomed, OwnedBy, Form
<1>4. \A x \in DOMAIN t.written : /\ x \in Ids
                                  /\ t.written[x] # Null => t.written[x].owner \in Owners \cup {Null}
  BY DEF Form, Entry
<1>5. \A m \in t.dropped : MarkupParent[m] \in Rows
  BY ActualizeAssumption DEF Form
<1>6. Losing(t) \subseteq Rows
  BY <1>1, <1>2, <1>3, <1>4, <1>5 DEF Losing
<1>7. Robbed(t) \subseteq Rows
  BY <1>1, <1>2, <1>3 DEF Robbed
<1>8. \A n \in DOMAIN t.tree \ {BudgetRow} : Parent[n] \in Rows
  BY RowsAre
<1> QED
  BY <1>6, <1>7, <1>8 DEF Touched

LEMMA CommittedBook ==
  ASSUME book \in [Ids -> {Null} \cup Entry], NEW t, Form(t)
  PROVE  Committed(t) \in [Ids -> {Null} \cup Entry]
<1>1. \A x \in Ids : Committed(t)[x] \in {Null} \cup Entry
  BY DEF Committed, View, Form
<1>2. Committed(t) = [x \in Ids |-> Committed(t)[x]]
  BY DEF Committed
<1> QED
  BY <1>1, <1>2

LEMMA CommitKeeps ==
  ASSUME ActualsInv, NEW w \in Worker, Commit(w)
  PROVE  ActualsInv'
<1> DEFINE t == tx[w]
           T == Touched(t)
<1>1. /\ t.stage = "climb" /\ t.tiers = {}
      /\ rec' = Stored(t) /\ book' = Committed(t) /\ markups' = markups \ t.dropped
      /\ raced' = (raced \ (t.seen \ t.overlooked)) \cup (T \cap t.overlooked) \cup Robbed(t)
      /\ tx' = [v \in Worker |-> IF v = w THEN Resting ELSE Notified(tx[v], T)]
  BY DEF Commit, Committed
<1>2. /\ book \in [Ids -> {Null} \cup Entry] /\ markups \subseteq Markups /\ DOMAIN rec = Rows
      /\ raced \subseteq Rows /\ \A v \in Worker : Local(tx[v], rec, book, markups)
      /\ \A n \in Rows \ raced : rec[n] = Due(n, book, rec)
  BY DEF ActualsInv
<1>3. Form(t) /\ Climbing(t) /\ HandsOver(t) /\ Right(t, rec, book, markups)
  BY <1>2 DEF Local
<1>4. /\ DOMAIN t.mine = {} /\ t.todo = {} /\ DOMAIN t.tree \subseteq t.seen
      /\ t.seen \subseteq Rows /\ DOMAIN t.given \subseteq t.seen
  BY <1>1, <1>3, ReachUp DEF Climbing, Pending
<1>5. \A n \in Rows : rec'[n] = FigureOf(n, t, rec)
  BY <1>1, <1>4 DEF Stored, FigureOf, InHandOf
<1>6. /\ Losing(t) \subseteq T /\ DOMAIN t.tree \subseteq T
      /\ \A n \in DOMAIN t.tree \ {BudgetRow} : Parent[n] \in T
      /\ \A m \in t.dropped : MarkupParent[m] \in T
  BY DEF Touched, Losing
<1>8. T \subseteq Rows /\ Robbed(t) \subseteq Rows
  BY <1>2, <1>3, <1>4, TouchedRows
<1>9. \A n \in Rows : rec'[n] # rec[n] => {n} \cup ParentIn(n) \subseteq T
  <2> SUFFICES ASSUME NEW n \in Rows, rec'[n] # rec[n] PROVE {n} \cup ParentIn(n) \subseteq T
    OBVIOUS
  <2>1. n \in DOMAIN t.tree
    BY <1>1 DEF Stored
  <2> QED
    BY <1>6, <2>1 DEF ParentIn
<1>10. \A x \in Ids : book'[x] # book[x] => RowsAbout(book[x]) \cup RowsAbout(book'[x]) \subseteq T
  <2> SUFFICES ASSUME NEW x \in Ids, Committed(t)[x] # book[x]
               PROVE  RowsAbout(book[x]) \cup RowsAbout(Committed(t)[x]) \subseteq T
    BY <1>1
  <2>1. RowsAbout(book[x]) \cup RowsAbout(Committed(t)[x]) \subseteq Losing(t)
    BY <1>3, CommittedElsewhere
  <2> QED
    BY <1>6, <2>1
<1>11. markups' \subseteq markups /\ \A m \in markups \ markups' : MarkupParent[m] \in T
  BY <1>1, <1>6
<1>12. book' \in [Ids -> {Null} \cup Entry] /\ DOMAIN rec' = Rows /\ raced' \subseteq Rows
  <2>1. book' \in [Ids -> {Null} \cup Entry]
    BY <1>1, <1>2, <1>3, CommittedBook
  <2> QED
    BY <1>1, <1>2, <1>8, <2>1 DEF Stored
<1>13. ASSUME NEW v \in Worker PROVE Local(tx'[v], rec', book', markups')
  <2>1. tx'[v] = IF v = w THEN Resting ELSE Notified(tx[v], T)
    BY <1>1
  <2>2. CASE tx'[v] = Resting
    <3>1. book' \in [Ids -> {Null} \cup Entry]
      BY <1>12
    <3>2. Local(Resting, rec', book', markups')
      BY ONLY <3>1, RestLocal
    <3> QED
      BY <2>2, <3>2
  <2>3. CASE tx'[v] # Resting
    <3>1. tx[v] # Resting /\ tx'[v] = [tx[v] EXCEPT !.overlooked = tx[v].overlooked \cup T]
      BY <2>1, <2>3 DEF Notified
    <3>2. Local(tx[v], rec, book, markups) /\ tx[v].stage # "rest"
      BY <1>2, <3>1 DEF Local, Form
    <3>3. Concerns(T, rec, book, markups, rec', book', markups')
      BY <1>2, <1>8, <1>9, <1>10, <1>11 DEF Concerns
    <3> HIDE DEF T
    <3>4. Local([tx[v] EXCEPT !.overlooked = tx[v].overlooked \cup T], rec', book', markups')
      BY ONLY <3>2, <3>3, OtherLocal
    <3> QED
      BY <3>1, <3>4
  <2> QED
    BY <2>2, <2>3
<1>14. ASSUME NEW n \in Rows \ raced' PROVE rec'[n] = Due(n, book, rec)'
  <2>1. n \notin Robbed(t) /\ n \notin T \cap t.overlooked /\ (n \in raced => n \in t.seen \ t.overlooked)
    BY <1>1, <1>14
  <2>2. Due(n, book, rec)' = Sum([c \in Children(n) |-> FigureOf(c, t, rec)]) + OwnOf(n, book', markups')
    <3>1. [c \in Children(n) |-> rec'[c]] = [c \in Children(n) |-> FigureOf(c, t, rec)]
      BY <1>5, ChildrenAre
    <3>2. Due(n, book, rec)' = Sum([c \in Children(n) |-> rec'[c]]) + OwnOf(n, book', markups')
      BY DEF Due, OwnOf
    <3> QED
      BY <3>1, <3>2
  <2>3. OwnOf(n, book', markups') = OwnIn(n, t, book, markups)
    BY <1>1, <1>2, <1>3, <2>1, CommittedOwn
  <2>4. CASE n \in t.seen \ t.overlooked
    <3>1. FigureOf(n, t, rec) = DueIn(n, t, rec, book, markups)
      BY <1>3, <2>4 DEF Right
    <3> QED
      BY <1>5, <2>2, <2>3, <3>1 DEF DueIn
  <2>5. CASE n \notin t.seen \ t.overlooked
    <3>1. rec[n] = Sum([c \in Children(n) |-> rec[c]]) + OwnOf(n, book, markups)
      <4>1. rec[n] = Due(n, book, rec)
        BY <1>2, <2>1, <2>5
      <4> QED
        BY <4>1, DueIs
    <3>2. CASE n \in T
      <4>1. n \notin t.overlooked /\ n \notin t.seen /\ n \notin DOMAIN t.tree /\ n \notin DOMAIN t.given
        BY <1>4, <2>1, <2>5, <3>2
      <4>2. rec'[n] = rec[n]
        BY <1>1, <4>1 DEF Stored
      <4>3. [c \in Children(n) |-> FigureOf(c, t, rec)] = [c \in Children(n) |-> rec[c]]
        <5>1. \A c \in Children(n) : FigureOf(c, t, rec) = rec[c]
          BY <1>3, <1>4, <4>1 DEF Right
        <5> QED
          BY <5>1
      <4>4. OwnIn(n, t, book, markups) = OwnOf(n, book, markups)
        BY <1>3, <4>1 DEF Right
      <4> QED
        BY <2>2, <2>3, <3>1, <4>2, <4>3, <4>4
    <3>3. CASE n \notin T
      <4>1. rec'[n] = rec[n]
        BY <1>9, <3>3
      <4>2. [c \in Children(n) |-> FigureOf(c, t, rec)] = [c \in Children(n) |-> rec[c]]
        <5>1. ASSUME NEW c \in Children(n) PROVE FigureOf(c, t, rec) = rec[c]
          <6>1. c \in Rows /\ c # BudgetRow /\ Parent[c] = n
            BY ChildrenAre
          <6>2. rec'[c] = rec[c]
            BY <1>9, <3>3, <6>1 DEF ParentIn
          <6> QED
            BY <1>5, <6>1, <6>2
        <5> QED
          BY <5>1
      <4>3. OwnOf(n, book, markups) = OwnOf(n, book', markups')
        <5>1. \A x \in Ids : book[x] = book'[x] \/ n \notin RowsAbout(book[x]) \cup RowsAbout(book'[x])
          BY <1>10, <3>3
        <5>2. \A m \in markups \ markups' : MarkupParent[m] # n
          BY <1>11, <3>3
        <5>3. markups \in SUBSET Markups /\ markups' \in SUBSET markups
          BY <1>2, <1>11
        <5> QED
          BY <5>1, <5>2, <5>3, OwnElsewhere
      <4> QED
        BY <2>2, <3>1, <4>1, <4>2, <4>3
    <3> QED
      BY <3>2, <3>3
  <2> QED
    BY <2>4, <2>5
<1>15. tx' = [v \in Worker |-> tx'[v]] /\ markups' \subseteq Markups
  BY <1>1, <1>2
<1> QED
  BY <1>12, <1>13, <1>14, <1>15 DEF ActualsInv

-------------------------------------------------------------------------------
(* Every step. *)

LEMMA JustAsked ==
  ASSUME NEW op, Requested(op),
         NEW u, u = [Resting EXCEPT !.stage = "asked", !.op = op]
  PROVE  Form(u) /\ Figures(u) /\ u.stage = "asked" /\ u.op = op /\ DOMAIN u.written = {}
<1> DEFINE q == Resting
<1>1. /\ Fields(q) /\ q.overlooked = {} /\ q.dropped = {} /\ q.doomed = {}
      /\ DOMAIN q.written = {} /\ q.given = Nothing /\ q.left = {} /\ q.todo = {}
      /\ q.mine = Nothing /\ q.unsaved = Nothing /\ q.tree = Nothing
  BY DEF Resting, Fields
<1>2. u = [q EXCEPT !.stage = "asked", !.op = op]
  OBVIOUS
<1> HIDE DEF q
<1>3. /\ u.stage = "asked" /\ u.op = op /\ u.overlooked = {} /\ u.dropped = {}
      /\ u.doomed = {} /\ DOMAIN u.written = {} /\ u.given = Nothing /\ u.left = {}
      /\ u.todo = {} /\ u.mine = Nothing /\ u.unsaved = Nothing /\ u.tree = Nothing
  BY <1>1, <1>2 DEF Fields
<1>4. Fields(u)
  BY <1>1, <1>2 DEF Fields
<1>5. u = [q EXCEPT !.stage = "asked", !.op = u.op, !.overlooked = u.overlooked]
  BY <1>1, <1>2, <1>3 DEF Fields
<1>6. Figures(u)
  <2>1. DOMAIN Nothing = {}
    BY DEF Nothing
  <2> QED
    BY <1>3, <2>1 DEF Figures
<1> QED
  BY <1>3, <1>4, <1>5, <1>6 DEF q, Form

LEMMA AskKeeps ==
  ASSUME ActualsInv, NEW w \in Worker, NEW op, Ask(w, op), Requested(op),
         op.kind \in {"save", "delete"} => \A x \in op.rows : book[x] = op.was[x]
  PROVE  ActualsInv'
<1> DEFINE u == [Resting EXCEPT !.stage = "asked", !.op = op]
<1>1. tx' = [tx EXCEPT ![w] = u] /\ UNCHANGED <<book, markups, rec, raced>>
  BY DEF Ask
<1>2. Form(u) /\ u.stage = "asked" /\ u.op = op
  BY JustAsked
<1> HIDE DEF u
<1>3. Fetched(u, book)
  BY <1>2 DEF Fetched
<1>4. book \in [Ids -> {Null} \cup Entry]
  BY DEF ActualsInv
<1>5. Local(u, rec, book, markups)
  BY <1>2, <1>3, <1>4, IdleLocal
<1> QED
  BY <1>1, <1>5, StepKeeps

LEMMA SomewhereIs ==
  ASSUME ActualsInv \/ Shapes
  PROVE  /\ Somewhere \subseteq Owners \cup {Null} /\ markups \subseteq Markups
         /\ \A x \in Ids : book[x] # Null => book[x] \in Entry
         /\ \A o \in Owners : RowOf(o) \in Rows
BY ActualizeAssumption DEF ActualsInv, Shapes, Somewhere, Owners, RowOf, Rows

LEMMA AskAddIs ==
  ASSUME ActualsInv \/ Shapes, NEW w \in Worker, AskAdd(w)
  PROVE  \E op : /\ Ask(w, op) /\ Requested(op)
                 /\ op.kind \in {"save", "delete"} => \A x \in op.rows : book[x] = op.was[x]
<1>1. PICK S \in Batch({x \in Ids : book[x] = Null}) :
        \E to \in [S -> Somewhere], value \in [S -> Values] :
          Ask(w, [kind |-> "add", rows |-> S, markups |-> {}, to |-> to, value |-> value])
  BY DEF AskAdd
<1>2. PICK to \in [S -> Somewhere], value \in [S -> Values] :
        Ask(w, [kind |-> "add", rows |-> S, markups |-> {}, to |-> to, value |-> value])
  BY <1>1
<1> DEFINE op == [kind |-> "add", rows |-> S, markups |-> {}, to |-> to, value |-> value]
<1>3. S \subseteq Ids
  BY DEF Batch
<1>4. Requested(op)
  BY <1>3, SomewhereIs DEF Requested
<1> QED
  BY <1>2, <1>4

LEMMA AskSaveIs ==
  ASSUME ActualsInv \/ Shapes, NEW w \in Worker, AskSave(w)
  PROVE  \E op : /\ Ask(w, op) /\ Requested(op)
                 /\ op.kind \in {"save", "delete"} => \A x \in op.rows : book[x] = op.was[x]
<1>1. PICK S \in Batch({x \in Ids : book[x] # Null}),
           columns \in {{"owner"}, {"value"}, {"owner", "value"}}, single \in BOOLEAN :
        \E to \in [S -> Somewhere], value \in [S -> Values] :
          /\ single => columns = {"owner", "value"} /\ Alone(S)
          /\ "owner" \notin columns => \A x \in S : to[x] = book[x].owner
          /\ "value" \notin columns => \A x \in S : value[x] = book[x].value
          /\ Ask(w, [kind |-> "save", rows |-> S, markups |-> {}, to |-> to,
                     value |-> value, columns |-> columns, single |-> single,
                     was |-> [x \in S |-> book[x]]])
  BY DEF AskSave
<1>2. PICK to \in [S -> Somewhere], value \in [S -> Values] :
          /\ single => columns = {"owner", "value"} /\ Alone(S)
          /\ "owner" \notin columns => \A x \in S : to[x] = book[x].owner
          /\ "value" \notin columns => \A x \in S : value[x] = book[x].value
          /\ Ask(w, [kind |-> "save", rows |-> S, markups |-> {}, to |-> to,
                     value |-> value, columns |-> columns, single |-> single,
                     was |-> [x \in S |-> book[x]]])
  BY <1>1
<1> DEFINE op == [kind |-> "save", rows |-> S, markups |-> {}, to |-> to,
                  value |-> value, columns |-> columns, single |-> single,
                  was |-> [x \in S |-> book[x]]]
<1>3. S \subseteq Ids /\ \A x \in S : book[x] # Null
  BY DEF Batch
<1>4. Requested(op)
  BY <1>2, <1>3, SomewhereIs DEF Requested
<1> QED
  BY <1>2, <1>4

LEMMA AskDeleteIs ==
  ASSUME ActualsInv \/ Shapes, NEW w \in Worker, AskDelete(w)
  PROVE  \E op : /\ Ask(w, op) /\ Requested(op)
                 /\ op.kind \in {"save", "delete"} => \A x \in op.rows : book[x] = op.was[x]
<1>1. PICK S \in Batch({x \in Ids : book[x] # Null}) :
        Ask(w, [kind |-> "delete", rows |-> S, markups |-> {}, was |-> [x \in S |-> book[x]]])
  BY DEF AskDelete
<1> DEFINE op == [kind |-> "delete", rows |-> S, markups |-> {}, was |-> [x \in S |-> book[x]]]
<1>2. S \subseteq Ids /\ \A x \in S : book[x] # Null
  BY DEF Batch
<1>3. Requested(op)
  BY <1>2, SomewhereIs DEF Requested
<1> QED
  BY <1>1, <1>3

LEMMA AskDeleteMarkupsIs ==
  ASSUME ActualsInv \/ Shapes, NEW w \in Worker, AskDeleteMarkups(w)
  PROVE  \E op : /\ Ask(w, op) /\ Requested(op)
                 /\ op.kind \in {"save", "delete"} => \A x \in op.rows : book[x] = op.was[x]
<1>1. PICK M \in Batch(markups), single \in BOOLEAN :
        Ask(w, [kind |-> "markups", rows |-> {}, markups |-> M, single |-> single])
  BY DEF AskDeleteMarkups
<1> DEFINE op == [kind |-> "markups", rows |-> {}, markups |-> M, single |-> single]
<1>2. M \subseteq Markups
  BY SomewhereIs DEF Batch
<1>3. Requested(op)
  BY <1>2 DEF Requested
<1> QED
  BY <1>1, <1>3

LEMMA Asks ==
  ASSUME ActualsInv \/ Shapes, NEW w \in Worker,
         AskAdd(w) \/ AskSave(w) \/ AskDelete(w) \/ AskDeleteMarkups(w)
  PROVE  \E op : /\ Ask(w, op) /\ Requested(op)
                 /\ op.kind \in {"save", "delete"} => \A x \in op.rows : book[x] = op.was[x]
<1>1. CASE AskAdd(w)
  BY <1>1, AskAddIs
<1>2. CASE AskSave(w)
  BY <1>2, AskSaveIs
<1>3. CASE AskDelete(w)
  BY <1>3, AskDeleteIs
<1>4. CASE AskDeleteMarkups(w)
  BY <1>4, AskDeleteMarkupsIs
<1> QED
  BY <1>1, <1>2, <1>3, <1>4

LEMMA AsksKeep ==
  ASSUME ActualsInv, NEW w \in Worker,
         AskAdd(w) \/ AskSave(w) \/ AskDelete(w) \/ AskDeleteMarkups(w)
  PROVE  ActualsInv'
BY Asks, AskKeeps

(* The rows of the owners written about are given, or known to have changed. *)
LEMMA StartKeeps ==
  ASSUME ActualsInv, NEW w \in Worker, tx[w].stage = "asked", tx[w].op.kind # "markups",
         NEW written, NEW owners, Start(w, written, owners),
         owners \subseteq Owners \cup {Null}, DOMAIN written \subseteq Ids,
         \A x \in DOMAIN written : written[x] \in {Null} \cup Entry,
         \A x \in DOMAIN written : \A n \in Rows :
           \/ n \in {RowOf(o) : o \in owners \ {Null}} \cup tx[w].overlooked
           \/ written[x] = book[x]
           \/ ~Counts(written[x], n, markups) /\ ~Counts(book[x], n, markups)
  PROVE  ActualsInv'
<1> DEFINE t == tx[w]
           given == {RowOf(o) : o \in owners \ {Null}}
           u == [t EXCEPT
                  !.stage = "climb", !.written = written,
                  !.given = Restrict(rec, given), !.left = given,
                  !.tiers = {Tier[n] : n \in given \cap Subs} \cup {0, 1}]
<1>1. Avoids(given) /\ tx' = [tx EXCEPT ![w] = u] /\ UNCHANGED <<book, markups, rec, raced>>
  BY DEF Start, Goes
<1>2. Local(t, rec, book, markups) /\ Form(t) /\ DOMAIN rec = Rows
      /\ book \in [Ids -> {Null} \cup Entry] /\ markups \subseteq Markups
  BY DEF ActualsInv, Local
<1>3. given \subseteq Rows
  BY SomewhereIs
<1>4. t.dropped = {} /\ t.doomed = {}
  BY <1>2 DEF Form, Resting
<1>5. /\ Fields(u) /\ u.stage = "climb" /\ u.op = t.op /\ u.overlooked = t.overlooked
      /\ u.given = Restrict(rec, given) /\ u.left = given
      /\ u.tiers = {Tier[n] : n \in given \cap Subs} \cup {0, 1}
      /\ u.todo = t.todo /\ u.mine = t.mine /\ u.unsaved = t.unsaved /\ u.tree = t.tree
      /\ u.seen = t.seen /\ u.written = written /\ u.dropped = {} /\ u.doomed = {}
  <2>1. Fields(t)
    BY <1>2 DEF Form
  <2> DEFINE tiers == {Tier[n] : n \in given \cap Subs} \cup {0, 1}
  <2>2. u = [t EXCEPT !.stage = "climb", !.written = written, !.given = Restrict(rec, given),
                      !.left = given, !.tiers = tiers]
    OBVIOUS
  <2> HIDE DEF u, given, tiers, t
  <2>3. Fields(u)
    BY <2>1, <2>2 DEF Fields
  <2>4. /\ u.stage = "climb" /\ u.op = t.op /\ u.overlooked = t.overlooked
        /\ u.given = Restrict(rec, given) /\ u.left = given /\ u.tiers = tiers
        /\ u.todo = t.todo /\ u.mine = t.mine /\ u.unsaved = t.unsaved /\ u.tree = t.tree
        /\ u.seen = t.seen /\ u.written = written /\ u.dropped = t.dropped
        /\ u.doomed = t.doomed
    BY <2>1, <2>2 DEF Fields
  <2> QED
    BY <1>4, <2>3, <2>4 DEF tiers
<1> HIDE DEF u, given
<1>6. ASSUME NEW n \in Rows \ (given \cup u.overlooked)
      PROVE  OwnIn(n, u, book, markups) = OwnOf(n, book, markups)
  <2> DEFINE v == ViewOf(u, book)
  <2>1. \A x \in Ids : v[x] = IF x \in DOMAIN written THEN written[x] ELSE book[x]
    BY <1>5 DEF ViewOf
  <2> HIDE DEF v
  <2>2. \A x \in Ids : \/ ~Counts(v[x], n, markups) /\ ~Counts(book[x], n, markups)
                       \/ v[x] = book[x] /\ (Counts(v[x], n, markups) <=> Counts(book[x], n, markups))
    BY <1>5, <1>6, <2>1 DEF given
  <2>3. OwnOf(n, v, markups) = OwnOf(n, book, markups)
    BY <2>2, OwnSame
  <2>4. markups \ u.dropped = markups
    BY <1>5
  <2> QED
    BY <2>3, <2>4 DEF OwnIn, v
<1>7. Local(u, rec, book, markups)
  BY <1>1, <1>2, <1>3, <1>5, <1>6, StartLocal
<1> QED
  BY <1>1, <1>7, StepKeeps

(* What a worker that is about to write knows.                              *)
LEMMA AskedIs ==
  ASSUME ActualsInv, NEW w \in Worker, tx[w].stage = "asked"
  PROVE  /\ Requested(tx[w].op) /\ Fetched(tx[w], book) /\ Form(tx[w])
         /\ Local(tx[w], rec, book, markups)
<1>1. Local(tx[w], rec, book, markups)
  BY DEF ActualsInv
<1>2. Form(tx[w]) /\ Fetched(tx[w], book)
  BY <1>1 DEF Local
<1> QED
  BY <1>1, <1>2 DEF Form

(* What counts for a row is what somebody who owns it is about.             *)
LEMMA CountsGiven ==
  ASSUME ActualsInv, NEW n \in Rows, NEW e, Counts(e, n, markups), NEW owners, e.owner \in owners
  PROVE  n \in {RowOf(o) : o \in owners \ {Null}}
<1>1. markups \in SUBSET Markups
  BY SomewhereIs
<1>2. e.owner # Null /\ RowOf(e.owner) = n
  BY <1>1, CountsRow
<1> QED
  BY <1>2

LEMMA WriteAddKeeps ==
  ASSUME ActualsInv, NEW w \in Worker, WriteAdd(w)
  PROVE  ActualsInv'
<1> DEFINE op == tx[w].op
           written == [x \in op.rows |-> [owner |-> op.to[x], value |-> op.value[x]]]
           owners == {op.to[x] : x \in op.rows}
<1>1. /\ tx[w].stage = "asked" /\ op.kind = "add" /\ \A x \in op.rows : book[x] = Null
      /\ Start(w, written, owners)
  BY DEF WriteAdd
<1>2. Requested(op)
  BY <1>1, AskedIs
<1>3. /\ owners \subseteq Owners \cup {Null} /\ DOMAIN written \subseteq Ids
      /\ \A x \in DOMAIN written : written[x] \in Entry
  BY <1>1, <1>2 DEF Requested, Entry
<1>4. ASSUME NEW x \in DOMAIN written, NEW n \in Rows
      PROVE  \/ n \in {RowOf(o) : o \in owners \ {Null}}
             \/ ~Counts(written[x], n, markups) /\ ~Counts(book[x], n, markups)
  <2>1. ~Counts(book[x], n, markups)
    BY <1>1 DEF Counts
  <2>2. written[x].owner \in owners
    OBVIOUS
  <2> HIDE DEF written, owners
  <2> QED
    BY <2>1, <2>2, CountsGiven
<1> HIDE DEF written, owners
<1> QED
  BY <1>1, <1>3, <1>4, StartKeeps

LEMMA WriteDeleteKeeps ==
  ASSUME ActualsInv, NEW w \in Worker, WriteDelete(w)
  PROVE  ActualsInv'
<1> DEFINE op == tx[w].op
           written == [x \in op.rows |-> Null]
           owners == {op.was[x].owner : x \in op.rows} \cap Somewhere
<1>1. tx[w].stage = "asked" /\ op.kind = "delete" /\ Start(w, written, owners)
  BY DEF WriteDelete
<1>2. Requested(op) /\ Fetched(tx[w], book)
  BY <1>1, AskedIs
<1>3. /\ owners \subseteq Owners \cup {Null} /\ DOMAIN written \subseteq Ids
      /\ \A x \in DOMAIN written : written[x] = Null
  BY <1>1, <1>2, SomewhereIs DEF Requested
<1>4. ASSUME NEW x \in DOMAIN written, NEW n \in Rows
      PROVE  \/ n \in {RowOf(o) : o \in owners \ {Null}} \cup tx[w].overlooked
             \/ ~Counts(written[x], n, markups) /\ ~Counts(book[x], n, markups)
  <2>1. ~Counts(written[x], n, markups)
    BY DEF Counts
  <2> SUFFICES ASSUME Counts(book[x], n, markups)
               PROVE  n \in {RowOf(o) : o \in owners \ {Null}} \cup tx[w].overlooked
    BY <2>1
  <2>2. n \in RowsAbout(book[x])
    BY SomewhereIs, CountsRow
  <2>3. CASE book[x] # op.was[x]
    BY <1>1, <1>2, <2>2, <2>3 DEF Fetched
  <2>4. CASE book[x] = op.was[x]
    <3>1. book[x].owner = n \/ book[x].owner \in markups
      BY DEF Counts
    <3>2. book[x].owner \in Owners \cup {Null} /\ book[x].owner # Null
      <4>1. book[x] # Null /\ book[x].owner # Null
        BY SomewhereIs, CountsRow
      <4>2. book[x] \in Entry
        BY <1>3, <4>1, SomewhereIs
      <4> QED
        BY <4>1, <4>2 DEF Entry
    <3>3. book[x].owner \in Somewhere
      BY <3>1, <3>2, ActualizeAssumption DEF Somewhere, Owners
    <3>4. book[x].owner \in owners
      BY <2>4, <3>3
    <3> HIDE DEF owners
    <3> QED
      BY <3>4, CountsGiven
  <2> QED
    BY <2>3, <2>4
<1> HIDE DEF written, owners
<1> QED
  BY <1>1, <1>3, <1>4, StartKeeps

LEMMA WriteSaveKeeps ==
  ASSUME ActualsInv, NEW w \in Worker, WriteSave(w)
  PROVE  ActualsInv'
<1> DEFINE op == tx[w].op
           written == [x \in op.rows |-> Saved(op, x)]
           owning(x) == IF book[x] = Null /\ op.single THEN {op.to[x]} ELSE ChangedOwners(op, x)
           owners == UNION {owning(x) : x \in op.rows}
<1>1. /\ tx[w].stage = "asked" /\ op.kind = "save" /\ Start(w, written, owners)
      /\ \A x \in op.rows : {op.was[x].owner, op.to[x]} \subseteq Somewhere
  BY DEF WriteSave
<1>2. Requested(op) /\ Fetched(tx[w], book)
  BY <1>1, AskedIs
<1>3. \A x \in op.rows : /\ x \in Ids /\ op.to[x] \in Owners \cup {Null} /\ op.value[x] \in Values
                         /\ op.was[x] \in Entry /\ op.was[x] # Null
                         /\ "owner" \notin op.columns => op.to[x] = op.was[x].owner
                         /\ "value" \notin op.columns => op.value[x] = op.was[x].value
  BY <1>1, <1>2 DEF Requested
<1>4. op.single => "owner" \in op.columns /\ "value" \in op.columns
  BY <1>1, <1>2 DEF Requested
<1>5. \A x \in op.rows : book[x] # Null => book[x] \in Entry
  BY <1>3, SomewhereIs
<1>6. \A x \in op.rows : Saved(op, x) \in {Null} \cup Entry
  BY <1>3, <1>4, <1>5 DEF Saved, Entry
<1>7. owners \subseteq Owners \cup {Null}
  BY <1>1, SomewhereIs DEF ChangedOwners
<1>8. ASSUME NEW x \in op.rows, NEW n \in Rows
      PROVE  \/ n \in {RowOf(o) : o \in owners \ {Null}} \cup tx[w].overlooked
             \/ Saved(op, x) = book[x]
             \/ ~Counts(Saved(op, x), n, markups) /\ ~Counts(book[x], n, markups)
  <2> DEFINE given == {RowOf(o) : o \in owners \ {Null}}
             s == Saved(op, x)
  <2> SUFFICES ASSUME n \notin given, n \notin tx[w].overlooked, s # book[x],
                      Counts(s, n, markups) \/ Counts(book[x], n, markups)
               PROVE  FALSE
    OBVIOUS
  <2>1. \A e : Counts(e, n, markups) => /\ n \in RowsAbout(e) /\ e # Null
                                        /\ RowOf(e.owner) = n /\ e.owner # Null
    BY SomewhereIs, CountsRow
  <2>2. \A o \in owners : o # Null => RowOf(o) # n
    OBVIOUS
  <2>3. \A o \in owning(x) : o # Null => RowOf(o) # n
    <3>1. owning(x) \subseteq owners
      OBVIOUS
    <3> HIDE DEF owners, owning
    <3> QED
      BY <2>2, <3>1
  <2>4. book[x] # op.was[x] =>
          n \notin RowsAbout(book[x]) /\ n \notin RowsAbout(op.was[x])
    BY <1>1, <1>2 DEF Fetched
  <2>5. ~Counts(Null, n, markups)
    BY DEF Counts
  <2>6. book[x] # Null \/ op.single
    BY <2>5 DEF Saved
  <2>7. s.owner = IF "owner" \in op.columns THEN op.to[x] ELSE book[x].owner
    BY <2>6 DEF Saved
  <2>8. CASE book[x] = Null
    <3>1. s.owner = op.to[x] /\ Counts(s, n, markups)
      BY <1>4, <2>5, <2>6, <2>7, <2>8
    <3>2. op.to[x] \in owning(x)
      BY <2>6, <2>8
    <3> QED
      BY <2>1, <2>3, <3>1, <3>2
  <2>9. CASE book[x] # Null /\ book[x] = op.was[x]
    <3>1. book[x] \in Entry
      BY <1>5, <2>9
    <3>2. s = [owner |-> op.to[x], value |-> op.value[x]]
      BY <1>3, <2>9 DEF Saved
    <3>3. op.was[x].owner # op.to[x] \/ op.was[x].value # op.value[x]
      BY <2>9, <3>1, <3>2 DEF Entry
    <3>4. op.to[x] \in owning(x) /\ (op.was[x].owner # op.to[x] => op.was[x].owner \in owning(x))
      BY <2>9, <3>3 DEF ChangedOwners
    <3>5. s.owner \in owning(x) /\ book[x].owner \in owning(x)
      BY <2>9, <3>2, <3>4
    <3> QED
      BY <2>1, <2>3, <3>5
  <2>10. CASE book[x] # Null /\ book[x] # op.was[x]
    <3>1. ~Counts(book[x], n, markups) /\ Counts(s, n, markups)
      BY <2>1, <2>4, <2>10
    <3>2. s.owner = op.to[x]
      <4>1. s.owner # book[x].owner
        BY <2>10, <3>1 DEF Counts
      <4> QED
        BY <2>7, <4>1
    <3>3. RowOf(op.to[x]) = n /\ op.to[x] # Null
      BY <2>1, <3>1, <3>2
    <3>4. op.was[x].owner # op.to[x]
      <4> SUFFICES ASSUME op.was[x].owner = op.to[x] PROVE FALSE
        OBVIOUS
      <4>1. op.was[x] # Null
        BY <1>3
      <4> QED
        BY <2>4, <2>10, <3>3, <4>1 DEF RowsAbout
    <3>5. op.to[x] \in owning(x)
      BY <2>10, <3>4 DEF ChangedOwners
    <3> QED
      BY <2>3, <3>3, <3>5
  <2> QED
    BY <2>8, <2>9, <2>10
<1>9. /\ DOMAIN written \subseteq Ids /\ \A x \in DOMAIN written : written[x] \in {Null} \cup Entry
      /\ DOMAIN written = op.rows /\ \A x \in op.rows : written[x] = Saved(op, x)
  BY <1>3, <1>6
<1> HIDE DEF written, owners
<1> QED
  BY <1>1, <1>7, <1>8, <1>9, StartKeeps

LEMMA WriteDeleteMarkupsKeeps ==
  ASSUME ActualsInv, NEW w \in Worker, WriteDeleteMarkups(w)
  PROVE  ActualsInv'
<1> DEFINE t == tx[w]
           given == {MarkupParent[m] : m \in t.op.markups}
           tiers == {Tier[n] : n \in given \cap Subs} \cup {0, 1}
           doomed == OwnedBy(book, t.op.markups)
           u == [t EXCEPT !.stage = "climb", !.dropped = t.op.markups, !.doomed = doomed,
                          !.given = Restrict(rec, given), !.left = given, !.tiers = tiers]
<1>1. /\ t.stage = "asked" /\ t.op.kind = "markups" /\ t.op.markups \subseteq markups
      /\ Avoids(given) /\ tx' = [tx EXCEPT ![w] = u] /\ UNCHANGED <<book, markups, rec, raced>>
  BY DEF WriteDeleteMarkups, Goes
<1>2. Requested(t.op) /\ Form(t) /\ Local(t, rec, book, markups)
  BY <1>1, AskedIs
<1>3. /\ DOMAIN rec = Rows /\ book \in [Ids -> {Null} \cup Entry] /\ markups \subseteq Markups
  BY DEF ActualsInv
<1>4. given \subseteq Rows /\ doomed \subseteq Ids
  BY <1>1, <1>3, ActualizeAssumption DEF OwnedBy
<1>5. t.written = [x \in {} |-> Null] /\ DOMAIN t.written = {}
  BY <1>1, <1>2 DEF Form, Resting
<1>6. /\ Fields(u) /\ u.stage = "climb" /\ u.op = t.op /\ u.overlooked = t.overlooked
      /\ u.given = Restrict(rec, given) /\ u.left = given /\ u.tiers = tiers
      /\ u.todo = t.todo /\ u.mine = t.mine /\ u.unsaved = t.unsaved /\ u.tree = t.tree
      /\ u.seen = t.seen /\ u.written = t.written /\ u.dropped = t.op.markups
      /\ u.doomed = doomed
  <2>1. Fields(t)
    BY <1>2 DEF Form
  <2>2. u = [t EXCEPT !.stage = "climb", !.dropped = t.op.markups, !.doomed = doomed,
                      !.given = Restrict(rec, given), !.left = given, !.tiers = tiers]
    OBVIOUS
  <2> HIDE DEF u, given, tiers, doomed, t
  <2> QED
    BY <2>1, <2>2 DEF Fields
<1> HIDE DEF u, given, doomed
<1>7. ASSUME NEW n \in Rows \ (given \cup u.overlooked)
      PROVE  OwnIn(n, u, book, markups) = OwnOf(n, book, markups)
  <2>1. DOMAIN u.written = {}
    BY <1>5, <1>6
  <2>2. ViewOf(u, book) = book
    BY <1>3, <2>1, ViewOfSame
  <2>3. \A m \in markups \ (markups \ u.dropped) : MarkupParent[m] # n
    BY <1>6, <1>7 DEF given
  <2>4. OwnOf(n, book, markups) = OwnOf(n, book, markups \ u.dropped)
    BY <1>3, <2>3, OwnElsewhere
  <2> QED
    BY <2>2, <2>4 DEF OwnIn
<1>8. Local(u, rec, book, markups)
  <2>1. u.dropped \subseteq Markups /\ u.doomed \subseteq Ids /\ DOMAIN u.written = {}
    BY <1>1, <1>3, <1>4, <1>5, <1>6
  <2> QED
    BY <1>1, <1>2, <1>3, <1>4, <1>6, <1>7, <2>1, StartLocal
<1> QED
  BY <1>1, <1>8, StepKeeps

LEMMA Greatest ==
  ASSUME NEW N \in Nat, NEW T \in SUBSET (0..N), T # {}
  PROVE  \E i \in T : \A j \in T : j <= i
<1> DEFINE D == {N - i : i \in T}
<1>1. D \in SUBSET Nat /\ D # {}
  <2>1. \A i \in T : i \in Int /\ i <= N
    OBVIOUS
  <2>2. \A i \in T : N - i \in Nat
    BY <2>1
  <2>3. \E i \in T : N - i \in D
    OBVIOUS
  <2> QED
    BY <2>2, <2>3
<1>2. PICK x \in D : \A y \in D : x <= y
  <2> HIDE DEF D
  <2> QED
    BY <1>1, Least
<1>3. PICK i \in T : x = N - i
  OBVIOUS
<1>4. \A j \in T : N - i <= N - j
  BY <1>2, <1>3
<1> QED
  BY <1>4

LEMMA StartClimbKeeps ==
  ASSUME Avoided = Situations, ActualsInv, NEW w \in Worker, StartClimb(w)
  PROVE  ActualsInv'
<1> DEFINE t == tx[w]
           k == CHOOSE i \in t.tiers : \A j \in t.tiers : j <= i
           here == {n \in t.left : Tier[n] = k}
           u == [t EXCEPT !.stage = "pass", !.tiers = t.tiers \ {k}, !.todo = here,
                          !.mine = Restrict(t.given, here), !.unsaved = HandedOver(t, k)]
<1>1. /\ t.stage = "climb" /\ t.tiers # {} /\ tx' = [tx EXCEPT ![w] = u]
      /\ UNCHANGED <<book, markups, rec, raced>>
  BY DEF StartClimb, Goes
<1>2. Local(t, rec, book, markups)
  BY DEF ActualsInv
<1>3. k \in t.tiers /\ \A j \in t.tiers : j <= k
  <2>1. t.tiers \subseteq 0..Cardinality(Rows) /\ Cardinality(Rows) \in Nat
    BY <1>2, TierBound DEF Local, Climbing
  <2>2. \E i \in t.tiers : \A j \in t.tiers : j <= i
    BY <1>1, <2>1, Greatest
  <2> QED
    BY <2>2
<1> HIDE DEF k
<1>4. Local(u, rec, book, markups)
  BY <1>1, <1>2, <1>3, StartClimbLocal
<1> QED
  BY <1>1, <1>4, StepKeeps

LEMMA PassKeeps ==
  ASSUME Avoided = Situations, ActualsInv, NEW w \in Worker, Pass(w)
  PROVE  ActualsInv'
<1> DEFINE t == tx[w]
           new == [n \in t.todo |-> Actualized(n, t)]
           altered == {n \in t.todo : new[n] # t.mine[n]}
           next == {Parent[n] : n \in altered \ {BudgetRow}}
           kept == IF DOMAIN t.mine = t.todo THEN {} ELSE DOMAIN t.mine
           u == [t EXCEPT !.todo = next,
                  !.mine = [n \in kept \cup altered \cup next |->
                              IF n \in altered THEN new[n]
                              ELSE IF n \in DOMAIN t.mine THEN t.mine[n] ELSE rec[n]],
                  !.unsaved = Restrict(new, altered),
                  !.seen = t.seen \cup t.todo,
                  !.overlooked = t.overlooked \ {n \in t.todo : Current(n, t)}]
<1>1. t.stage = "pass" /\ tx' = [tx EXCEPT ![w] = u] /\ UNCHANGED <<book, markups, rec, raced>>
  BY DEF Pass, Goes
<1>2. Local(t, rec, book, markups)
  BY DEF ActualsInv
<1>3. Local(u, rec, book, markups)
  BY <1>1, <1>2, PassLocal
<1> QED
  BY <1>1, <1>3, StepKeeps

LEMMA EndClimbKeeps ==
  ASSUME ActualsInv, NEW w \in Worker, EndClimb(w)
  PROVE  ActualsInv'
<1> DEFINE t == tx[w]
           u == [t EXCEPT !.stage = "climb", !.left = t.left \ DOMAIN t.mine,
                          !.unsaved = Restrict(t.mine, DOMAIN t.mine \cap Subs),
                          !.mine = Nothing, !.tree = Merge(t.tree, t.mine)]
<1>1. /\ t.stage = "pass" /\ t.todo = {} /\ tx' = [tx EXCEPT ![w] = u]
      /\ UNCHANGED <<book, markups, rec, raced>>
  BY DEF EndClimb, Goes
<1>2. Local(t, rec, book, markups)
  BY DEF ActualsInv
<1>3. Local(u, rec, book, markups)
  BY <1>1, <1>2, EndClimbLocal
<1> QED
  BY <1>1, <1>3, StepKeeps

LEMMA RollBackKeeps ==
  ASSUME ActualsInv, NEW w \in Worker, RollBack(w)
  PROVE  ActualsInv'
<1>1. tx' = [tx EXCEPT ![w] = Resting] /\ UNCHANGED <<book, markups, rec, raced>>
  BY DEF RollBack, Goes
<1>2. book \in [Ids -> {Null} \cup Entry]
  BY DEF ActualsInv
<1>3. Local(Resting, rec, book, markups)
  BY ONLY <1>2, RestLocal
<1> QED
  BY <1>1, <1>3, StepKeeps

(* There is a settled budget: what is due can be reckoned up from below.    *)
LEMMA Settled ==
  ASSUME NEW b
  PROVE  \E f : f = [n \in Rows |-> Due(n, b, f)]
<1> DEFINE N == Cardinality(Rows)
           Low(j) == {n \in Rows : Tier[n] + j > N}
           G == {j \in Nat : \E f : f = [n \in Low(j) |-> Due(n, b, f)]}
<1>1. N \in Nat /\ \A n \in Rows : Tier[n] \in Nat /\ Tier[n] <= N
  BY TierBound
<1> HIDE DEF N
<1>2. 0 \in G
  <2>1. Low(0) = {}
    BY <1>1
  <2>2. [n \in {} |-> 0] = [n \in Low(0) |-> Due(n, b, [m \in {} |-> 0])]
    BY <2>1
  <2> QED
    BY <2>2
<1>3. ASSUME NEW j \in Nat, j \in G PROVE j + 1 \in G
  <2>1. PICK f : f = [n \in Low(j) |-> Due(n, b, f)]
    BY <1>3
  <2> DEFINE g == [n \in Low(j + 1) |-> Due(n, b, f)]
  <2>2. ASSUME NEW n \in Low(j + 1) PROVE Due(n, b, f) = Due(n, b, g)
    <3>1. ASSUME NEW c \in Children(n) PROVE f[c] = g[c]
      <4>1. c \in Rows /\ Tier[c] = Tier[n] + 1 /\ Tier[n] \in Nat
        BY ChildTier
      <4>2. c \in Low(j) /\ c \in Low(j + 1)
        BY <1>1, <2>2, <4>1
      <4>3. f[c] = Due(c, b, f)
        BY <2>1, <4>2
      <4> QED
        BY <4>2, <4>3
    <3> HIDE DEF g
    <3>2. [c \in Children(n) |-> f[c]] = [c \in Children(n) |-> g[c]]
      BY <3>1
    <3> QED
      BY <3>2 DEF Due
  <2>3. g = [n \in Low(j + 1) |-> Due(n, b, g)]
    <3> DEFINE h == [n \in Low(j + 1) |-> Due(n, b, g)]
    <3>1. \A n \in Low(j + 1) : g[n] = h[n]
      BY <2>2
    <3>2. g = [n \in Low(j + 1) |-> g[n]] /\ h = [n \in Low(j + 1) |-> h[n]]
      OBVIOUS
    <3> HIDE DEF g, h
    <3>3. g = h
      BY <3>1, <3>2
    <3> QED
      BY <3>3 DEF h
  <2> HIDE DEF g
  <2> QED
    BY <2>3
<1>4. Nat \subseteq G
  <2> HIDE DEF G
  <2> QED
    BY <1>2, <1>3, NatSetInduction
<1>5. \E f : f = [n \in Low(N + 1) |-> Due(n, b, f)]
  <2>1. N + 1 \in Nat
    BY <1>1
  <2>2. N + 1 \in G
    <3> HIDE DEF G
    <3> QED
      BY <1>4, <2>1
  <2> QED
    BY <2>2
<1>6. Low(N + 1) = Rows
  BY <1>1
<1> QED
  BY <1>5, <1>6

LEMMA InitSettled ==
  ASSUME ActualsInit
  PROVE  rec = [n \in Rows |-> Due(n, book, rec)]
<1> DEFINE settled == CHOOSE f : f = [n \in Rows |-> Due(n, book, f)]
<1>1. rec = settled
  BY DEF ActualsInit
<1>2. settled = [n \in Rows |-> Due(n, book, settled)]
  BY Settled
<1> HIDE DEF settled
<1> QED
  BY <1>1, <1>2

LEMMA ActualsInitKeeps == ActualsInit => ActualsInv
<1> SUFFICES ASSUME ActualsInit PROVE ActualsInv
  OBVIOUS
<1>1. /\ markups = Markups /\ raced = {} /\ tx = [w \in Worker |-> Resting]
      /\ book \in [Ids -> {Null} \cup Entry]
  BY DEF ActualsInit, Entry
<1>2. DOMAIN rec = Rows /\ \A n \in Rows : rec[n] = Due(n, book, rec)
  <2> DEFINE D(n) == Due(n, book, rec)
  <2>1. rec = [n \in Rows |-> D(n)]
    BY InitSettled
  <2> HIDE DEF D
  <2>2. DOMAIN rec = Rows /\ \A n \in Rows : rec[n] = D(n)
    BY <2>1
  <2> QED
    BY <2>2 DEF D
<1>3. \A w \in Worker : tx[w] = Resting
  BY <1>1
<1>4. Local(Resting, rec, book, markups)
  BY ONLY <1>1, RestLocal
<1> QED
  BY <1>1, <1>2, <1>3, <1>4 DEF ActualsInv

LEMMA ActualsNextKeep ==
  ASSUME Avoided = Situations, ActualsInv, [ActualsNext]_actualsVars
  PROVE  ActualsInv'
<1>1. CASE UNCHANGED actualsVars
  BY <1>1 DEF actualsVars, ActualsInv, Due
<1>2. CASE Rest
  BY <1>2 DEF Rest, actualsVars, ActualsInv, Due
<1>3. ASSUME NEW w \in Worker, StartClimb(w) \/ EndClimb(w) \/ Step(w) PROVE ActualsInv'
  <2>1. CASE StartClimb(w)
    BY <2>1, StartClimbKeeps
  <2>2. CASE EndClimb(w)
    BY <2>2, EndClimbKeeps
  <2>3. CASE Step(w)
    BY <2>3, AsksKeep,
       WriteAddKeeps, WriteSaveKeeps, WriteDeleteKeeps, WriteDeleteMarkupsKeeps,
       PassKeeps, CommitKeeps, RollBackKeeps DEF Step
  <2> QED
    BY <1>3, <2>1, <2>2, <2>3
<1> QED
  BY <1>1, <1>2, <1>3 DEF ActualsNext

(* Whatever is moved, deleted or changed, by however many requests at once: *)
(* every row not raced has what actualizing it would store.                 *)
THEOREM RightUnlessRacedCorrect ==
  ASSUME Avoided = Situations
  PROVE  ActualsSpec => []RightUnlessRaced
<1>1. ActualsInit => ActualsInv
  BY ActualsInitKeeps
<1>2. ActualsInv /\ [ActualsNext]_actualsVars => ActualsInv'
  BY ActualsNextKeep
<1>3. ActualsInv => RightUnlessRaced
  BY DEF ActualsInv, RightUnlessRaced
<1> QED
  BY <1>1, <1>2, <1>3, PTL DEF ActualsSpec

-------------------------------------------------------------------------------
(* Sums. *)

Pick(s) == CHOOSE x \in s : TRUE
On(f, S) == [x \in S |-> f[x]]

(* A table of the sums of f over the sets of T. *)
Adds(g, f, T) == g = [s \in T |-> IF s = {} THEN 0 ELSE f[Pick(s)] + g[s \ {Pick(s)}]]

LEMMA PickIn == \A s : s # {} => Pick(s) \in s
BY DEF Pick

LEMMA Smaller ==
  ASSUME NEW s, IsFiniteSet(s), NEW x \in s
  PROVE  /\ IsFiniteSet(s \ {x}) /\ Cardinality(s) \in Nat \ {0}
         /\ Cardinality(s \ {x}) = Cardinality(s) - 1
BY FS_RemoveElement, FS_CardinalityType, FS_EmptySet

LEMMA NotEmpty ==
  ASSUME NEW s, NEW n \in Nat, Cardinality(s) = n + 1
  PROVE  s # {}
<1>1. Cardinality({}) = 0
  BY FS_EmptySet
<1>2. n + 1 # 0
  OBVIOUS
<1> QED
  BY <1>1, <1>2

LEMMA OneLess ==
  ASSUME NEW s, IsFiniteSet(s), NEW n \in Nat, Cardinality(s) = n + 1, NEW x \in s
  PROVE  Cardinality(s \ {x}) = n
<1>1. Cardinality(s \ {x}) = Cardinality(s) - 1
  BY Smaller
<1> QED
  BY <1>1

LEMMA AddsAt ==
  ASSUME NEW g, NEW f, NEW T, Adds(g, f, T)
  PROVE  /\ {} \in T => g[{}] = 0
         /\ \A s \in T : s # {} => g[s] = f[Pick(s)] + g[s \ {Pick(s)}]
<1> DEFINE e(s) == IF s = {} THEN 0 ELSE f[Pick(s)] + g[s \ {Pick(s)}]
<1>1. g = [s \in T |-> e(s)]
  BY DEF Adds
<1> HIDE DEF e
<1>2. \A s \in T : g[s] = e(s)
  BY <1>1
<1> QED
  BY <1>2 DEF e

LEMMA AddsExists ==
  ASSUME NEW D, IsFiniteSet(D), NEW f
  PROVE  \E g : Adds(g, f, SUBSET D)
<1> DEFINE Low(n) == {s \in SUBSET D : Cardinality(s) < n}
           G == {n \in Nat : \E g : Adds(g, f, Low(n))}
<1>1. \A s \in SUBSET D : IsFiniteSet(s) /\ Cardinality(s) \in Nat /\ Cardinality(s) <= Cardinality(D)
  BY FS_Subset, FS_CardinalityType
<1>2. 0 \in G
  <2>1. Low(0) = {}
    BY <1>1
  <2>2. Adds([s \in {} |-> 0], f, Low(0))
    BY <2>1 DEF Adds
  <2> QED
    BY <2>2
<1>3. ASSUME NEW n \in Nat, n \in G PROVE n + 1 \in G
  <2>1. PICK g : Adds(g, f, Low(n))
    BY <1>3
  <2> DEFINE e(s, k) == IF s = {} THEN 0 ELSE f[Pick(s)] + k[s \ {Pick(s)}]
             h == [s \in Low(n + 1) |-> e(s, g)]
  <2>2. \A s \in Low(n) : g[s] = e(s, g)
    <3>1. g = [s \in Low(n) |-> e(s, g)]
      BY <2>1 DEF Adds
    <3> HIDE DEF e
    <3> QED
      BY <3>1
  <2>3. ASSUME NEW s \in Low(n + 1) PROVE e(s, g) = e(s, h)
    <3>1. CASE s = {}
      BY <3>1
    <3>2. CASE s # {}
      <4> DEFINE r == s \ {Pick(s)}
      <4>1. Pick(s) \in s
        BY <3>2, PickIn
      <4>2. r \in SUBSET D /\ Cardinality(r) = Cardinality(s) - 1 /\ Cardinality(s) \in Nat \ {0}
        BY <1>1, <2>3, <4>1, Smaller
      <4>3. r \in Low(n) /\ r \in Low(n + 1)
        BY <2>3, <4>2
      <4>4. h[r] = g[r]
        <5> HIDE DEF e, r
        <5> QED
          BY <2>2, <4>3
      <4> QED
        BY <3>2, <4>4
    <3> QED
      BY <3>1, <3>2
  <2>4. h = [s \in Low(n + 1) |-> e(s, h)]
    <3> DEFINE k == [s \in Low(n + 1) |-> e(s, h)]
    <3>1. \A s \in Low(n + 1) : h[s] = k[s]
      BY <2>3
    <3>2. h = [s \in Low(n + 1) |-> h[s]] /\ k = [s \in Low(n + 1) |-> k[s]]
      OBVIOUS
    <3> HIDE DEF h, k
    <3>3. h = k
      BY <3>1, <3>2
    <3> QED
      BY <3>3 DEF k
  <2>5. Adds(h, f, Low(n + 1))
    <3> HIDE DEF h
    <3> QED
      BY <2>4 DEF Adds
  <2> HIDE DEF h
  <2> QED
    BY <2>5
<1>4. Nat \subseteq G
  <2> HIDE DEF G
  <2> QED
    BY <1>2, <1>3, NatSetInduction
<1> DEFINE N == Cardinality(D)
<1>5. N \in Nat
  BY FS_CardinalityType
<1>6. Low(N + 1) = SUBSET D
  BY <1>1, <1>5
<1>7. N + 1 \in G
  <2> HIDE DEF G, N
  <2> QED
    BY <1>4, <1>5
<1> QED
  BY <1>6, <1>7

LEMMA AddsAgree ==
  ASSUME NEW D, IsFiniteSet(D), NEW g, NEW h, NEW f, NEW k, NEW T, NEW U,
         Adds(g, f, T), Adds(h, k, U), SUBSET D \subseteq T, SUBSET D \subseteq U,
         \A x \in D : f[x] = k[x]
  PROVE  g[D] = h[D]
<1> DEFINE G == {n \in Nat : \A s \in SUBSET D : Cardinality(s) = n => g[s] = h[s]}
<1>1. \A s \in SUBSET D : IsFiniteSet(s) /\ Cardinality(s) \in Nat
  BY FS_Subset, FS_CardinalityType
<1>2. 0 \in G
  <2>1. ASSUME NEW s \in SUBSET D, Cardinality(s) = 0 PROVE g[s] = h[s]
    <3>1. s = {} /\ s \in T /\ s \in U
      BY <1>1, <2>1, FS_EmptySet
    <3> QED
      BY <3>1, AddsAt
  <2> QED
    BY <2>1
<1>3. ASSUME NEW n \in Nat, n \in G PROVE n + 1 \in G
  <2>1. ASSUME NEW s \in SUBSET D, Cardinality(s) = n + 1 PROVE g[s] = h[s]
    <3>1. s # {} /\ s \in T /\ s \in U
      <4>1. s # {}
        BY <2>1, NotEmpty
      <4> QED
        BY <2>1, <4>1
    <3>2. Pick(s) \in s /\ Pick(s) \in D
      BY <3>1, PickIn
    <3>3. Cardinality(s \ {Pick(s)}) = n /\ s \ {Pick(s)} \in SUBSET D
      <4>1. IsFiniteSet(s) /\ Cardinality(s) = n + 1
        BY <1>1, <2>1
      <4> QED
        BY <3>2, <4>1, Smaller
    <3>4. g[s \ {Pick(s)}] = h[s \ {Pick(s)}]
      BY <1>3, <3>3
    <3>5. g[s] = f[Pick(s)] + g[s \ {Pick(s)}] /\ h[s] = k[Pick(s)] + h[s \ {Pick(s)}]
      BY <3>1, AddsAt
    <3> QED
      BY <3>2, <3>4, <3>5
  <2> QED
    BY <2>1
<1>4. Nat \subseteq G
  <2> HIDE DEF G
  <2> QED
    BY <1>2, <1>3, NatSetInduction
<1>5. Cardinality(D) \in G
  <2> HIDE DEF G
  <2> QED
    BY <1>1, <1>4
<1> QED
  BY <1>5

LEMMA SumIs ==
  ASSUME NEW f, IsFiniteSet(DOMAIN f)
  PROVE  \E g : Adds(g, f, SUBSET DOMAIN f) /\ Sum(f) = g[DOMAIN f]
<1> DEFINE D == DOMAIN f
           iter == CHOOSE g : g = [s \in SUBSET D |->
                     IF s = {} THEN 0 ELSE f[Pick(s)] + g[s \ {Pick(s)}]]
<1>1. Sum(f) = iter[D]
  BY DEF Sum, FoldFunction, FoldFunctionOnSet, MapThenFoldSet, Pick
<1>2. PICK g : Adds(g, f, SUBSET D)
  BY AddsExists
<1>3. iter = [s \in SUBSET D |-> IF s = {} THEN 0 ELSE f[Pick(s)] + iter[s \ {Pick(s)}]]
  BY <1>2 DEF Adds
<1>4. Adds(iter, f, SUBSET D)
  <2> HIDE DEF iter
  <2> QED
    BY <1>3 DEF Adds
<1> QED
  BY <1>1, <1>4

(* The sum over a set, one of them apart. *)
LEMMA SumEmpty == \A f : Sum(On(f, {})) = 0
<1> TAKE f
<1>1. DOMAIN On(f, {}) = {} /\ IsFiniteSet({})
  BY FS_EmptySet DEF On
<1>2. PICK g : Adds(g, On(f, {}), SUBSET {}) /\ Sum(On(f, {})) = g[{}]
  BY <1>1, SumIs
<1> QED
  BY <1>2, AddsAt

LEMMA SumPick ==
  ASSUME NEW f, NEW S, IsFiniteSet(S), S # {}
  PROVE  Pick(S) \in S /\ Sum(On(f, S)) = f[Pick(S)] + Sum(On(f, S \ {Pick(S)}))
<1> DEFINE x == Pick(S)
           R == S \ {x}
<1>1. x \in S
  BY PickIn
<1>2. DOMAIN On(f, S) = S /\ DOMAIN On(f, R) = R /\ IsFiniteSet(R)
  BY FS_RemoveElement DEF On
<1>3. PICK g : Adds(g, On(f, S), SUBSET S) /\ Sum(On(f, S)) = g[S]
  BY <1>2, SumIs
<1>4. PICK h : Adds(h, On(f, R), SUBSET R) /\ Sum(On(f, R)) = h[R]
  <2> HIDE DEF R
  <2> QED
    BY <1>2, SumIs
<1>5. g[S] = On(f, S)[x] + g[R]
  <2>1. S \in SUBSET S
    OBVIOUS
  <2> QED
    BY <1>3, <2>1, AddsAt
<1>6. \A y \in R : On(f, S)[y] = On(f, R)[y]
  BY DEF On
<1>7. g[R] = h[R]
  <2>1. SUBSET R \subseteq SUBSET S
    OBVIOUS
  <2> DEFINE a == On(f, S)
             c == On(f, R)
             T == SUBSET S
             U == SUBSET R
  <2>2. Adds(g, a, T) /\ Adds(h, c, U) /\ SUBSET R \subseteq T /\ SUBSET R \subseteq U /\ \A y \in R : a[y] = c[y]
    BY <1>3, <1>4, <1>6, <2>1
  <2> HIDE DEF R, a, c, T, U
  <2> QED
    BY <1>2, <2>2, AddsAgree
<1> QED
  BY <1>1, <1>3, <1>4, <1>5, <1>7 DEF On

LEMMA SumNat ==
  ASSUME NEW S, IsFiniteSet(S), NEW f, \A x \in S : f[x] \in Nat
  PROVE  Sum(On(f, S)) \in Nat
<1> DEFINE G == {n \in Nat : \A R \in SUBSET S : Cardinality(R) = n => Sum(On(f, R)) \in Nat}
<1>1. \A R \in SUBSET S : IsFiniteSet(R) /\ Cardinality(R) \in Nat
  BY FS_Subset, FS_CardinalityType
<1>2. 0 \in G
  <2>1. ASSUME NEW R \in SUBSET S, Cardinality(R) = 0 PROVE Sum(On(f, R)) \in Nat
    BY <1>1, <2>1, FS_EmptySet, SumEmpty
  <2> QED
    BY <2>1
<1>3. ASSUME NEW n \in Nat, n \in G PROVE n + 1 \in G
  <2>1. ASSUME NEW R \in SUBSET S, Cardinality(R) = n + 1 PROVE Sum(On(f, R)) \in Nat
    <3>1. R # {}
      BY <2>1, NotEmpty
    <3>2. Pick(R) \in R /\ Sum(On(f, R)) = f[Pick(R)] + Sum(On(f, R \ {Pick(R)}))
      BY <1>1, <3>1, SumPick
    <3>3. Cardinality(R \ {Pick(R)}) = n /\ R \ {Pick(R)} \in SUBSET S
      BY <1>1, <2>1, <3>2, OneLess
    <3>4. Sum(On(f, R \ {Pick(R)})) \in Nat
      BY <1>3, <3>3
    <3> QED
      BY <3>2, <3>4
  <2> QED
    BY <2>1
<1>4. Cardinality(S) \in G
  <2> HIDE DEF G
  <2>1. Nat \subseteq G
    BY <1>2, <1>3, NatSetInduction
  <2> QED
    BY <1>1, <2>1
<1> QED
  BY <1>4

(* Whichever is taken first. *)
LEMMA SumApart ==
  ASSUME NEW S, IsFiniteSet(S), NEW f, \A x \in S : f[x] \in Nat, NEW x \in S
  PROVE  Sum(On(f, S)) = f[x] + Sum(On(f, S \ {x}))
<1> DEFINE G == {n \in Nat : \A R \in SUBSET S : Cardinality(R) = n =>
                   \A y \in R : Sum(On(f, R)) = f[y] + Sum(On(f, R \ {y}))}
<1>1. \A R \in SUBSET S : IsFiniteSet(R) /\ Cardinality(R) \in Nat /\ Sum(On(f, R)) \in Nat
  BY FS_Subset, FS_CardinalityType, SumNat
<1>2. 0 \in G
  <2>1. \A R \in SUBSET S : Cardinality(R) = 0 => R = {}
    BY <1>1, FS_EmptySet
  <2> QED
    BY <2>1
<1>3. ASSUME NEW n \in Nat, n \in G PROVE n + 1 \in G
  <2>1. ASSUME NEW R \in SUBSET S, Cardinality(R) = n + 1, NEW y \in R
        PROVE  Sum(On(f, R)) = f[y] + Sum(On(f, R \ {y}))
    <3> DEFINE z == Pick(R)
    <3>1. z \in R /\ Sum(On(f, R)) = f[z] + Sum(On(f, R \ {z}))
      BY <1>1, SumPick
    <3>2. CASE z = y
      BY <3>1, <3>2
    <3>3. CASE z # y
      <4>1. /\ Cardinality(R \ {z}) = n /\ R \ {z} \in SUBSET S /\ y \in R \ {z}
            /\ Cardinality(R \ {y}) = n /\ R \ {y} \in SUBSET S /\ z \in R \ {y}
        BY <1>1, <2>1, <3>1, <3>3, Smaller
      <4>2. Sum(On(f, R \ {z})) = f[y] + Sum(On(f, (R \ {z}) \ {y}))
        BY <1>3, <4>1
      <4>3. Sum(On(f, R \ {y})) = f[z] + Sum(On(f, (R \ {y}) \ {z}))
        BY <1>3, <4>1
      <4>4. (R \ {z}) \ {y} = (R \ {y}) \ {z} /\ (R \ {z}) \ {y} \in SUBSET S
        OBVIOUS
      <4>5. Sum(On(f, (R \ {z}) \ {y})) \in Nat /\ f[y] \in Nat /\ f[z] \in Nat
        BY <1>1, <3>1, <4>4
      <4> HIDE DEF z
      <4> QED
        BY <3>1, <4>2, <4>3, <4>4, <4>5
    <3> QED
      BY <3>2, <3>3
  <2> QED
    BY <2>1
<1>4. Cardinality(S) \in G
  <2> HIDE DEF G
  <2>1. Nat \subseteq G
    BY <1>2, <1>3, NatSetInduction
  <2> QED
    BY <1>1, <2>1
<1> QED
  BY <1>4

LEMMA SumUnion ==
  ASSUME NEW A, NEW B, IsFiniteSet(A), IsFiniteSet(B), A \cap B = {},
         NEW f, \A x \in A \cup B : f[x] \in Nat
  PROVE  Sum(On(f, A \cup B)) = Sum(On(f, A)) + Sum(On(f, B))
<1> DEFINE G == {n \in Nat : \A R \in SUBSET B : Cardinality(R) = n =>
                   Sum(On(f, A \cup R)) = Sum(On(f, A)) + Sum(On(f, R))}
<1>1. \A R \in SUBSET B : IsFiniteSet(R) /\ Cardinality(R) \in Nat /\ Sum(On(f, R)) \in Nat
  BY FS_Subset, FS_CardinalityType, SumNat
<1>2. Sum(On(f, A)) \in Nat
  BY SumNat
<1>3. 0 \in G
  <2>1. ASSUME NEW R \in SUBSET B, Cardinality(R) = 0
        PROVE  Sum(On(f, A \cup R)) = Sum(On(f, A)) + Sum(On(f, R))
    <3>1. R = {} /\ A \cup R = A
      BY <1>1, <2>1, FS_EmptySet
    <3>2. Sum(On(f, R)) = 0
      BY <3>1, SumEmpty
    <3> QED
      BY <1>2, <3>1, <3>2
  <2> QED
    BY <2>1
<1>4. ASSUME NEW n \in Nat, n \in G PROVE n + 1 \in G
  <2>1. ASSUME NEW R \in SUBSET B, Cardinality(R) = n + 1
        PROVE  Sum(On(f, A \cup R)) = Sum(On(f, A)) + Sum(On(f, R))
    <3>1. R # {}
      BY <2>1, NotEmpty
    <3>2. PICK y \in R : TRUE
      BY <3>1
    <3> DEFINE Q == R \ {y}
               H == A \cup R
    <3>3. Q \in SUBSET B /\ Cardinality(Q) = n /\ H \ {y} = A \cup Q /\ y \in H
      BY <1>1, <2>1, OneLess
    <3>4. Sum(On(f, A \cup Q)) = Sum(On(f, A)) + Sum(On(f, Q))
      BY <1>4, <3>3
    <3>5. IsFiniteSet(H) /\ \A x \in H : f[x] \in Nat
      BY <1>1, FS_Union
    <3>6. Sum(On(f, R)) = f[y] + Sum(On(f, Q))
      <4>1. \A x \in R : f[x] \in Nat
        OBVIOUS
      <4> QED
        BY <1>1, <4>1, SumApart
    <3>7. Sum(On(f, H)) = f[y] + Sum(On(f, H \ {y}))
      <4> HIDE DEF H
      <4> QED
        BY <3>3, <3>5, SumApart
    <3>8. Sum(On(f, Q)) \in Nat /\ f[y] \in Nat
      BY <1>1, <3>3
    <3> HIDE DEF H, Q
    <3>9. Sum(On(f, H)) = f[y] + (Sum(On(f, A)) + Sum(On(f, Q)))
      BY <3>3, <3>4, <3>7
    <3>10. Sum(On(f, H)) = Sum(On(f, A)) + Sum(On(f, R))
      BY <1>2, <3>6, <3>8, <3>9
    <3> QED
      BY <3>10 DEF H
  <2> QED
    BY <2>1
<1>5. Cardinality(B) \in G
  <2> HIDE DEF G
  <2>1. Nat \subseteq G
    BY <1>3, <1>4, NatSetInduction
  <2> QED
    BY <1>1, <2>1
<1> QED
  BY <1>5

LEMMA SumOfSums ==
  ASSUME NEW C, IsFiniteSet(C), NEW W, IsFiniteSet(W), NEW f, \A x \in W : f[x] \in Nat,
         NEW A, \A c \in C : A[c] \in SUBSET W,
         \A c, d \in C : c # d => A[c] \cap A[d] = {},
         NEW g, \A c \in C : g[c] = Sum(On(f, A[c]))
  PROVE  Sum(On(g, C)) = Sum(On(f, UNION {A[c] : c \in C}))
<1> DEFINE U(R) == UNION {A[c] : c \in R}
           G == {n \in Nat : \A R \in SUBSET C : Cardinality(R) = n =>
                   Sum(On(g, R)) = Sum(On(f, U(R)))}
<1>1. \A R \in SUBSET C : IsFiniteSet(R) /\ Cardinality(R) \in Nat
  BY FS_Subset, FS_CardinalityType
<1>2. \A S \in SUBSET W : IsFiniteSet(S) /\ Sum(On(f, S)) \in Nat
  BY FS_Subset, SumNat
<1>3. \A c \in C : g[c] \in Nat
  BY <1>2
<1>4. 0 \in G
  <2>1. ASSUME NEW R \in SUBSET C, Cardinality(R) = 0
        PROVE  Sum(On(g, R)) = Sum(On(f, U(R)))
    <3>1. R = {}
      BY <1>1, <2>1, FS_EmptySet
    <3>2. U(R) = {}
      BY <3>1
    <3> QED
      BY <3>1, <3>2, SumEmpty
  <2> QED
    BY <2>1
<1>5. ASSUME NEW n \in Nat, n \in G PROVE n + 1 \in G
  <2>1. ASSUME NEW R \in SUBSET C, Cardinality(R) = n + 1
        PROVE  Sum(On(g, R)) = Sum(On(f, U(R)))
    <3>1. R # {}
      BY <2>1, NotEmpty
    <3>2. PICK y \in R : TRUE
      BY <3>1
    <3> DEFINE Q == R \ {y}
    <3>3. Q \in SUBSET C /\ Cardinality(Q) = n /\ y \in C /\ y \notin Q
      BY <1>1, <2>1, OneLess
    <3>4. Sum(On(g, Q)) = Sum(On(f, U(Q)))
      BY <1>5, <3>3
    <3>5. Sum(On(g, R)) = g[y] + Sum(On(g, Q))
      <4>1. \A c \in R : g[c] \in Nat
        BY <1>3
      <4> QED
        BY <1>1, <4>1, SumApart
    <3>6. U(R) = U(Q) \cup A[y]
      OBVIOUS
    <3>7. U(Q) \in SUBSET W /\ A[y] \in SUBSET W
      BY <3>3
    <3>8. U(Q) \cap A[y] = {}
      BY <3>3
    <3>9. Sum(On(f, U(R))) = Sum(On(f, U(Q))) + Sum(On(f, A[y]))
      <4> DEFINE L == U(Q)
                 K == A[y]
      <4>1. L \in SUBSET W /\ K \in SUBSET W /\ L \cap K = {} /\ U(R) = L \cup K
        BY <3>6, <3>7, <3>8
      <4> HIDE DEF L, K, U
      <4>2. IsFiniteSet(L) /\ IsFiniteSet(K) /\ \A x \in L \cup K : f[x] \in Nat
        BY <1>2, <4>1
      <4>3. Sum(On(f, L \cup K)) = Sum(On(f, L)) + Sum(On(f, K))
        BY <4>1, <4>2, SumUnion
      <4> QED
        BY <4>1, <4>3 DEF L, K
    <3>10. g[y] = Sum(On(f, A[y])) /\ g[y] \in Nat /\ Sum(On(f, U(Q))) \in Nat
      BY <1>2, <1>3, <3>3, <3>7
    <3> HIDE DEF U, Q
    <3> QED
      BY <3>4, <3>5, <3>9, <3>10
  <2> QED
    BY <2>1
<1>6. Cardinality(C) \in G
  <2> HIDE DEF G
  <2>1. Nat \subseteq G
    BY <1>4, <1>5, NatSetInduction
  <2> QED
    BY <1>1, <2>1
<1> QED
  BY <1>6

-------------------------------------------------------------------------------
(* What the budget comes to. *)

LEMMA BudgetAbove ==
  ASSUME NEW k \in Rows \ {BudgetRow}
  PROVE  BudgetRow \in Above[k]
<1> DEFINE G == {j \in Nat : \A n \in Rows \ {BudgetRow} : Tier[n] = j + 1 => BudgetRow \in Above[n]}
<1>1. 0 \in G
  <2>1. ASSUME NEW n \in Rows \ {BudgetRow}, Tier[n] = 0 + 1 PROVE BudgetRow \in Above[n]
    <3>1. Parent[n] = BudgetRow
      BY <2>1, TiersAre, RowsAre
    <3> QED
      BY <3>1, AboveClosed
  <2> QED
    BY <2>1
<1>2. ASSUME NEW j \in Nat, j \in G PROVE j + 1 \in G
  <2>1. ASSUME NEW n \in Rows \ {BudgetRow}, Tier[n] = (j + 1) + 1 PROVE BudgetRow \in Above[n]
    <3>1. Parent[n] \in Rows /\ Tier[n] = Tier[Parent[n]] + 1 /\ Tier[Parent[n]] \in Nat
      BY TierIs, RowsAre
    <3>2. Tier[Parent[n]] = j + 1 /\ Parent[n] # BudgetRow
      BY <2>1, <3>1, TierIs
    <3>3. BudgetRow \in Above[Parent[n]]
      BY <1>2, <3>1, <3>2
    <3> QED
      BY <3>3, AboveIs
  <2> QED
    BY <2>1
<1>3. Nat \subseteq G
  <2> HIDE DEF G
  <2> QED
    BY <1>1, <1>2, NatSetInduction
<1>4. Tier[k] \in Nat /\ Tier[k] # 0
  BY TierIs, TiersAre
<1>5. Tier[k] - 1 \in G
  <2> HIDE DEF G
  <2> QED
    BY <1>3, <1>4
<1> QED
  BY <1>4, <1>5

LEMMA Gathered ==
  ASSUME NEW b \in [Ids -> {Null} \cup Entry], NEW mk \in SUBSET Markups, NEW r,
         \A n \in Rows : r[n] = Sum([c \in Children(n) |-> r[c]]) + OwnOf(n, b, mk)
  PROVE  r[BudgetRow] = ValueOf(b, Subs \cup mk)
<1> DEFINE val == [x \in Ids |-> IF b[x] = Null THEN 0 ELSE b[x].value]
           Base == OwnedBy(b, Subs \cup mk)
           row(x) == RowOf(b[x].owner)
           Lower(n) == {x \in Base : row(x) = n \/ n \in Above[row(x)]}
           Own(n) == OwnedBy(b, {n} \cup {m \in mk : MarkupParent[m] = n})
           N == Cardinality(Rows)
<1>1. /\ Base \subseteq Ids /\ IsFiniteSet(Ids) /\ \A x \in Ids : val[x] \in Nat
      /\ \A S \in SUBSET Ids : IsFiniteSet(S) /\ Sum(On(val, S)) \in Nat
  <2>1. Base \subseteq Ids /\ IsFiniteSet(Ids)
    BY ActualizeAssumption DEF OwnedBy
  <2>2. \A x \in Ids : val[x] \in Nat
    BY ActualizeAssumption DEF Entry
  <2> HIDE DEF val
  <2>3. \A S \in SUBSET Ids : IsFiniteSet(S) /\ Sum(On(val, S)) \in Nat
    BY <2>1, <2>2, FS_Subset, SumNat
  <2> QED
    BY <2>1, <2>2, <2>3
<1>2. \A x \in Base : /\ b[x] # Null /\ b[x].owner \in Subs \cup mk
                      /\ row(x) \in Rows
  BY ActualizeAssumption DEF OwnedBy, RowOf, Rows
<1>3. \A n \in Rows : Own(n) = {x \in Base : row(x) = n}
  <2> SUFFICES ASSUME NEW n \in Rows PROVE Own(n) = {x \in Base : row(x) = n}
    OBVIOUS
  <2>1. n \notin Markups /\ n # Null
    BY ActualizeAssumption
  <2>2. ASSUME NEW x \in Own(n) PROVE x \in Base /\ row(x) = n
    <3>1. /\ x \in Ids /\ b[x] # Null /\ b[x] \in Entry
          /\ b[x].owner = n \/ (b[x].owner \in mk /\ MarkupParent[b[x].owner] = n)
      BY DEF OwnedBy
    <3>2. b[x].owner \in Owners \cup {Null}
      BY <3>1 DEF Entry
    <3>3. b[x].owner \in Subs \cup mk
      BY <2>1, <3>1, <3>2 DEF Owners
    <3> QED
      BY <2>1, <3>1, <3>3 DEF OwnedBy, RowOf
  <2>3. ASSUME NEW x \in Base, row(x) = n PROVE x \in Own(n)
    <3>1. x \in Ids /\ b[x] # Null /\ b[x].owner \in Subs \cup mk
      BY DEF OwnedBy
    <3>2. b[x].owner = n \/ (b[x].owner \in mk /\ MarkupParent[b[x].owner] = n)
      BY <2>3, <3>1, ActualizeAssumption DEF RowOf, Rows
    <3> QED
      BY <3>1, <3>2 DEF OwnedBy
  <2> QED
    BY <2>2, <2>3
<1>4. \A O : ValueOf(b, O) = Sum(On(val, OwnedBy(b, O)))
  <2> TAKE O
  <2>1. \A x \in OwnedBy(b, O) : b[x].value = val[x]
    BY DEF OwnedBy
  <2> HIDE DEF val
  <2>2. [x \in OwnedBy(b, O) |-> b[x].value] = [x \in OwnedBy(b, O) |-> val[x]]
    BY <2>1
  <2> QED
    BY <2>2 DEF ValueOf, On
<1>5. \A n : OwnOf(n, b, mk) = Sum(On(val, Own(n)))
  BY <1>4 DEF OwnOf
<1> HIDE DEF val, Base, row, Own, N
<1>6. ASSUME NEW n \in Rows
      PROVE  /\ Lower(n) = Own(n) \cup UNION {Lower(c) : c \in Children(n)}
             /\ Own(n) \cap UNION {Lower(c) : c \in Children(n)} = {}
             /\ \A c, d \in Children(n) : c # d => Lower(c) \cap Lower(d) = {}
  <2>1. \A c \in Children(n) : c \in Rows \ {BudgetRow} /\ Parent[c] = n /\ Tier[c] = Tier[n] + 1
    BY ChildTier
  <2>2. ASSUME NEW x \in Base, n \in Above[row(x)]
        PROVE  \E c \in Children(n) : x \in Lower(c)
    <3>1. row(x) \in Rows \ {BudgetRow}
      BY <1>2, <2>2, AboveBudget
    <3>2. CASE n = Parent[row(x)]
      BY <3>1, <3>2, ChildrenAre
    <3>3. CASE n # Parent[row(x)]
      <4>1. PICK i \in Above[row(x)] \ {BudgetRow} : n = Parent[i]
        BY <2>2, <3>1, <3>3, AboveByChild
      <4>2. i \in Rows
        BY <3>1, AboveClosed
      <4> QED
        BY <4>1, <4>2, ChildrenAre
    <3> QED
      BY <3>2, <3>3
  <2>3. ASSUME NEW c \in Children(n), NEW x \in Lower(c)
        PROVE  x \in Base /\ n \in Above[row(x)] /\ row(x) # n
    <3>1. c \in Rows \ {BudgetRow} /\ Parent[c] = n /\ row(x) \in Rows /\ x \in Base
      BY <1>2, <2>1
    <3>2. n \in Above[row(x)]
      <4>1. CASE row(x) = c
        BY <3>1, <4>1, AboveClosed
      <4>2. CASE c \in Above[row(x)]
        <5>1. row(x) # BudgetRow
          BY <4>2, AboveBudget
        <5> QED
          BY <3>1, <4>2, <5>1, AboveClosed
      <4> QED
        BY <4>1, <4>2
    <3>3. row(x) # n
      BY <3>2, ActualizeAssumption
    <3> QED
      BY <3>1, <3>2, <3>3
  <2>4. ASSUME NEW c \in Children(n), NEW d \in Children(n), NEW x \in Lower(c), x \in Lower(d)
        PROVE  c = d
    <3>1. row(x) \in Rows /\ Tier[c] = Tier[d]
      BY <1>2, <2>1
    <3>2. CASE row(x) = c /\ d \in Above[row(x)]
      <4>1. Tier[d] < Tier[c] /\ Tier[c] \in Nat
        BY <2>1, <3>1, <3>2, AboveIsHigher, TierIs
      <4> QED
        BY <3>1, <4>1
    <3>3. CASE row(x) = d /\ c \in Above[row(x)]
      <4>1. Tier[c] < Tier[d] /\ Tier[c] \in Nat
        BY <2>1, <3>1, <3>3, AboveIsHigher, TierIs
      <4> QED
        BY <3>1, <4>1
    <3>4. CASE c \in Above[row(x)] /\ d \in Above[row(x)]
      BY <3>1, <3>4, OneAboveInTier
    <3> QED
      BY <2>4, <3>2, <3>3, <3>4
  <2>5. \A x : x \in Own(n) <=> x \in Base /\ row(x) = n
    BY <1>3
  <2>6. \A x : x \in Lower(n) <=> x \in Base /\ (row(x) = n \/ n \in Above[row(x)])
    OBVIOUS
  <2> HIDE DEF Lower
  <2>7. Lower(n) = Own(n) \cup UNION {Lower(c) : c \in Children(n)}
    BY <2>2, <2>3, <2>5, <2>6
  <2>8. Own(n) \cap UNION {Lower(c) : c \in Children(n)} = {}
    BY <2>3, <2>5
  <2> QED
    BY <2>4, <2>7, <2>8
<1>7. \A n : Lower(n) \in SUBSET Ids
  BY <1>1
<1> HIDE DEF Lower
<1> DEFINE G == {j \in Nat : \A n \in Rows : Tier[n] + j > N => r[n] = Sum(On(val, Lower(n)))}
<1>8. N \in Nat /\ \A n \in Rows : Tier[n] \in Nat /\ Tier[n] <= N
  BY TierBound DEF N
<1>9. 0 \in G
  BY <1>8
<1>10. ASSUME NEW j \in Nat, j \in G PROVE j + 1 \in G
  <2>1. ASSUME NEW n \in Rows, Tier[n] + (j + 1) > N PROVE r[n] = Sum(On(val, Lower(n)))
    <3> DEFINE C == Children(n)
               A == [c \in C |-> Lower(c)]
               L == UNION {A[c] : c \in C}
    <3>1. \A c \in C : r[c] = Sum(On(val, A[c])) /\ A[c] \in SUBSET Ids
      <4> SUFFICES ASSUME NEW c \in C PROVE r[c] = Sum(On(val, Lower(c)))
        BY <1>7
      <4>1. c \in Rows /\ Tier[c] = Tier[n] + 1 /\ Tier[n] \in Nat
        BY ChildTier
      <4>2. Tier[c] + j > N
        BY <1>8, <2>1, <4>1
      <4> QED
        BY <1>10, <4>1, <4>2
    <3>2. IsFiniteSet(C)
      <4>1. C \subseteq Rows /\ IsFiniteSet(Rows)
        BY ChildrenAre, ActualizeAssumption
      <4> QED
        BY <4>1, FS_Subset
    <3>3. \A c, d \in C : c # d => A[c] \cap A[d] = {}
      BY <1>6
    <3>4. Sum(On(r, C)) = Sum(On(val, L))
      <4> HIDE DEF C, A
      <4> QED
        BY <1>1, <3>1, <3>2, <3>3, SumOfSums
    <3>5. L = UNION {Lower(c) : c \in Children(n)}
      OBVIOUS
    <3>6. Lower(n) = Own(n) \cup L /\ Own(n) \cap L = {} /\ L \in SUBSET Ids /\ Own(n) \in SUBSET Ids
      <4> HIDE DEF L
      <4> QED
        BY <1>6, <1>7, <3>5
    <3>7. [c \in Children(n) |-> r[c]] = On(r, C)
      BY DEF On
    <3>8. r[n] = Sum(On(r, C)) + Sum(On(val, Own(n)))
      BY <1>5, <3>7
    <3> HIDE DEF L, C, A
    <3>9. Sum(On(val, Own(n) \cup L)) = Sum(On(val, Own(n))) + Sum(On(val, L))
      <4> DEFINE K == Own(n)
      <4>1. IsFiniteSet(K) /\ IsFiniteSet(L) /\ K \cap L = {} /\ \A x \in K \cup L : val[x] \in Nat
        BY <1>1, <3>6
      <4> HIDE DEF K
      <4>2. Sum(On(val, K \cup L)) = Sum(On(val, K)) + Sum(On(val, L))
        BY <4>1, SumUnion
      <4> QED
        BY <4>2 DEF K
    <3>10. Sum(On(val, Own(n))) \in Nat /\ Sum(On(val, L)) \in Nat
      BY <1>1, <3>6
    <3> QED
      BY <3>4, <3>6, <3>8, <3>9, <3>10
  <2> QED
    BY <2>1
<1>11. N + 1 \in G
  <2> HIDE DEF G
  <2>1. Nat \subseteq G
    BY <1>9, <1>10, NatSetInduction
  <2> QED
    BY <1>8, <2>1
<1>12. r[BudgetRow] = Sum(On(val, Lower(BudgetRow)))
  BY <1>8, <1>11, RowsAre
<1>13. Lower(BudgetRow) = Base
  BY <1>2, BudgetAbove DEF Lower
<1> QED
  BY <1>4, <1>12, <1>13 DEF Base

(* If no row was raced, the figure of the budget is the sum of all actuals  *)
(* that have an owner, each counted once.                                   *)
THEOREM AddsUpCorrect ==
  ASSUME Avoided = Situations
  PROVE  ActualsSpec => []AddsUp
<1>1. ActualsInit => ActualsInv
  BY ActualsInitKeeps
<1>2. ActualsInv /\ [ActualsNext]_actualsVars => ActualsInv'
  BY ActualsNextKeep
<1>3. ActualsInv => AddsUp
  <2> SUFFICES ASSUME ActualsInv, raced = {} PROVE rec[BudgetRow] = ValueOf(book, Subs \cup markups)
    BY DEF AddsUp
  <2>1. book \in [Ids -> {Null} \cup Entry] /\ markups \in SUBSET Markups
    BY DEF ActualsInv
  <2>2. \A n \in Rows : rec[n] = Sum([c \in Children(n) |-> rec[c]]) + OwnOf(n, book, markups)
    BY DEF ActualsInv, Due, OwnOf
  <2> QED
    BY <2>1, <2>2, Gathered
<1> QED
  BY <1>1, <1>2, <1>3, PTL DEF ActualsSpec

-------------------------------------------------------------------------------
(* Types, whatever situations there are. *)

LEMMA ValueNat ==
  ASSUME NEW b, \A x \in Ids : b[x] \in {Null} \cup Entry, NEW O
  PROVE  ValueOf(b, O) \in Nat
<1> DEFINE S == OwnedBy(b, O)
           g == [x \in S |-> b[x].value]
<1>1. IsFiniteSet(S) /\ \A x \in S : x \in Ids /\ b[x] # Null
  BY FS_Subset, ActualizeAssumption DEF OwnedBy
<1>2. \A x \in S : g[x] \in Nat
  BY <1>1, ActualizeAssumption DEF Entry
<1>3. g = On(g, S)
  BY DEF On
<1>4. ValueOf(b, O) = Sum(g)
  BY DEF ValueOf
<1> HIDE DEF g, S
<1>5. Sum(On(g, S)) \in Nat
  BY <1>1, <1>2, SumNat
<1> QED
  BY <1>3, <1>4, <1>5

LEMMA ActualizedNat ==
  ASSUME Shapes, NEW t, Form(t), Figures(t), NEW n
  PROVE  Actualized(n, t) \in Nat
<1> DEFINE mine == StandIns(n, t.unsaved)
           S == Children(n) \cup mine
           g == [c \in S |-> IF c \in mine THEN t.unsaved[c] ELSE rec[c]]
<1>1. mine \subseteq DOMAIN t.unsaved /\ mine \subseteq Rows /\ Children(n) \subseteq Rows
  BY ChildrenAre DEF StandIns, Figures
<1>2. IsFiniteSet(S)
  <2>1. S \subseteq Rows /\ IsFiniteSet(Rows)
    BY <1>1, ActualizeAssumption
  <2> QED
    BY <2>1, FS_Subset
<1>3. \A c \in S : g[c] \in Nat
  BY <1>1 DEF Figures, Shapes
<1>4. g = On(g, S)
  BY DEF On
<1>5. \A x \in Ids : View(t)[x] \in {Null} \cup Entry
  BY DEF View, Form, Shapes
<1>6. Actualized(n, t) = Sum(g) + ValueOf(View(t), {n} \cup MarkupsOf(n, t))
  BY DEF Actualized
<1> HIDE DEF g, S, mine
<1>7. Sum(On(g, S)) \in Nat
  BY <1>2, <1>3, SumNat
<1>8. ValueOf(View(t), {n} \cup MarkupsOf(n, t)) \in Nat
  BY <1>5, ValueNat
<1> QED
  BY <1>4, <1>6, <1>7, <1>8

(* A step of a worker that changes nothing but what it has in hand.         *)
LEMMA StepTyped ==
  ASSUME Shapes, NEW w \in Worker, NEW u, tx' = [tx EXCEPT ![w] = u],
         UNCHANGED <<book, markups, rec, raced>>, Form(u), Figures(u),
         \A v \in Worker \ {w} : DOMAIN tx[v].written \cap DOMAIN u.written = {}
  PROVE  Shapes'
<1>1. /\ tx' = [tx EXCEPT ![w] = u] /\ book' = book /\ markups' = markups /\ rec' = rec
      /\ raced' = raced
  OBVIOUS
<1>2. tx = [v \in Worker |-> tx[v]]
  BY DEF Shapes
<1>3. tx' = [v \in Worker |-> tx'[v]] /\ \A v \in Worker : tx'[v] = IF v = w THEN u ELSE tx[v]
  BY <1>1, <1>2
<1>4. \A v \in Worker : Form(tx'[v]) /\ Figures(tx'[v])
  BY <1>3 DEF Shapes
<1>5. \A v, z \in Worker : v # z => DOMAIN tx'[v].written \cap DOMAIN tx'[z].written = {}
  BY <1>3 DEF Shapes
<1> QED
  BY <1>1, <1>3, <1>4, <1>5 DEF Shapes

LEMMA RestTyped ==
  /\ Form(Resting) /\ Figures(Resting) /\ DOMAIN Resting.written = {}
<1>1. /\ Resting.stage = "rest" /\ Resting.overlooked = {} /\ Resting.dropped = {}
      /\ Resting.doomed = {} /\ Resting.written = [x \in {} |-> Null]
      /\ DOMAIN Resting.written = {} /\ Fields(Resting)
      /\ Resting.given = Nothing /\ Resting.left = {} /\ Resting.todo = {}
      /\ Resting.mine = Nothing /\ Resting.unsaved = Nothing /\ Resting.tree = Nothing
  BY DEF Resting, Fields
<1>2. DOMAIN Nothing = {}
  BY DEF Nothing
<1>3. Form(Resting)
  BY <1>1 DEF Form
<1>4. Figures(Resting)
  BY <1>1, <1>2 DEF Figures
<1> QED
  BY <1>1, <1>3, <1>4

(* The requests. *)

LEMMA AskTyped ==
  ASSUME Shapes, NEW w \in Worker, NEW op, Ask(w, op), Requested(op)
  PROVE  Shapes'
<1> DEFINE u == [Resting EXCEPT !.stage = "asked", !.op = op]
<1>1. tx' = [tx EXCEPT ![w] = u] /\ UNCHANGED <<book, markups, rec, raced>>
  BY DEF Ask
<1>2. Form(u) /\ Figures(u) /\ DOMAIN u.written = {}
  BY JustAsked
<1> HIDE DEF u
<1> QED
  BY <1>1, <1>2, StepTyped

LEMMA AsksTyped ==
  ASSUME Shapes, NEW w \in Worker,
         AskAdd(w) \/ AskSave(w) \/ AskDelete(w) \/ AskDeleteMarkups(w)
  PROVE  Shapes'
BY Asks, AskTyped

LEMMA StartTyped ==
  ASSUME Shapes, NEW w \in Worker, tx[w].stage = "asked", tx[w].op.kind # "markups",
         NEW written, NEW owners, Start(w, written, owners),
         owners \subseteq Owners \cup {Null}, DOMAIN written \subseteq Ids,
         \A x \in DOMAIN written : written[x] \in {Null} \cup Entry,
         ~Locked(w, DOMAIN written)
  PROVE  Shapes'
<1> DEFINE t == tx[w]
           given == {RowOf(o) : o \in owners \ {Null}}
           tiers == {Tier[n] : n \in given \cap Subs} \cup {0, 1}
           u == [t EXCEPT !.stage = "climb", !.written = written,
                          !.given = Restrict(rec, given), !.left = given, !.tiers = tiers]
<1>1. tx' = [tx EXCEPT ![w] = u] /\ UNCHANGED <<book, markups, rec, raced>>
  BY DEF Start, Goes
<1>2. Form(t) /\ Figures(t) /\ rec \in [Rows -> Nat]
  BY DEF Shapes
<1>3. given \subseteq Rows
  BY SomewhereIs
<1> HIDE DEF given, tiers
<1>4. /\ Fields(u) /\ u.stage = "climb" /\ u.op = t.op /\ u.overlooked = t.overlooked
      /\ u.given = Restrict(rec, given) /\ u.left = given
      /\ u.todo = t.todo /\ u.mine = t.mine /\ u.unsaved = t.unsaved /\ u.tree = t.tree
      /\ u.written = written /\ u.dropped = t.dropped /\ u.doomed = t.doomed
  <2>1. Fields(t)
    BY <1>2 DEF Form
  <2>2. u = [t EXCEPT !.stage = "climb", !.written = written, !.given = Restrict(rec, given),
                      !.left = given, !.tiers = tiers]
    OBVIOUS
  <2> HIDE DEF u, t
  <2> QED
    BY <2>1, <2>2 DEF Fields
<1> HIDE DEF u
<1>5. Form(u)
  BY <1>2, <1>4 DEF Form
<1>6. Figures(u)
  <2>1. DOMAIN u.given = given /\ \A n \in given : u.given[n] \in Nat
    BY <1>2, <1>3, <1>4 DEF Restrict
  <2> QED
    BY <1>2, <1>3, <1>4, <2>1 DEF Figures
<1>7. \A v \in Worker \ {w} : DOMAIN tx[v].written \cap DOMAIN u.written = {}
  BY <1>4 DEF Locked
<1> QED
  BY <1>1, <1>5, <1>6, <1>7, StepTyped

LEMMA WriteAddTyped ==
  ASSUME Shapes, NEW w \in Worker, WriteAdd(w)
  PROVE  Shapes'
<1> DEFINE op == tx[w].op
           written == [x \in op.rows |-> [owner |-> op.to[x], value |-> op.value[x]]]
           owners == {op.to[x] : x \in op.rows}
<1>1. /\ tx[w].stage = "asked" /\ op.kind = "add" /\ ~Locked(w, op.rows)
      /\ Start(w, written, owners)
  BY DEF WriteAdd
<1>2. Requested(op)
  BY <1>1 DEF Shapes, Form
<1>3. /\ owners \subseteq Owners \cup {Null} /\ DOMAIN written = op.rows /\ op.rows \subseteq Ids
      /\ \A x \in op.rows : written[x] \in {Null} \cup Entry
  BY <1>1, <1>2 DEF Requested, Entry
<1> HIDE DEF written, owners
<1> QED
  BY <1>1, <1>3, StartTyped

LEMMA WriteDeleteTyped ==
  ASSUME Shapes, NEW w \in Worker, WriteDelete(w)
  PROVE  Shapes'
<1> DEFINE op == tx[w].op
           written == [x \in op.rows |-> Null]
           owners == {op.was[x].owner : x \in op.rows} \cap Somewhere
<1>1. /\ tx[w].stage = "asked" /\ op.kind = "delete" /\ ~Locked(w, op.rows)
      /\ Start(w, written, owners)
  BY DEF WriteDelete
<1>2. op.rows \subseteq Ids
  BY <1>1 DEF Shapes, Form, Requested
<1>3. /\ owners \subseteq Owners \cup {Null} /\ DOMAIN written = op.rows
      /\ \A x \in op.rows : written[x] \in {Null} \cup Entry
  BY SomewhereIs
<1> HIDE DEF written, owners
<1> QED
  BY <1>1, <1>2, <1>3, StartTyped

LEMMA WriteSaveTyped ==
  ASSUME Shapes, NEW w \in Worker, WriteSave(w)
  PROVE  Shapes'
<1> DEFINE op == tx[w].op
           written == [x \in op.rows |-> Saved(op, x)]
           owners == UNION {IF book[x] = Null /\ op.single THEN {op.to[x]}
                            ELSE ChangedOwners(op, x) : x \in op.rows}
<1>1. /\ tx[w].stage = "asked" /\ op.kind = "save" /\ ~Locked(w, op.rows)
      /\ \A x \in op.rows : {op.was[x].owner, op.to[x]} \subseteq Somewhere
      /\ Start(w, written, owners)
  BY DEF WriteSave
<1>2. Requested(op)
  BY <1>1 DEF Shapes, Form
<1>3. op.rows \subseteq Ids /\ \A x \in op.rows : Saved(op, x) \in {Null} \cup Entry
  <2>1. \A x \in op.rows : x \in Ids /\ op.to[x] \in Owners \cup {Null} /\ op.value[x] \in Values
    BY <1>1, <1>2 DEF Requested
  <2>2. op.single => "owner" \in op.columns /\ "value" \in op.columns
    BY <1>1, <1>2 DEF Requested
  <2>3. \A x \in op.rows : book[x] # Null => book[x] \in Entry
    BY <2>1, SomewhereIs
  <2> QED
    BY <2>1, <2>2, <2>3 DEF Saved, Entry
<1>4. owners \subseteq Owners \cup {Null}
  BY <1>1, SomewhereIs DEF ChangedOwners
<1>5. DOMAIN written = op.rows /\ \A x \in op.rows : written[x] \in {Null} \cup Entry
  BY <1>3
<1> HIDE DEF written, owners
<1> QED
  BY <1>1, <1>3, <1>4, <1>5, StartTyped

LEMMA WriteDeleteMarkupsTyped ==
  ASSUME Shapes, NEW w \in Worker, WriteDeleteMarkups(w)
  PROVE  Shapes'
<1> DEFINE t == tx[w]
           given == {MarkupParent[m] : m \in t.op.markups}
           tiers == {Tier[n] : n \in given \cap Subs} \cup {0, 1}
           doomed == OwnedBy(book, t.op.markups)
           u == [t EXCEPT !.stage = "climb", !.dropped = t.op.markups, !.doomed = doomed,
                          !.given = Restrict(rec, given), !.left = given, !.tiers = tiers]
<1>1. /\ t.stage = "asked" /\ t.op.kind = "markups" /\ t.op.markups \subseteq markups
      /\ tx' = [tx EXCEPT ![w] = u] /\ UNCHANGED <<book, markups, rec, raced>>
  BY DEF WriteDeleteMarkups, Goes
<1>2. Form(t) /\ Figures(t) /\ rec \in [Rows -> Nat] /\ t.op.markups \subseteq Markups
  BY <1>1 DEF Shapes
<1>3. given \subseteq Rows /\ doomed \subseteq Ids
  BY <1>2, ActualizeAssumption DEF OwnedBy
<1> HIDE DEF given, tiers, doomed
<1>4. /\ Fields(u) /\ u.stage = "climb" /\ u.op = t.op /\ u.overlooked = t.overlooked
      /\ u.given = Restrict(rec, given) /\ u.left = given
      /\ u.todo = t.todo /\ u.mine = t.mine /\ u.unsaved = t.unsaved /\ u.tree = t.tree
      /\ u.written = t.written /\ u.dropped = t.op.markups /\ u.doomed = doomed
  <2>1. Fields(t)
    BY <1>2 DEF Form
  <2>2. u = [t EXCEPT !.stage = "climb", !.dropped = t.op.markups, !.doomed = doomed,
                      !.given = Restrict(rec, given), !.left = given, !.tiers = tiers]
    OBVIOUS
  <2> HIDE DEF u, t
  <2> QED
    BY <2>1, <2>2 DEF Fields
<1> HIDE DEF u
<1>5. Form(u)
  BY <1>1, <1>2, <1>3, <1>4 DEF Form
<1>6. Figures(u)
  <2>1. DOMAIN u.given = given /\ \A n \in given : u.given[n] \in Nat
    BY <1>2, <1>3, <1>4 DEF Restrict
  <2> QED
    BY <1>2, <1>3, <1>4, <2>1 DEF Figures
<1>7. \A v \in Worker \ {w} : DOMAIN tx[v].written \cap DOMAIN u.written = {}
  BY <1>4 DEF Shapes
<1> QED
  BY <1>1, <1>5, <1>6, <1>7, StepTyped

(* The routine. *)

LEMMA StartClimbTyped ==
  ASSUME Shapes, NEW w \in Worker, StartClimb(w)
  PROVE  Shapes'
<1> DEFINE t == tx[w]
           k == CHOOSE i \in t.tiers : \A j \in t.tiers : j <= i
           here == {n \in t.left : Tier[n] = k}
           u == [t EXCEPT !.stage = "pass", !.tiers = t.tiers \ {k}, !.todo = here,
                          !.mine = Restrict(t.given, here), !.unsaved = HandedOver(t, k)]
<1>1. t.stage = "climb" /\ tx' = [tx EXCEPT ![w] = u] /\ UNCHANGED <<book, markups, rec, raced>>
  BY DEF StartClimb, Goes
<1>2. Form(t) /\ Figures(t)
  BY DEF Shapes
<1>3. here \subseteq t.left
  OBVIOUS
<1> HIDE DEF k, here
<1>4. /\ Fields(u) /\ u.stage = "pass" /\ u.op = t.op /\ u.overlooked = t.overlooked
      /\ u.given = t.given /\ u.left = t.left /\ u.todo = here
      /\ u.mine = Restrict(t.given, here) /\ u.unsaved = HandedOver(t, k) /\ u.tree = t.tree
      /\ u.written = t.written /\ u.dropped = t.dropped /\ u.doomed = t.doomed
  <2>1. Fields(t)
    BY <1>2 DEF Form
  <2>2. u = [t EXCEPT !.stage = "pass", !.tiers = t.tiers \ {k}, !.todo = here,
                      !.mine = Restrict(t.given, here), !.unsaved = HandedOver(t, k)]
    OBVIOUS
  <2> HIDE DEF u, t
  <2> QED
    BY <2>1, <2>2 DEF Fields
<1> HIDE DEF u
<1>5. Form(u)
  BY <1>1, <1>2, <1>4 DEF Form
<1>6. Figures(u)
  <2>1. DOMAIN u.mine = here /\ here \subseteq DOMAIN t.given /\ \A n \in here : u.mine[n] \in Nat
    BY <1>2, <1>3, <1>4 DEF Restrict, Figures
  <2>2. DOMAIN u.unsaved \subseteq Rows /\ \A n \in DOMAIN u.unsaved : u.unsaved[n] \in Nat
    BY <1>2, <1>4 DEF HandedOver, Restrict, Figures
  <2> QED
    BY <1>2, <1>4, <2>1, <2>2 DEF Figures
<1>7. \A v \in Worker \ {w} : DOMAIN tx[v].written \cap DOMAIN u.written = {}
  BY <1>4 DEF Shapes
<1> QED
  BY <1>1, <1>5, <1>6, <1>7, StepTyped

LEMMA PassTyped ==
  ASSUME Shapes, NEW w \in Worker, Pass(w)
  PROVE  Shapes'
<1> DEFINE t == tx[w]
           new == [n \in t.todo |-> Actualized(n, t)]
           altered == {n \in t.todo : new[n] # t.mine[n]}
           next == {Parent[n] : n \in altered \ {BudgetRow}}
           kept == IF DOMAIN t.mine = t.todo THEN {} ELSE DOMAIN t.mine
           current == {n \in t.todo : Current(n, t)}
           mine == [n \in kept \cup altered \cup next |->
                      IF n \in altered THEN new[n]
                      ELSE IF n \in DOMAIN t.mine THEN t.mine[n] ELSE rec[n]]
           u == [t EXCEPT !.todo = next, !.mine = mine, !.unsaved = Restrict(new, altered),
                          !.seen = t.seen \cup t.todo, !.overlooked = t.overlooked \ current]
<1>1. t.stage = "pass" /\ tx' = [tx EXCEPT ![w] = u] /\ UNCHANGED <<book, markups, rec, raced>>
  BY DEF Pass, Goes
<1>2. Form(t) /\ Figures(t) /\ rec \in [Rows -> Nat]
  BY DEF Shapes
<1>3. altered \subseteq t.todo /\ kept \subseteq DOMAIN t.mine /\ t.todo \subseteq Rows
  BY <1>2 DEF Figures
<1>4. next \subseteq Rows
  BY <1>3, RowsAre
<1>5. \A n \in t.todo : new[n] \in Nat
  <2>1. \A n \in t.todo : Actualized(n, t) \in Nat
    BY <1>2, ActualizedNat
  <2> QED
    BY <2>1
<1>6. DOMAIN new = t.todo
  OBVIOUS
<1> HIDE DEF new, altered, next, kept, current
<1>7. /\ DOMAIN mine = kept \cup altered \cup next
      /\ DOMAIN mine \subseteq Rows /\ \A n \in DOMAIN mine : mine[n] \in Nat
  <2>1. DOMAIN mine = kept \cup altered \cup next
    OBVIOUS
  <2>2. DOMAIN mine \subseteq Rows
    BY <1>2, <1>3, <1>4, <2>1 DEF Figures
  <2>3. ASSUME NEW n \in DOMAIN mine PROVE mine[n] \in Nat
    <3>1. mine[n] = IF n \in altered THEN new[n]
                    ELSE IF n \in DOMAIN t.mine THEN t.mine[n] ELSE rec[n]
      BY <2>3
    <3>2. n \in Rows
      BY <2>2
    <3> HIDE DEF mine
    <3> QED
      BY <1>2, <1>3, <1>5, <3>1, <3>2 DEF Figures
  <2> QED
    BY <2>1, <2>2, <2>3
<1> HIDE DEF mine
<1>8. /\ Fields(u) /\ u.stage = t.stage /\ u.op = t.op /\ u.overlooked = t.overlooked \ current
      /\ u.given = t.given /\ u.left = t.left /\ u.todo = next
      /\ u.mine = mine /\ u.unsaved = Restrict(new, altered) /\ u.tree = t.tree
      /\ u.written = t.written /\ u.dropped = t.dropped /\ u.doomed = t.doomed
  <2>1. Fields(t)
    BY <1>2 DEF Form
  <2>2. u = [t EXCEPT !.todo = next, !.mine = mine, !.unsaved = Restrict(new, altered),
                      !.seen = t.seen \cup t.todo, !.overlooked = t.overlooked \ current]
    OBVIOUS
  <2> HIDE DEF u, t
  <2> QED
    BY <2>1, <2>2 DEF Fields
<1> HIDE DEF u
<1>9. Form(u)
  BY <1>1, <1>2, <1>8 DEF Form
<1>10. Figures(u)
  <2>1. DOMAIN u.unsaved \subseteq Rows /\ \A n \in DOMAIN u.unsaved : u.unsaved[n] \in Nat
    BY <1>3, <1>5, <1>6, <1>8 DEF Restrict
  <2> QED
    BY <1>2, <1>4, <1>7, <1>8, <2>1 DEF Figures
<1>11. \A v \in Worker \ {w} : DOMAIN tx[v].written \cap DOMAIN u.written = {}
  BY <1>8 DEF Shapes
<1> QED
  BY <1>1, <1>9, <1>10, <1>11, StepTyped

LEMMA EndClimbTyped ==
  ASSUME Shapes, NEW w \in Worker, EndClimb(w)
  PROVE  Shapes'
<1> DEFINE t == tx[w]
           u == [t EXCEPT !.stage = "climb", !.left = t.left \ DOMAIN t.mine,
                          !.unsaved = Restrict(t.mine, DOMAIN t.mine \cap Subs),
                          !.mine = Nothing, !.tree = Merge(t.tree, t.mine)]
<1>1. t.stage = "pass" /\ tx' = [tx EXCEPT ![w] = u] /\ UNCHANGED <<book, markups, rec, raced>>
  BY DEF EndClimb, Goes
<1>2. Form(t) /\ Figures(t)
  BY DEF Shapes
<1>3. /\ Fields(u) /\ u.stage = "climb" /\ u.op = t.op /\ u.overlooked = t.overlooked
      /\ u.given = t.given /\ u.left = t.left \ DOMAIN t.mine /\ u.todo = t.todo
      /\ u.mine = Nothing /\ u.unsaved = Restrict(t.mine, DOMAIN t.mine \cap Subs)
      /\ u.tree = Merge(t.tree, t.mine)
      /\ u.written = t.written /\ u.dropped = t.dropped /\ u.doomed = t.doomed
  <2>1. Fields(t)
    BY <1>2 DEF Form
  <2>2. u = [t EXCEPT !.stage = "climb", !.left = t.left \ DOMAIN t.mine,
                      !.unsaved = Restrict(t.mine, DOMAIN t.mine \cap Subs),
                      !.mine = Nothing, !.tree = Merge(t.tree, t.mine)]
    OBVIOUS
  <2> HIDE DEF u, t
  <2> QED
    BY <2>1, <2>2 DEF Fields
<1> HIDE DEF u
<1>4. Form(u)
  BY <1>1, <1>2, <1>3 DEF Form
<1>5. Figures(u)
  <2>1. DOMAIN u.mine = {}
    BY <1>3 DEF Nothing
  <2>2. DOMAIN u.unsaved \subseteq Rows /\ \A n \in DOMAIN u.unsaved : u.unsaved[n] \in Nat
    BY <1>2, <1>3 DEF Restrict, Figures
  <2>3. DOMAIN u.tree \subseteq Rows /\ \A n \in DOMAIN u.tree : u.tree[n] \in Nat
    BY <1>2, <1>3 DEF Merge, Figures
  <2> QED
    BY <1>2, <1>3, <2>1, <2>2, <2>3 DEF Figures
<1>6. \A v \in Worker \ {w} : DOMAIN tx[v].written \cap DOMAIN u.written = {}
  BY <1>3 DEF Shapes
<1> QED
  BY <1>1, <1>4, <1>5, <1>6, StepTyped

LEMMA RollBackTyped ==
  ASSUME Shapes, NEW w \in Worker, RollBack(w)
  PROVE  Shapes'
<1>1. tx' = [tx EXCEPT ![w] = Resting] /\ UNCHANGED <<book, markups, rec, raced>>
  BY DEF RollBack, Goes
<1>2. Form(Resting) /\ Figures(Resting) /\ DOMAIN Resting.written = {}
  BY RestTyped
<1>3. \A v \in Worker \ {w} : DOMAIN tx[v].written \cap DOMAIN Resting.written = {}
  BY <1>2
<1> QED
  BY <1>1, <1>2, <1>3, StepTyped

LEMMA NotifiedTyped ==
  ASSUME NEW t, Form(t), Figures(t), NEW T \in SUBSET Rows
  PROVE  /\ Form(Notified(t, T)) /\ Figures(Notified(t, T))
         /\ DOMAIN Notified(t, T).written = DOMAIN t.written
<1>1. CASE t = Resting
  BY <1>1 DEF Notified
<1>2. CASE t # Resting
  <2> DEFINE u == [t EXCEPT !.overlooked = t.overlooked \cup T]
  <2>1. Fields(t) /\ t.stage # "rest"
    BY <1>2 DEF Form
  <2>2. Notified(t, T) = u
    BY <1>2 DEF Notified
  <2>3. /\ Fields(u) /\ u.stage = t.stage /\ u.op = t.op /\ u.overlooked = t.overlooked \cup T
        /\ u.given = t.given /\ u.left = t.left /\ u.todo = t.todo
        /\ u.mine = t.mine /\ u.unsaved = t.unsaved /\ u.tree = t.tree
        /\ u.written = t.written /\ u.dropped = t.dropped /\ u.doomed = t.doomed
    BY <2>1 DEF Fields
  <2>4. t.stage = "asked" =>
          u = [Resting EXCEPT !.stage = "asked", !.op = u.op, !.overlooked = u.overlooked]
    <3> SUFFICES ASSUME t.stage = "asked"
                 PROVE  u = [Resting EXCEPT !.stage = "asked", !.op = u.op,
                                            !.overlooked = u.overlooked]
      OBVIOUS
    <3>1. t = [Resting EXCEPT !.stage = "asked", !.op = t.op, !.overlooked = t.overlooked]
      BY DEF Form
    <3> DEFINE q == Resting
    <3>2. Fields(q)
      BY DEF Resting, Fields
    <3>3. t = [q EXCEPT !.stage = "asked", !.op = t.op, !.overlooked = t.overlooked]
      BY <3>1
    <3>4. u = [t EXCEPT !.overlooked = t.overlooked \cup T]
      OBVIOUS
    <3> HIDE DEF q, u
    <3>5. u = [q EXCEPT !.stage = "asked", !.op = u.op, !.overlooked = u.overlooked]
      BY <2>1, <2>3, <3>2, <3>3, <3>4 DEF Fields
    <3> QED
      BY <3>5 DEF q
  <2> HIDE DEF u
  <2>5. Form(u)
    BY <2>1, <2>3, <2>4 DEF Form
  <2>6. Figures(u)
    BY <2>3 DEF Figures
  <2> QED
    BY <2>2, <2>3, <2>5, <2>6
<1> QED
  BY <1>1, <1>2

LEMMA CommitTyped ==
  ASSUME Shapes, NEW w \in Worker, Commit(w)
  PROVE  Shapes'
<1> DEFINE t == tx[w]
           T == Touched(t)
<1>1. /\ rec' = Stored(t) /\ book' = Committed(t) /\ markups' = markups \ t.dropped
      /\ raced' = (raced \ (t.seen \ t.overlooked)) \cup (T \cap t.overlooked) \cup Robbed(t)
      /\ tx' = [v \in Worker |-> IF v = w THEN Resting ELSE Notified(tx[v], T)]
  BY DEF Commit, Committed
<1>2. /\ book \in [Ids -> {Null} \cup Entry] /\ markups \subseteq Markups
      /\ rec \in [Rows -> Nat] /\ raced \subseteq Rows /\ Form(t) /\ Figures(t)
  BY DEF Shapes
<1>3. T \subseteq Rows /\ Robbed(t) \subseteq Rows
  BY <1>2, TouchedRows DEF Figures
<1>4. book' \in [Ids -> {Null} \cup Entry]
  BY <1>1, <1>2, CommittedBook
<1>5. rec' \in [Rows -> Nat]
  BY <1>1, <1>2 DEF Stored, Figures
<1> HIDE DEF T
<1>6. ASSUME NEW v \in Worker
      PROVE  Form(tx'[v]) /\ Figures(tx'[v]) /\ DOMAIN tx'[v].written \subseteq DOMAIN tx[v].written
  <2>1. CASE v = w
    <3>1. tx'[v] = Resting
      BY <1>1, <2>1
    <3>2. Form(Resting) /\ Figures(Resting) /\ DOMAIN Resting.written = {}
      BY RestTyped
    <3> QED
      BY <3>1, <3>2
  <2>2. CASE v # w
    <3>1. tx'[v] = Notified(tx[v], T)
      BY <1>1, <2>2
    <3>2. Form(tx[v]) /\ Figures(tx[v])
      BY DEF Shapes
    <3>3. Form(Notified(tx[v], T)) /\ Figures(Notified(tx[v], T))
          /\ DOMAIN Notified(tx[v], T).written = DOMAIN tx[v].written
      BY <1>3, <3>2, NotifiedTyped
    <3> QED
      BY <3>1, <3>3
  <2> QED
    BY <2>1, <2>2
<1>7. \A v, z \in Worker : v # z => DOMAIN tx'[v].written \cap DOMAIN tx'[z].written = {}
  <2>1. \A v, z \in Worker : v # z => DOMAIN tx[v].written \cap DOMAIN tx[z].written = {}
    BY DEF Shapes
  <2> QED
    BY <1>6, <2>1
<1>8. tx' = [v \in Worker |-> tx'[v]] /\ markups' \subseteq Markups /\ raced' \subseteq Rows
  BY <1>1, <1>2, <1>3
<1> QED
  BY <1>4, <1>5, <1>6, <1>7, <1>8 DEF Shapes

-------------------------------------------------------------------------------
(* A settled budget has figures. *)

LEMMA InitTyped == ActualsInit => Shapes
<1> SUFFICES ASSUME ActualsInit PROVE Shapes
  OBVIOUS
<1>1. /\ markups = Markups /\ raced = {} /\ tx = [w \in Worker |-> Resting]
      /\ book \in [Ids -> {Null} \cup Entry]
  BY DEF ActualsInit, Entry
<1>2. rec = [n \in Rows |-> rec[n]] /\ \A n \in Rows : rec[n] = Due(n, book, rec)
  <2> DEFINE D(n) == Due(n, book, rec)
  <2>1. rec = [n \in Rows |-> D(n)]
    BY InitSettled
  <2> HIDE DEF D
  <2>2. rec = [n \in Rows |-> rec[n]] /\ \A n \in Rows : rec[n] = D(n)
    BY <2>1
  <2> QED
    BY <2>2 DEF D
<1> DEFINE N == Cardinality(Rows)
           G == {j \in Nat : \A n \in Rows : Tier[n] + j > N => rec[n] \in Nat}
<1>3. N \in Nat /\ \A n \in Rows : Tier[n] \in Nat /\ Tier[n] <= N
  BY TierBound
<1> HIDE DEF N
<1>4. 0 \in G
  BY <1>3
<1>5. ASSUME NEW j \in Nat, j \in G PROVE j + 1 \in G
  <2>1. ASSUME NEW n \in Rows, Tier[n] + (j + 1) > N PROVE rec[n] \in Nat
    <3>1. \A c \in Children(n) : rec[c] \in Nat
      <4> SUFFICES ASSUME NEW c \in Children(n) PROVE rec[c] \in Nat
        OBVIOUS
      <4>1. c \in Rows /\ Tier[c] = Tier[n] + 1 /\ Tier[n] \in Nat
        BY ChildTier
      <4>2. Tier[c] + j > N
        BY <1>3, <2>1, <4>1
      <4> QED
        BY <1>5, <4>1, <4>2
    <3>2. IsFiniteSet(Children(n))
      <4>1. Children(n) \subseteq Rows /\ IsFiniteSet(Rows)
        BY ChildrenAre, ActualizeAssumption
      <4> QED
        BY <4>1, FS_Subset
    <3>3. Sum(On(rec, Children(n))) \in Nat
      BY <3>1, <3>2, SumNat
    <3>4. rec[n] = Sum(On(rec, Children(n)))
                   + ValueOf(book, {n} \cup {m \in markups : MarkupParent[m] = n})
      BY <1>2 DEF Due, On
    <3>5. ValueOf(book, {n} \cup {m \in markups : MarkupParent[m] = n}) \in Nat
      BY <1>1, ValueNat
    <3> QED
      BY <3>3, <3>4, <3>5
  <2> QED
    BY <2>1
<1>6. N + 1 \in G
  <2> HIDE DEF G
  <2>1. Nat \subseteq G
    BY <1>4, <1>5, NatSetInduction
  <2> QED
    BY <1>3, <2>1
<1>7. rec \in [Rows -> Nat]
  BY <1>2, <1>3, <1>6
<1>8. Form(Resting) /\ Figures(Resting) /\ DOMAIN Resting.written = {}
  BY RestTyped
<1>9. \A w \in Worker : tx[w] = Resting
  BY <1>1
<1> QED
  BY <1>1, <1>7, <1>8, <1>9 DEF Shapes

LEMMA NextTyped ==
  ASSUME Shapes, [ActualsNext]_actualsVars
  PROVE  Shapes'
<1>1. CASE UNCHANGED actualsVars
  BY <1>1 DEF actualsVars, Shapes
<1>2. CASE Rest
  BY <1>2 DEF Rest, actualsVars, Shapes
<1>3. ASSUME NEW w \in Worker, StartClimb(w) \/ EndClimb(w) \/ Step(w) PROVE Shapes'
  <2>1. CASE StartClimb(w)
    BY <2>1, StartClimbTyped
  <2>2. CASE EndClimb(w)
    BY <2>2, EndClimbTyped
  <2>3. CASE Step(w)
    BY <2>3, AsksTyped, WriteAddTyped, WriteSaveTyped, WriteDeleteTyped,
       WriteDeleteMarkupsTyped, PassTyped, CommitTyped, RollBackTyped DEF Step
  <2> QED
    BY <1>3, <2>1, <2>2, <2>3
<1> QED
  BY <1>1, <1>2, <1>3 DEF ActualsNext

(* Everything keeps its shape, whatever situations there are, and no two    *)
(* requests have written one row.                                           *)
THEOREM ActualsTypeCorrect == ActualsSpec => []ActualsTypeOK
<1>1. ActualsInit => Shapes
  BY InitTyped
<1>2. Shapes /\ [ActualsNext]_actualsVars => Shapes'
  BY NextTyped
<1>3. Shapes => ActualsTypeOK
  BY DEF Shapes, ActualsTypeOK, Form, Figures, Entry
<1> QED
  BY <1>1, <1>2, <1>3, PTL DEF ActualsSpec
===============================================================================
