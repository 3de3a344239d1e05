------------------------------ MODULE Duplication ------------------------------
(***************************************************************************)
(* Duplicating a budget or a template and deriving a budget from a         *)
(* template (budget/duplication): one transaction reads the original kind  *)
(* by kind, creates the copies, and looks up in what it has copied so far  *)
(* whatever a copy is to refer to.  It takes no locks and reads at READ    *)
(* COMMITTED, so that other requests may change the original between any   *)
(* two of its queries; every action of the copying makes one query, or     *)
(* some that only find out whether what they ask for is still there.       *)
(***************************************************************************)
EXTENDS Integers, FiniteSets

CONSTANTS
    Budget, Account, SubAccount, Group, Fringe, Markup, Actual,
    Contact,
    Mine,           \* the contacts of the user who asks for the copy
    ParentOf,       \* what a row, a group or a markup is under
    KeyOf,          \* the primary keys of accounts and of sub-accounts
    Depth,          \* how many rows there are above a row
    MaxDepth,       \* bound: no row is deeper
    None,
    MaxEdits        \* bound: edits made by others while copying

Row == Account \cup SubAccount
Placed == Row \cup Group \cup Markup
Object == {Budget} \cup Placed \cup Fringe \cup Actual

Kinds == <<{Budget}, Account, SubAccount, Group, Fringe, Markup, Actual, Contact, {None}>>

ASSUME DuplicationAssumption ==
    /\ \A i, j \in 1..9 : i # j => Kinds[i] \cap Kinds[j] = {}
    /\ \A y \in Object : y \notin Object \X (Object \cup Contact)
    /\ ParentOf \in [Placed -> {Budget} \cup Row]
    /\ \A a \in Account : ParentOf[a] = Budget
    /\ \A s \in SubAccount : ParentOf[s] \in Row
    /\ MaxDepth \in Nat /\ Depth \in [Row -> 0..MaxDepth]
    /\ \A a \in Account : Depth[a] = 0
    /\ \A s \in SubAccount : Depth[s] = Depth[ParentOf[s]] + 1
    /\ KeyOf \in [Row -> Nat]
    /\ \A y, z \in Account : KeyOf[y] = KeyOf[z] => y = z
    /\ \A y, z \in SubAccount : KeyOf[y] = KeyOf[z] => y = z
    /\ Mine \subseteq Contact
    /\ MaxEdits \in Nat

(* Who may refer to what: a row to a group and to markups of its own table, *)
(* a sub-account to fringes, an actual to its owner, and sub-accounts and   *)
(* actuals to a contact.                                                    *)
CanRefer ==
    {p \in Row \X (Group \cup Markup) : ParentOf[p[1]] = ParentOf[p[2]]}
    \cup SubAccount \X Fringe
    \cup Actual \X (SubAccount \cup Markup)
    \cup (SubAccount \cup Actual) \X Contact

(* Of these, the ones that are a column and so hold one value. *)
Column(p) ==
    {q \in CanRefer : /\ q[1] = p[1]
                      /\ \/ p[2] \in Group /\ q[2] \in Group
                         \/ p[2] \in Contact /\ q[2] \in Contact
                         \/ p[1] \in Actual /\ p[2] \notin Contact /\ q[2] \notin Contact}

VARIABLES
    objects,    \* what the database holds of the original
    contacts,   \* the contacts it holds
    refs,       \* which of the original refers to what
    throughout, \* what has been there ever since the copying began
    ever,       \* what has been there at some moment since
    disturbed,  \* the kinds of edits others have made since
    pc,         \* the step the copying is at
    search,     \* what filter_by_budget has found so far
    left,       \* what the loop under way has still to ask for
    found,      \* the sub-accounts loaded
    held,       \* columns read, of which the values have not been fetched
    walk,       \* the climb that finds how deep a sub-account is
    level,      \* the depths found
    copied,     \* the objects that have a copy, or are loaded to get one
    under,      \* the copies' places: pairs of originals
    links       \* the copies' references: pairs of originals

original == <<objects, contacts, refs, throughout, ever, disturbed>>
copying == <<pc, search, left, found, held, walk, level, copied, under, links>>
vars == <<original, copying>>

NoWalk == [row |-> None, at |-> None, fetched |-> 0]

NewSearch(step) == [step |-> step, listed |-> {}, tops |-> {}, seen |-> {}]

(* The least set that holds an object and what is placed below its members. *)
Subtree ==
    [x \in Object |->
        {y \in Object : \A s \in SUBSET Object :
            (x \in s /\ \A z \in Placed : ParentOf[z] \in s => z \in s) => y \in s}]

(* What goes with an object: all that is placed below it, and the actuals   *)
(* of what goes.                                                            *)
Below(x, r) ==
    LET gone == IF x = Budget THEN Object ELSE Subtree[x]
    IN  gone \cup {y \in Actual : \E z \in gone : <<y, z>> \in r}

Among(r, s) == {p \in r : p[1] \in s /\ p[2] \in s}

(* The original as the copying finds it: all its columns filled, for the    *)
(* sake of fewer states with one contact throughout, and every object there *)
(* or one of them missing with what hangs on it.                            *)
Init ==
    /\ \E r \in SUBSET CanRefer, x \in (Object \ {Budget}) \cup {None}, c \in Contact :
          /\ \A p \in r : p[2] \in Contact => p[2] = c
          /\ \A p \in CanRefer : Cardinality(Column(p) \cap r) = 1 \/ (Column(p) = {} /\ p \in r)
          /\ objects = Object \ IF x = None THEN {} ELSE Below(x, r)
          /\ refs = Among(r, objects \cup Contact)
    /\ contacts = Contact
    /\ throughout = objects \cup refs
    /\ ever = objects \cup refs
    /\ disturbed = {}
    /\ pc = "accounts"
    /\ search = NewSearch("tops") /\ left = {}
    /\ found = {} /\ held = {} /\ walk = NoWalk /\ level = [s \in {} |-> 0]
    /\ copied = {} /\ under = {} /\ links = {}

-------------------------------------------------------------------------------
(* Other requests, each a transaction of its own. *)
Change(kind, o, c, r) ==
    /\ pc \notin {"done", "failed"} /\ Cardinality(disturbed) < MaxEdits
    /\ objects' = o
    /\ contacts' = c
    /\ refs' = r
    /\ throughout' = throughout \cap (o \cup r)
    /\ ever' = ever \cup o \cup r
    /\ disturbed' = disturbed \cup {<<Cardinality(disturbed), kind>>}
    /\ UNCHANGED copying

(* What is created has a key that nothing had before. *)
Create(x) ==
    /\ x \notin ever /\ Budget \in objects
    /\ x \in Placed => ParentOf[x] \in objects
    /\ Change("growth", objects \cup {x}, contacts, refs)

(* A reference is added, or a column takes another value. *)
Refer(p) ==
    /\ p \notin refs /\ Among({p}, objects \cup contacts) # {}
    /\ Change("growth", objects, contacts, (refs \ Column(p)) \cup {p})

Unrefer(p) ==
    /\ p \in refs
    /\ Change("loss", objects, contacts, refs \ {p})

(* The groups and contacts the copying goes by without a copy of its own:   *)
(* it has read a column and not fetched its value yet, or has created rows  *)
(* that refer to the contact.                                               *)
InUse == {p[2] : p \in held} \cup ({p[2] : p \in links} \cap Contact)

Delete(x) ==
    /\ x \in objects
    /\ LET o == objects \ Below(x, refs)
           kind == IF x \in Row \cup {Budget} THEN "lost row"
                   ELSE IF x \in InUse THEN "taken" ELSE "loss"
       IN  Change(kind, o, contacts, Among(refs, o \cup contacts))

(* A contact leaves an empty column behind. *)
DeleteContact(c) ==
    /\ c \in contacts
    /\ Change(IF c \in InUse THEN "taken" ELSE "loss",
              objects, contacts \ {c}, {p \in refs : p[2] # c})

Edit ==
    \/ \E x \in Object : Create(x) \/ Delete(x)
    \/ \E p \in CanRefer : Refer(p) \/ Unrefer(p)
    \/ \E c \in Contact : DeleteContact(c)

-------------------------------------------------------------------------------
Goto(step) == pc' = step /\ UNCHANGED original

(* AssociatedObjectNotFound, DoesNotExist, a failed assertion or a broken   *)
(* constraint: the request fails and its transaction is rolled back.        *)
Fail ==
    /\ Goto("failed")
    /\ search' = NewSearch("list") /\ left' = {}
    /\ found' = {} /\ held' = {} /\ walk' = NoWalk /\ level' = [s \in {} |-> 0]
    /\ copied' = {} /\ under' = {} /\ links' = {}

KeepRows == UNCHANGED <<found, walk, level>>

(* instantiate_duplicate asks a row that was loaded for all its columns,    *)
(* which fetches the group and the contact they name, to keep no more than  *)
(* a contact that belongs to the user who copies.  For a copy of the same   *)
(* class as the original it also fetches the row once more.                 *)
Gone(s) == \E p \in held : p[1] \in s /\ p[2] \notin objects \cup contacts
Carried(s) == {p \in held : p[1] \in s /\ p[2] \in Mine}

(* ObjectSet: what has been copied of a kind, looked up by primary key.     *)
Copies(s, x) == {y \in s : KeyOf[y] = KeyOf[x]}

(* duplicate_accounts loads the accounts, ... *)
LoadAccounts ==
    LET as == Account \cap objects
    IN  /\ pc = "accounts"
        /\ copied' = {Budget} \cup as
        /\ under' = as \X {Budget}
        /\ held' = {p \in refs : p[1] \in as /\ p[2] \in Group}
        /\ Goto("look up accounts") /\ KeepRows /\ UNCHANGED <<search, left, links>>

(* ... then makes duplicates of them. *)
LookUpAccounts ==
    /\ pc = "look up accounts"
    /\ \/ /\ ~Gone(Account)
          /\ held' = {}
          /\ Goto("find") /\ KeepRows /\ UNCHANGED <<search, left, copied, under, links>>
       \/ /\ Gone(Account) \/ ~(copied \cap Account \subseteq objects)
          /\ Fail

-------------------------------------------------------------------------------
(* filter_by_budget: for groups and for markups the accounts are listed     *)
(* first; ...                                                               *)
Searching == pc \in {"find", "groups", "markups"}

OnlySearch == Goto(pc) /\ KeepRows /\ UNCHANGED <<held, copied, under, links>>

ListAccounts ==
    /\ Searching /\ search.step = "list"
    /\ search' = [search EXCEPT !.step = "tops", !.listed = Account \cap objects]
    /\ OnlySearch /\ UNCHANGED left

(* ... then, as for sub-accounts, those to find the topmost ones below, ... *)
FindTops ==
    /\ Searching /\ search.step = "tops"
    /\ search' = [search EXCEPT !.step = "open", !.tops = Account \cap objects]
    /\ OnlySearch /\ UNCHANGED left

(* ... and once more to find the others level by level, ... *)
OpenLevels ==
    /\ Searching /\ search.step = "open"
    /\ search' = [search EXCEPT !.step = "look"]
    /\ left' = Account \cap objects
    /\ OnlySearch

(* ... asking one row after the other for its children. *)
Look(y) ==
    LET children == {s \in SubAccount \cap objects : ParentOf[s] = y}
    IN  /\ Searching /\ search.step = "look"
        /\ y \in left /\ \A z \in left : Depth[y] <= Depth[z]
        /\ left' = (left \ {y}) \cup children
        /\ search' = [search EXCEPT !.seen = @ \cup children]
        /\ OnlySearch

(* The sub-accounts below what has been found. *)
Looked == search.step = "look" /\ left = {}
MatchingTops == {s \in SubAccount \cap objects : ParentOf[s] \in search.tops}
Matching == {s \in SubAccount \cap objects : ParentOf[s] \in search.tops \cup search.seen}

ListSubAccounts ==
    /\ pc \in {"groups", "markups"} /\ Looked
    /\ search' = [NewSearch("select") EXCEPT !.listed = search.listed \cup Matching]
    /\ OnlySearch /\ UNCHANGED left

(* What is placed below what was listed: groups, or markups. *)
Listed(s) == {x \in s \cap objects : ParentOf[x] \in {Budget} \cup search.listed}

(* duplicate_subaccounts: the sub-accounts are loaded with their columns,   *)
LoadSubAccounts ==
    /\ pc = "find" /\ Looked
    /\ found' = Matching
    /\ held' = {p \in refs : p[1] \in found' /\ p[2] \in Group \cup Contact}
    /\ search' = NewSearch("list")
    /\ Goto("measure") /\ UNCHANGED <<left, walk, level, copied, under, links>>

(* then nested_level of each fetches its parents one by one from the        *)
(* database as it is by then.                                               *)
BeginWalk(s) ==
    /\ pc = "measure" /\ walk = NoWalk
    /\ s \in found \ DOMAIN level
    /\ walk' = [row |-> s, at |-> s, fetched |-> 0]
    /\ Goto("measure")
    /\ UNCHANGED <<search, left, found, held, level, copied, under, links>>

Climb ==
    /\ pc = "measure" /\ walk.at \in Row
    /\ ~(walk.at \in Account /\ Budget \notin objects)
    /\ walk' = [walk EXCEPT !.fetched = @ + 1,
                            !.at = IF ParentOf[@] \in objects THEN ParentOf[@] ELSE None]
    /\ Goto("measure")
    /\ UNCHANGED <<search, left, found, held, level, copied, under, links>>

ClimbFails ==
    /\ pc = "measure" /\ walk.at \in Account /\ Budget \notin objects
    /\ Fail

Measured ==
    /\ level' = [s \in DOMAIN level \cup {walk.row} |->
                    IF s = walk.row THEN walk.fetched - 2 ELSE level[s]]
    /\ held' = {p \in held : p[1] # walk.row}
    /\ links' = links \cup Carried({walk.row})
    /\ Goto("measure")
    /\ UNCHANGED <<search, left, found, copied, under>>

WalkNotReset ==
    /\ pc = "measure" /\ walk # NoWalk /\ walk.at \notin Row
    /\ \/ ~Gone({walk.row}) /\ Measured /\ walk' = [NoWalk EXCEPT !.fetched = walk.fetched]
       \/ (Gone({walk.row}) \/ walk.row \notin objects) /\ Fail

(* The last parent fetched has no parent: it is the budget, or nothing.     *)
(* The depth is known, and a duplicate is made of the row.                  *)
EndWalk ==
    /\ pc = "measure" /\ walk # NoWalk /\ walk.at \notin Row
    /\ \/ ~Gone({walk.row}) /\ Measured /\ walk' = NoWalk
       \/ (Gone({walk.row}) \/ walk.row \notin objects) /\ Fail

(* The depths have to be consecutive; then the sub-accounts are created     *)
(* level by level, each below the copy of its parent on the level before.   *)
Parents(s) ==
    IF level[s] = 0 THEN Copies(copied \cap Account, ParentOf[s])
    ELSE Copies({y \in found : level[y] = level[s] - 1}, ParentOf[s])

Creatable ==
    LET depths == {level[s] : s \in found}
    IN  /\ depths = 0..(Cardinality(depths) - 1)
        /\ \A s \in found : Parents(s) # {}

CopySubAccounts ==
    /\ pc = "measure" /\ DOMAIN level = found /\ walk = NoWalk
    /\ IF Creatable
       THEN /\ copied' = copied \cup found
            /\ under' = under \cup {p \in found \X Row : p[2] \in Parents(p[1])}
            /\ Goto("groups") /\ KeepRows /\ UNCHANGED <<search, left, held, links>>
       ELSE Fail

-------------------------------------------------------------------------------
PlacesUnchecked(s) == TRUE

(* The places of copies of groups and markups. *)
HavePlaces(s) == \A x \in s : ParentOf[x] \in copied
Places(s) == {p \in s \X ({Budget} \cup Row) : p[2] = ParentOf[p[1]]}

(* duplicate_groups loads the groups; only then ... *)
CopyGroups ==
    LET gs == Listed(Group)
    IN  /\ pc = "groups" /\ search.step = "select"
        /\ IF HavePlaces(gs)
           THEN /\ copied' = copied \cup gs
                /\ under' = under \cup Places(gs)
                /\ search' = NewSearch("list")
                /\ Goto("account members") /\ KeepRows /\ UNCHANGED <<left, held, links>>
           ELSE Fail

(* ... the accounts in them, of which one without a copy is left out, ...   *)
PrefetchAccounts ==
    /\ pc = "account members"
    /\ links' = links \cup {p \in refs : p[2] \in Group \cap copied /\ p[1] \in Account \cap copied}
    /\ Goto("subaccount members") /\ KeepRows
    /\ UNCHANGED <<search, left, held, copied, under>>

(* ... and the sub-accounts in them.  Of one without a copy associate_groups *)
(* writes a log, in which it names the account of an earlier turn of the    *)
(* loop: it fails if there was none.                                        *)
PrefetchSubAccounts ==
    LET members == {p \in refs : p[2] \in Group \cap copied /\ p[1] \in SubAccount}
    IN  /\ pc = "subaccount members"
        /\ \/ /\ links' = links \cup {p \in members : p[1] \in copied}
              /\ Goto("fringes") /\ KeepRows
              /\ UNCHANGED <<search, left, held, copied, under>>
           \/ /\ \E p \in members : p[1] \notin copied
              /\ Fail

(* duplicate_fringes *)
CopyFringes ==
    /\ pc = "fringes"
    /\ copied' = copied \cup (Fringe \cap objects)
    /\ left' = found
    /\ Goto("link fringes") /\ KeepRows /\ UNCHANGED <<search, held, under, links>>

(* associate_fringes asks for the fringes of each sub-account it found. *)
LinkFringes(s) ==
    LET linked == {p \in refs : p[1] = s /\ p[2] \in Fringe}
    IN  /\ pc = "link fringes" /\ s \in left
        /\ IF \A p \in linked : p[2] \in copied
           THEN /\ links' = links \cup linked
                /\ left' = left \ {s}
                /\ Goto(pc) /\ KeepRows /\ UNCHANGED <<search, held, copied, under>>
           ELSE Fail

FringesLinked ==
    /\ pc = "link fringes" /\ left = {}
    /\ Goto("markups") /\ KeepRows /\ UNCHANGED <<search, left, held, copied, under, links>>

(* duplicate_markups *)
CopyMarkups ==
    LET ms == Listed(Markup)
    IN  /\ pc = "markups" /\ search.step = "select"
        /\ IF HavePlaces(ms)
           THEN /\ copied' = copied \cup ms
                /\ under' = under \cup Places(ms)
                /\ search' = NewSearch("list")
                /\ left' = ms \X {Account, SubAccount}
                /\ Goto("link markups") /\ KeepRows /\ UNCHANGED <<held, links>>
           ELSE Fail

(* associate_markups asks each markup for its accounts and its sub-accounts: *)
(* one without a copy is logged and left out.                               *)
LinkMarkups(m, rows) ==
    /\ pc = "link markups" /\ <<m, rows>> \in left
    /\ links' = links \cup {p \in refs : p[2] = m /\ p[1] \in rows \cap copied}
    /\ left' = left \ {<<m, rows>>}
    /\ Goto(pc) /\ KeepRows /\ UNCHANGED <<search, held, copied, under>>

MarkupsLinked ==
    /\ pc = "link markups" /\ left = {}
    /\ Goto("actuals") /\ KeepRows /\ UNCHANGED <<search, left, held, copied, under, links>>

(* duplicate_actuals, which finds none when a template is copied, looks up  *)
(* the owner of each ...                                                    *)
LoadActuals ==
    LET xs == Actual \cap objects
        owners == {p \in refs : p[1] \in xs /\ p[2] \notin Contact}
    IN  /\ pc = "actuals"
        /\ IF \A p \in owners : p[2] \in copied
           THEN /\ copied' = copied \cup xs
                /\ links' = links \cup owners
                /\ held' = {p \in refs : p[1] \in xs /\ p[2] \in Contact}
                /\ Goto("look up actuals") /\ KeepRows /\ UNCHANGED <<search, left, under>>
           ELSE Fail

(* ... and makes duplicates of them. *)
LookUpActuals ==
    /\ pc = "look up actuals"
    /\ IF Gone(Actual) THEN Fail
       ELSE /\ links' = links \cup Carried(Actual)
            /\ held' = {}
            /\ Goto("commit") /\ KeepRows /\ UNCHANGED <<search, left, copied, under>>

(* The database checks foreign keys when the transaction is committed. *)
CommitCopy ==
    /\ pc = "commit"
    /\ IF \A p \in links : p[2] \in Contact => p[2] \in contacts
       THEN Goto("done") /\ KeepRows /\ UNCHANGED <<search, left, held, copied, under, links>>
       ELSE Fail

Finished == pc \in {"done", "failed"} /\ UNCHANGED vars

Next ==
    \/ Edit
    \/ LoadAccounts \/ LookUpAccounts
    \/ ListAccounts \/ FindTops \/ OpenLevels \/ (\E y \in Row : Look(y)) \/ ListSubAccounts
    \/ LoadSubAccounts
    \/ (\E s \in SubAccount : BeginWalk(s)) \/ Climb \/ ClimbFails \/ EndWalk
    \/ CopySubAccounts
    \/ CopyGroups \/ PrefetchAccounts \/ PrefetchSubAccounts
    \/ CopyFringes \/ (\E s \in SubAccount : LinkFringes(s)) \/ FringesLinked
    \/ CopyMarkups \/ MarkupsLinked
    \/ \E m \in Markup, rows \in {Account, SubAccount} : LinkMarkups(m, rows)
    \/ LoadActuals \/ LookUpActuals
    \/ CommitCopy
    \/ Finished

Spec == Init /\ [][Next]_vars

-------------------------------------------------------------------------------
Steps ==
    {"accounts", "look up accounts", "find", "measure", "groups", "account members",
     "subaccount members", "fringes", "link fringes", "markups", "link markups",
     "actuals", "look up actuals", "commit", "done", "failed"}

TypeOK ==
    /\ objects \subseteq Object /\ contacts \subseteq Contact /\ refs \subseteq CanRefer
    /\ pc \in Steps
    /\ search \in [step : {"list", "tops", "open", "look", "select"},
                   listed : SUBSET Row, tops : SUBSET Account, seen : SUBSET SubAccount]
    /\ left \subseteq Row \cup (Markup \X {Account, SubAccount})
    /\ found \subseteq SubAccount /\ held \subseteq CanRefer
    /\ walk \in [row : SubAccount \cup {None}, at : {Budget, None} \cup Row,
                 fetched : 0..MaxDepth + 1]
    /\ level \in UNION {[s -> -1..MaxDepth] : s \in SUBSET found}
    /\ copied \subseteq Object /\ under \subseteq Placed \X ({Budget} \cup Row)
    /\ links \subseteq CanRefer
    /\ throughout \subseteq ever /\ ever \subseteq Object \cup CanRefer

(* A copy stands on its own: everything in it is placed once, below         *)
(* something that was copied too, and refers to what was copied too or to a *)
(* contact that exists and belongs to the user who asked for it.            *)
(* ObjectSet.__getitem__ is there to find the copies                        *)
(* (budget/duplication/model.py:58-62).                                     *)
StandsAlone ==
    pc = "done" =>
        /\ \A x \in copied \cap Placed : Cardinality({p \in under : p[1] = x}) = 1
        /\ \A p \in under : p[1] \in copied /\ p[2] \in copied
        /\ \A p \in links : p[1] \in copied /\ p[2] \in copied \cup (Mine \cap contacts)

(* "the entire Budget or Template and all of it's related relational data   *)
(* is duplicated" (duplicator.py:51-53), whatever is edited meanwhile: what *)
(* was there from beginning to end has been copied, in its place, except    *)
(* the use of somebody else's contact.                                      *)
NothingLost ==
    pc = "done" =>
        /\ throughout \cap Object \subseteq copied
        /\ \A x \in throughout \cap Placed : <<x, ParentOf[x]>> \in under
        /\ \A p \in throughout \cap CanRefer : p \in links \/ p[2] \in Contact \ Mine

(* Nothing is in another place: a row is below the copy of its parent.      *)
NothingMoved ==
    pc = "done" => \A p \in under : p[2] = ParentOf[p[1]]

(* What the code does not keep of that.  The parent of a row of level 0 is  *)
(* looked up among the accounts, by its key (duplicator.py:235).  A nested  *)
(* sub-account of which an ancestor went during the climb may have level 0, *)
(* so it is put below the account that has the key of its parent.           *)
Misplaced(p) ==
    /\ p[1] \in SubAccount \ throughout /\ ParentOf[p[1]] \in SubAccount
    /\ p[2] \in Account /\ KeyOf[p[2]] = KeyOf[ParentOf[p[1]]]

(* Nothing is in the copy that was not in the original at some moment of    *)
(* the copying, nor in another place, misplaced rows aside.                 *)
NothingInvented ==
    pc = "done" =>
        /\ copied \cup links \subseteq ever
        /\ \A p \in under : p[2] = ParentOf[p[1]] \/ Misplaced(p)

(* The copy is a budget of its own, and the original as far as that stood   *)
(* still while it was read.                                                 *)
IsFaithful == StandsAlone /\ NothingLost /\ NothingInvented

(* Copying fails only if it was overtaken: something was added meanwhile, a *)
(* row was deleted, or a group or a contact went that it had in hand.  All  *)
(* other removals, of references, fringes, markups, actuals, and of groups  *)
(* and contacts not in hand, do not make it fail, whenever they come.       *)
FailsOnlyIfOvertaken ==
    pc = "failed" => \E d \in disturbed : d[2] \in {"growth", "lost row", "taken"}
===============================================================================
