----------------------------- MODULE EndpointCache -----------------------------
(***************************************************************************)
(* The cache of GET responses (cache.py) and what the edits of a budget    *)
(* invalidate in it.  A response is kept for a user and a path, with or    *)
(* without query parameters; an edit, within its transaction and before it *)
(* commits, deletes the keys it thinks it touches, for the user who makes  *)
(* it, and follows the dependencies declared between caches.  (The         *)
(* settings of the repository have caching switched off, CACHE_ENABLED;    *)
(* this is what happens when it is on.)                                    *)
(***************************************************************************)
EXTENDS Integers, FiniteSets

CONSTANTS
    User,
    Reader,         \* bound: the users who send GETs; caches are apart
    Budget, Account, SubAccount,    \* the rows of one budget
    ParentOf,                       \* the row above each of them
    None,
    Avoided,        \* situations the requests are kept out of
    MaxEdits,       \* bound: edits ever begun
    MaxCached       \* bound: responses kept for a user at a time

Situations == {"own overlap", "query", "error", "nested markup", "markup link",
               "markup actual", "contact"}

Row == {Budget} \cup Account \cup SubAccount

ASSUME EndpointCacheAssumption ==
    /\ Reader \subseteq User
    /\ Budget \notin Account \cup SubAccount
    /\ Account \cap SubAccount = {}
    /\ ParentOf \in [Account \cup SubAccount -> Row]
    /\ \A a \in Account : ParentOf[a] = Budget
    /\ \A s \in SubAccount : ParentOf[s] # Budget
    /\ \A S \in SUBSET (Account \cup SubAccount) :   \* no row is above itself
          S # {} => \E x \in S : ParentOf[x] \notin S
    /\ None \notin Int
    /\ Avoided \subseteq Situations
    /\ MaxEdits \in Nat /\ MaxCached \in Nat

(* The row and all rows above it. *)
Chain(r) ==
    LET up[x \in Row] == {x} \cup IF x = Budget THEN {} ELSE up[ParentOf[x]]
    IN  up[r]

Below(r) == {x \in Row : r \in Chain(x)}
Children(p) == {x \in Row \ {Budget} : ParentOf[x] = p}

(* The cached endpoints: the detail of a row, the lists of the groups and   *)
(* of the markups below it, and of the fringes of a budget.                 *)
Detail(r) == <<"detail", r>>
GroupsOf(r) == <<"groups", r>>
MarkupsOf(r) == <<"markups", r>>
FringesOf(r) == <<"fringes", r>>

Endpoint == {"detail", "groups", "markups"} \X Row \cup {FringesOf(Budget)}

(* A key: an endpoint, and whether the request had query parameters. *)
Key == Endpoint \X IF "query" \in Avoided THEN {FALSE} ELSE BOOLEAN
Plain(e) == <<e, FALSE>>

VARIABLES
    content,    \* the number of the last committed edit that changed what
                \* an endpoint would answer
    cached,     \* for each user, what is kept at each key
    get,        \* the GET a user has under way
    edit,       \* the edit a user has under way
    own,        \* for each user, the own last committed edit of what each
                \* endpoint says of its own row or list
    beside,     \* the same for what it says of others: the rows of the same
                \* table, the rows above
    edits       \* edits begun so far

vars == <<content, cached, get, edit, own, beside, edits>>

(* The body of an error response, kept and served like any other. *)
ErrorBody == -1

NoGet == [at |-> "idle", key |-> None, body |-> None]
NoEdit == [at |-> "idle", changed |-> {}, around |-> {}, stale |-> {}]

Init ==
    /\ content = [e \in Endpoint |-> 0]
    /\ cached = [u \in User |-> [k \in Key |-> None]]
    /\ get = [u \in User |-> NoGet]
    /\ edit = [u \in User |-> NoEdit]
    /\ own = [u \in User |-> [e \in Endpoint |-> 0]]
    /\ beside = own
    /\ edits = 0

-------------------------------------------------------------------------------
(* What follows from an invalidation by the dependencies: the detail of a   *)
(* sub-account takes that of its parent with it, that of an account that of *)
(* its budget.  (The caches of children are disabled, and a disabled cache  *)
(* invalidates nothing.)                                                    *)
AccountAlone(r) ==
    LET up[x \in Row] == {Detail(x)} \cup IF x \in SubAccount THEN up[ParentOf[x]] ELSE {}
    IN  up[r]

InvalidateDetail(r) ==
    LET up[x \in Row] == {Detail(x)} \cup IF x = Budget THEN {} ELSE up[ParentOf[x]]
    IN  up[r]

DetailsChanged(r) == {Detail(x) : x \in Chain(r)}

(* An edit: the endpoints that say something else of their own row or list  *)
(* afterwards, those that say something else of other rows, and those the   *)
(* handlers name.  The detail of a row shows its figures and those of its   *)
(* children it is added up from; it also lists the rows of the same table   *)
(* and the rows above, by identifier and description, and nothing is named  *)
(* on that account.                                                         *)
Edit(changed, around, stale) == [changed |-> changed, around |-> around, stale |-> stale]

(* Where a row is mentioned: beside its siblings and above its descendants. *)
Mentions(r) ==
    {Detail(x) : x \in (Children(ParentOf[r]) \cup Below(r)) \ {r}}

(* A row is saved or assigned a fringe, singly or in bulk. *)
SaveRow(r) ==
    Edit(DetailsChanged(r) \cup {GroupsOf(ParentOf[r])},
         Mentions(r),
         InvalidateDetail(r) \cup {GroupsOf(ParentOf[r])})

(* A row goes, and all below it.  If it had a markup, the link goes with it *)
(* unnoticed, and the list of markups has a row less.  (When one row is     *)
(* deleted by itself, the receivers of those below it name some more.)      *)
DeleteRow(r, linked) ==
    Edit(DetailsChanged(r) \cup {GroupsOf(ParentOf[r])}
            \cup IF linked THEN {MarkupsOf(ParentOf[r])} ELSE {},
         Mentions(r) \cup {GroupsOf(x) : x \in Below(r)} \cup {MarkupsOf(x) : x \in Below(r)},
         InvalidateDetail(r) \cup {GroupsOf(ParentOf[r])})

AddChildStale(p) ==
    Edit(DetailsChanged(p) \cup {GroupsOf(p)}, {}, {<<"children", p>>})

(* Rows are created below p. *)
AddChild(p) ==
    Edit(DetailsChanged(p) \cup {GroupsOf(p)},
         {Detail(x) : x \in Children(p)},
         InvalidateDetail(p) \cup {GroupsOf(p)})

SaveGroup(p) == Edit({GroupsOf(p)}, {}, {GroupsOf(p)})

(* A flat markup of p counts for p itself, a percent one for its children;  *)
(* only the children's details and the budget's are invalidated.            *)
SaveFlatMarkup(p) ==
    Edit(DetailsChanged(p) \cup {MarkupsOf(p)}, {}, {Detail(Budget), MarkupsOf(p)})

SavePercentMarkup(r) ==
    Edit(DetailsChanged(r) \cup {MarkupsOf(ParentOf[r])},
         {},
         InvalidateDetail(r) \cup {Detail(Budget), MarkupsOf(ParentOf[r])})

(* A percent markup is linked to r after it has been saved, when its rows   *)
(* were still those of before: the receiver of new links names sub-accounts *)
(* and no accounts.                                                         *)
LinkMarkup(r) ==
    Edit(DetailsChanged(r) \cup {MarkupsOf(ParentOf[r])},
         {},
         {Detail(Budget), MarkupsOf(ParentOf[r])}
            \cup IF r \in SubAccount THEN InvalidateDetail(r) ELSE {})

(* An actual of r: the rows actualized are invalidated, one by one. *)
SaveActual(r) == Edit(DetailsChanged(r), {}, DetailsChanged(r))

(* An actual of a markup of p, which the list of markups shows too. *)
SaveActualOfMarkup(p) == Edit(DetailsChanged(p) \cup {MarkupsOf(p)}, {}, DetailsChanged(p))

(* A fringe of the sub-accounts R is saved, deleted or created. *)
SaveFringe(R) ==
    Edit((UNION {DetailsChanged(r) : r \in R}) \cup {FringesOf(Budget)},
         {},
         (UNION {InvalidateDetail(r) : r \in R}) \cup {FringesOf(Budget)})

(* The contact of a sub-account is deleted. *)
DeleteContact(r) == Edit({Detail(r)}, {}, {})

SaveBudget == Edit({Detail(Budget)}, {Detail(x) : x \in Row \ {Budget}}, {Detail(Budget)})

DeleteBudget == Edit({Detail(Budget)}, Endpoint \ {Detail(Budget)}, {Detail(Budget)})

Unless(situation, S) == IF situation \in Avoided THEN {} ELSE S

Edits ==
    {SaveRow(r) : r \in Row \ {Budget}}
    \cup {DeleteRow(r, FALSE) : r \in Row \ {Budget}}
    \cup {DeleteRow(r, TRUE) : r \in Unless("markup link", Row \ {Budget})}
    \cup {AddChild(p) : p \in Row}
    \cup {SaveGroup(p) : p \in Row}
    \cup {SaveFlatMarkup(p) : p \in {Budget} \cup Unless("nested markup", Row)}
    \cup {SavePercentMarkup(r) : r \in Row \ {Budget}}
    \cup {LinkMarkup(r) : r \in SubAccount \cup Unless("markup link", Account)}
    \cup {SaveActual(r) : r \in Row \ {Budget}}
    \cup {SaveActualOfMarkup(p) : p \in Unless("markup actual", Row)}
    \cup {SaveFringe(R) : R \in SUBSET SubAccount}
    \cup {DeleteContact(r) : r \in Unless("contact", SubAccount)}
    \cup {SaveBudget, DeleteBudget}

-------------------------------------------------------------------------------
(* A GET that finds its key is answered with what is kept there and changes *)
(* nothing.  One that does not goes on to the view, which reads the         *)
(* database and may answer with an error.                                   *)
Miss(u, k) ==
    /\ get[u].at = "idle" /\ cached[u][k] = None
    /\ "own overlap" \in Avoided => edit[u].at = "idle"
    /\ \E body \in {content[k[1]]}
                   \cup IF "error" \in Avoided THEN {} ELSE {ErrorBody} :
          get' = [get EXCEPT ![u] = [at |-> "store", key |-> k, body |-> body]]
    /\ UNCHANGED <<content, cached, edit, own, beside, edits>>

(* set: whatever the view answered. *)
Store(u) ==
    /\ get[u].at = "store"
    /\ Cardinality({k \in Key : cached[u][k] # None}) < MaxCached
    /\ cached' = [cached EXCEPT ![u][get[u].key] = get[u].body]
    /\ get' = [get EXCEPT ![u] = NoGet]
    /\ UNCHANGED <<content, edit, own, beside, edits>>

(* An edit begins, and names the keys to delete in the course of it. *)
BeginEdit(u) ==
    /\ edit[u].at = "idle" /\ edits < MaxEdits
    /\ "own overlap" \in Avoided => get[u].at = "idle"
    /\ \E e \in Edits :
          edit' = [edit EXCEPT ![u] = [at |-> "work", changed |-> e.changed,
                                       around |-> e.around, stale |-> e.stale]]
    /\ edits' = edits + 1
    /\ UNCHANGED <<content, cached, get, own, beside>>

(* _invalidate: the key without parameters, and one that ends in ?*, which  *)
(* is the key of no response and which the cache takes literally.           *)
Invalidate(u) ==
    /\ edit[u].at = "work"
    /\ cached' = [cached EXCEPT ![u] =
          [k \in Key |-> IF k \in {Plain(e) : e \in edit[u].stale} THEN None ELSE @[k]]]
    /\ edit' = [edit EXCEPT ![u].at = "commit"]
    /\ UNCHANGED <<content, get, own, beside, edits>>

Commit(u) ==
    /\ edit[u].at = "commit"
    /\ LET n == 1 + CHOOSE n \in 0..MaxEdits :
                      /\ \A e \in Endpoint : content[e] <= n
                      /\ n = 0 \/ \E e \in Endpoint : content[e] = n
           Seen(S, was) == [e \in Endpoint |-> IF e \in S THEN n ELSE was[e]]
       IN  /\ content' = Seen(edit[u].changed \cup edit[u].around, content)
           /\ own' = [own EXCEPT ![u] = Seen(edit[u].changed, own[u])]
           /\ beside' = [beside EXCEPT ![u] = Seen(edit[u].around, beside[u])]
    /\ edit' = [edit EXCEPT ![u] = NoEdit]
    /\ UNCHANGED <<cached, get, edits>>

(* The edit fails after all; what was deleted from the cache stays deleted. *)
Rollback(u) ==
    /\ edit[u].at \in {"work", "commit"}
    /\ edit' = [edit EXCEPT ![u] = NoEdit]
    /\ UNCHANGED <<content, cached, get, own, beside, edits>>

NeverExpire(u, k) == FALSE

(* CACHE_EXPIRY has passed. *)
Expire(u, k) ==
    /\ cached[u][k] # None
    /\ cached' = [cached EXCEPT ![u][k] = None]
    /\ UNCHANGED <<content, get, edit, own, beside, edits>>

Next ==
    \E u \in User :
        \/ \E k \in Key : (u \in Reader /\ Miss(u, k)) \/ Expire(u, k)
        \/ Store(u)
        \/ BeginEdit(u) \/ Invalidate(u) \/ Commit(u) \/ Rollback(u)

(* Requests under way are answered, and what is kept expires. *)
Fairness ==
    \A u \in User :
        /\ WF_vars(Store(u))
        /\ WF_vars(Invalidate(u)) /\ WF_vars(Commit(u) \/ Rollback(u))
        /\ \A k \in Key : WF_vars(Expire(u, k))

Spec == Init /\ [][Next]_vars /\ Fairness

-------------------------------------------------------------------------------
TypeOK ==
    /\ content \in [Endpoint -> 0..MaxEdits]
    /\ cached \in [User -> [Key -> -1..MaxEdits \cup {None}]]
    /\ get \in [User -> [at : {"idle", "store"}, key : Key \cup {None},
                         body : -1..MaxEdits \cup {None}]]
    /\ edit \in [User -> [at : {"idle", "work", "commit"}, changed : SUBSET Endpoint,
                          around : SUBSET Endpoint, stale : SUBSET Endpoint]]
    /\ own \in [User -> [Endpoint -> 0..MaxEdits]]
    /\ beside \in [User -> [Endpoint -> 0..MaxEdits]]
    /\ edits \in 0..MaxEdits

(* A user who waits for an edit before the next GET sees it, at every       *)
(* endpoint whose own row or list it changed: nothing kept for the user is  *)
(* older than the user's own last edit of that.  The dependencies of        *)
(* budgeting/cache.py, subaccount/cache.py and account/cache.py and the     *)
(* calls of invalidate in the handlers are there for this.  It says nothing *)
(* of what a detail mentions of other rows, SurroundingsVisible below, and  *)
(* the code keeps it only where the situations are avoided.                 *)
OwnEditsVisible ==
    \A u \in User, k \in Key : cached[u][k] # None => cached[u][k] >= own[u][k[1]]

(* The same of the rows of the same table and the rows above, which the     *)
(* detail of a row lists (account/serializers.py:71-72,                     *)
(* subaccount/serializers.py:152-153), and of rows below one that is gone:  *)
(* the code does not keep it in any situation.                              *)
SurroundingsVisible ==
    \A u \in User, k \in Key : cached[u][k] # None => cached[u][k] >= beside[u][k[1]]

(* What is kept may be older than the edits of other users, but not for     *)
(* ever: once no more edits are made, everything kept is up to date.        *)
(* cache.py:614-622 with CACHE_EXPIRY, conf/settings/cache.py.              *)
Heals ==
    <>[](\A u \in User, k \in Key : cached[u][k] \in {None, content[k[1]]})
===============================================================================
