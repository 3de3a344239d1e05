------------------------------- MODULE RollUp -------------------------------
(***************************************************************************)
(* How an edit of a budget's rows is rolled up into the figures stored on  *)
(* the rows above it.                                                      *)
(*                                                                         *)
(* A request first changes rows and then runs the estimation routine: it   *)
(* reestimates sub-accounts level by level, then accounts, then the        *)
(* budget, on objects in memory, and writes them back at the end.  The     *)
(* routine is a job here, one action per pass, so that what each pass sees *)
(* (the rows in the database, or the objects altered by the pass before)   *)
(* is visible.  One request runs at a time; concurrent ones are the        *)
(* subject of another module.                                              *)
(***************************************************************************)
EXTENDS BudgetTree

CONSTANTS
  MaxLevel,  \* BOUND: deepest nested_level a SubAccount is created at
  Avoided    \* INPUT BOUND: the situations of Situations that requests avoid

VARIABLES
  live,      \* the Account rows
  parent,    \* parent of each SubAccount row, None where there is no row
  level,     \* nested_level of each SubAccount row
  raw,       \* raw_value of each SubAccount row
  fringed,   \* the fringes assigned to each SubAccount row
  terms,     \* unit, rate and cutoff of each Fringe row
  rec,       \* the estimated figures stored on each row
  job        \* the estimation routine in progress

rows == <<live, parent, level, raw, fringed, terms>>
vars == <<live, parent, level, raw, fringed, terms, rec, job>>

(* The situations in which the code is known to leave figures stale.  The  *)
(* runs and theorems that establish the roll-up avoid all of them; the     *)
(* runs that exhibit one avoid the others.                                 *)
Situations ==
  {"top level delete", "last child delete", "uncounted delete",
   "first child without value", "mixed levels"}

ASSUME RollUpAssumption == MaxLevel \in Nat /\ Avoided \subseteq Situations

Avoids(situation, holds) == situation \in Avoided => ~holds

-----------------------------------------------------------------------------
(* Rows.                                                                   *)

Existing == live \cup {s \in Subs : parent[s] # None} \cup {Budget}

Children(n) == IF n = Budget THEN live ELSE {s \in Subs : parent[s] = n}

(* Mistaken: a value of one's own counts whatever children there are.      *)
OwnValueFirst(n, accumulated) ==
  IF n \in Subs /\ raw[n] # 0 THEN raw[n] ELSE accumulated

(* A sub-account counts for its own multiplier * rate * quantity only as   *)
(* long as the database has no children for it.                            *)
NominalValue(n, accumulated) ==
  IF n \in Subs /\ Children(n) = {} THEN raw[n] ELSE accumulated

(* Mistaken: a delete that leaves behind what was below its rows.          *)
NoCascade(S) == S

Cascade(S) == Below(parent, S)

-----------------------------------------------------------------------------
(* Estimation of one row, from the children C and the figures val they are *)
(* taken to have; the fringes in dying are about to be deleted.            *)

Nominals(C, val) == [c \in C |-> NominalValue(c, val[c].accumulated)]

FromFringes(C, val) == [c \in C |-> val[c].fringe + val[c].accumulatedFringe]

(* With children, a sub-account's fringes do not count towards it.         *)
OwnFringes(n, C, val, dying) ==
  IF n \in Subs /\ C = {}
  THEN ContributionFromFringes(
         NominalValue(n, Total(Nominals(C, val))) + Total(FromFringes(C, val)),
         fringed[n] \ dying, terms)
  ELSE 0

Estimate(n, C, val, dying) ==
  Figures(Nominals(C, val), FromFringes(C, val), OwnFringes(n, C, val, dying))

Estimated(n) == rec[n] = Estimate(n, Children(n), rec, {})

-----------------------------------------------------------------------------
(* The routine's bookkeeping.                                              *)
(*   todo     sub-accounts still to be estimated                           *)
(*   alias    those of todo that are the very objects held by tree         *)
(*   unsaved  figures of the objects the last pass altered, which the next *)
(*            pass uses in place of the database's                         *)
(*   tree     figures of the objects that will be saved, by row            *)
(*   gone     rows whose delete is in progress (children_to_delete)        *)
(*   dying    fringes whose delete is in progress (fringes_to_be_deleted)  *)

NoJob == [stage |-> "idle", todo |-> {}, alias |-> {}, unsaved |-> Unwritten,
          tree |-> Unwritten, gone |-> {}, dying |-> {}]

Idle == job.stage = "idle"

Begin(S, dying) ==
  [NoJob EXCEPT !.stage = "estimate", !.todo = S, !.dying = dying]

(* Recalculation of one row and everything above it.                       *)
BeginAt(n, gone) ==
  IF n \in Subs
  THEN [NoJob EXCEPT !.stage = "estimate", !.todo = {n}, !.gone = gone]
  ELSE [NoJob EXCEPT !.stage = "estimate", !.tree = [m \in {n} |-> rec[m]],
                     !.gone = gone]

(* Mistaken: the children whose delete is in progress are counted.         *)
CountedAll(n) == Children(n)

(* The children a row is estimated from.  When an Account is saved on the  *)
(* way, account_saved estimates it again from all of its children, those   *)
(* being deleted included.                                                 *)
Counted(n) == IF n \in Accounts THEN Children(n) ELSE Children(n) \ job.gone

(* Mistaken: children are always read from the database.                   *)
SeenStored == rec

(* A child's figures as the routine sees them.                             *)
Seen == [c \in Nodes |-> IF c \in DOMAIN job.unsaved THEN job.unsaved[c]
                         ELSE rec[c]]

SameLevel(S) == \A s, t \in S : level[s] = level[t]
Highest(S) == {s \in S : \A t \in S : level[s] <= level[t]}
ParentsOf(S) == {parent[s] : s \in S}

-----------------------------------------------------------------------------
(* Requests that change rows.                                              *)

AddRows(q, S, value) ==
  /\ S # {} /\ S \subseteq {s \in Subs : parent[s] = None}
  /\ q \in Existing \ {Budget}
  /\ q \in Subs => level[q] < MaxLevel
  /\ parent' = [s \in Subs |-> IF s \in S THEN q ELSE parent[s]]
  /\ level' = [s \in Subs |-> IF s \notin S THEN level[s]
                              ELSE IF q \in Subs THEN level[q] + 1 ELSE 0]
  /\ raw' = [s \in Subs |-> IF s \in S THEN value[s] ELSE raw[s]]
  /\ UNCHANGED <<live, fringed, terms, rec>>

RemoveRows(G, dying) ==
  /\ live' = live \ G
  /\ parent' = [s \in Subs |-> IF s \in G THEN None ELSE parent[s]]
  /\ level' = [s \in Subs |-> IF s \in G THEN 0 ELSE level[s]]
  /\ raw' = [s \in Subs |-> IF s \in G THEN 0 ELSE raw[s]]
  /\ fringed' = [s \in Subs |-> IF s \in G THEN {} ELSE fringed[s] \ dying]
  /\ UNCHANGED terms

(* A leaf that has figures of its own stops being a leaf, and nothing of   *)
(* what is created has a value.                                            *)
FirstChildWithoutValue(q, S, value) ==
  /\ q \in Subs /\ Children(q) = {}
  /\ raw[q] # 0 \/ rec[q].fringe # 0
  /\ \A s \in S : value[s] = 0

(* POST .../children/: the row is saved, then subaccount_saved estimates   *)
(* from it if it has a value.                                              *)
CreateSubAccount(q, s, v) ==
  /\ Idle
  /\ Avoids("first child without value",
            FirstChildWithoutValue(q, {s}, [t \in {s} |-> v]))
  /\ AddRows(q, {s}, [t \in {s} |-> v])
  /\ job' = IF v # 0 THEN Begin({s}, {}) ELSE NoJob

(* bulk-create-children: the same rows with one routine for all of them.   *)
BulkAdd(q, S, value) ==
  /\ Idle
  /\ Avoids("first child without value", FirstChildWithoutValue(q, S, value))
  /\ AddRows(q, S, value)
  /\ LET valued == {s \in S : value[s] # 0}
     IN job' = IF valued = {} THEN NoJob ELSE Begin(valued, {})

(* PATCH of the rate, quantity or multiplier of one sub-account.  With     *)
(* children below it, the row's own value counts for nothing.              *)
UpdateSubAccount(s, v) ==
  /\ Idle
  /\ parent[s] # None /\ raw[s] # v
  /\ raw' = [raw EXCEPT ![s] = v]
  /\ job' = IF Children(s) = {} THEN Begin({s}, {}) ELSE NoJob
  /\ UNCHANGED <<live, parent, level, fringed, terms, rec>>

(* bulk-update-children: the same for several children of one parent.      *)
BulkSave(q, S, value) ==
  /\ Idle
  /\ S # {} /\ S \subseteq {s \in Subs : parent[s] = q} /\ q # None
  /\ raw' = [s \in Subs |-> IF s \in S THEN value[s] ELSE raw[s]]
  /\ LET changed == {s \in S : Children(s) = {} /\ value[s] # raw[s]}
     IN job' = IF changed = {} THEN NoJob ELSE Begin(changed, {})
  /\ UNCHANGED <<live, parent, level, fringed, terms, rec>>

(* DELETE of one sub-account.  subaccount_to_delete runs while the row is  *)
(* still there; the rows go when the routine has ended.                    *)
DeleteSubAccount(s) ==
  /\ Idle
  /\ parent[s] # None
  /\ Avoids("top level delete", parent[s] \in Accounts)
  /\ Avoids("last child delete", /\ parent[s] \in Subs
                                 /\ Children(parent[s]) = {s}
                                 /\ raw[parent[s]] # 0)
  /\ job' = BeginAt(parent[s], {s})
  /\ UNCHANGED <<rows, rec>>

(* None of the rows has a value of its own, but their parent counted them, *)
(* or starts to count for itself again once they are gone.                 *)
Uncounted(q, S) ==
  /\ \A s \in S : raw[s] = 0
  /\ \/ \E s \in S : rec[s] # Zero
     \/ q \in Subs /\ Children(q) = S /\ (raw[q] # 0 \/ fringed[q] # {})

(* bulk-delete-children.  The rows are deleted first and the parent is     *)
(* recalculated only if a deleted row had a value of its own: the check is *)
(* made on objects that have lost their key, and so find no children.      *)
BulkDelete(q, S) ==
  /\ Idle
  /\ S # {} /\ S \subseteq {s \in Subs : parent[s] = q} /\ q # None
  /\ Avoids("uncounted delete", Uncounted(q, S))
  /\ RemoveRows(Cascade(S), {})
  /\ rec' = [n \in Nodes |-> IF n \in Cascade(S) THEN Zero ELSE rec[n]]
  /\ job' = IF \E s \in S : raw[s] # 0 THEN BeginAt(q, {}) ELSE NoJob

(* Accounts.  Saving one always recalculates it and the budget.            *)
CreateAccount(a) ==
  /\ Idle /\ a \notin live
  /\ live' = live \cup {a}
  /\ job' = BeginAt(a, {})
  /\ UNCHANGED <<parent, level, raw, fringed, terms, rec>>

DeleteAccount(a) ==
  /\ Idle /\ a \in live
  /\ job' = BeginAt(Budget, {a})
  /\ UNCHANGED <<rows, rec>>

BulkDeleteAccounts(S) ==
  /\ Idle /\ S # {} /\ S \subseteq live
  /\ RemoveRows(Cascade(S), {})
  /\ rec' = [n \in Nodes |-> IF n \in Cascade(S) THEN Zero ELSE rec[n]]
  /\ job' = BeginAt(Budget, {})

(* Assigning or removing a fringe estimates the sub-account again.         *)
FringesChanged(s, fs) ==
  /\ Idle
  /\ parent[s] # None /\ fs # fringed[s]
  /\ fringed' = [fringed EXCEPT ![s] = fs]
  /\ job' = Begin({s}, {})
  /\ UNCHANGED <<live, parent, level, raw, terms, rec>>

(* Changing what fringes say estimates every sub-account that has one of   *)
(* them, on whatever levels these are.                                     *)
Bearing(F) == {s \in Subs : fringed[s] \cap F # {}}

SaveFringes(F, saying) ==
  /\ Idle
  /\ F # {} /\ \A f \in F : saying[f] # terms[f]
  /\ Avoids("mixed levels", ~SameLevel(Bearing(F)))
  /\ terms' = [f \in Fringes |-> IF f \in F THEN saying[f] ELSE terms[f]]
  /\ job' = IF Bearing(F) = {} THEN NoJob ELSE Begin(Bearing(F), {})
  /\ UNCHANGED <<live, parent, level, raw, fringed, rec>>

(* Deleting fringes does so before the rows go.                            *)
DeleteFringes(F) ==
  /\ Idle
  /\ F # {} /\ Bearing(F) # {}
  /\ Avoids("mixed levels", ~SameLevel(Bearing(F)))
  /\ job' = Begin(Bearing(F), F)
  /\ UNCHANGED <<rows, rec>>

-----------------------------------------------------------------------------
(* The routine.                                                            *)

(* One pass of the recursion over the sub-accounts in todo.  Each is       *)
(* estimated from what the previous pass altered; an estimated sub-account *)
(* always counts as altered, and its parent is added to the tree and, if   *)
(* it is a sub-account, to what the next pass estimates.  A tree keeps the *)
(* first object it is given for a row.  Only the highest level of the pass *)
(* is handed to the next one.                                              *)
EstimateSubAccounts ==
  /\ job.stage = "estimate" /\ job.todo # {}
  /\ LET todo  == job.todo
         new   == [s \in todo |-> Estimate(s, Counted(s), Seen, job.dying)]
         above == ParentsOf(todo)
         held  == DOMAIN job.tree
         (* objects of todo that the tree holds, or comes to hold          *)
         same  == {s \in todo : IF s \in held THEN s \in job.alias
                                ELSE s \notin above}
         next  == (above \cap Subs) \ todo
     IN job' = [job EXCEPT
          !.todo = next,
          !.alias = next \ held,
          !.unsaved = [s \in Highest(todo) |-> new[s]],
          !.tree = [n \in held \cup todo \cup above |->
                      IF n \in same THEN new[n]
                      ELSE IF n \in held THEN job.tree[n]
                      ELSE rec[n]]]
  /\ UNCHANGED <<rows, rec>>

(* Then the accounts that were reached, and the budget above them.         *)
EstimateAccounts ==
  /\ job.stage = "estimate" /\ job.todo = {}
  /\ LET held == DOMAIN job.tree
         reached == held \cap Accounts
         new  == [a \in reached |-> Estimate(a, Counted(a), Seen, job.dying)]
         top  == IF reached # {} THEN {Budget} ELSE held \cap {Budget}
         sum  == Estimate(Budget, Counted(Budget),
                   [a \in Accounts |-> IF a \in reached THEN new[a] ELSE rec[a]],
                   job.dying)
     IN job' = [job EXCEPT
          !.stage = "save",
          !.tree = [n \in held \cup top |->
                      IF n \in reached THEN new[n]
                      ELSE IF n \in top THEN sum
                      ELSE job.tree[n]]]
  /\ UNCHANGED <<rows, rec>>

(* Mistaken: the routine is not done once it has saved.                    *)
SaveAgain ==
  /\ job.stage = "save"
  /\ RemoveRows(Cascade(job.gone), job.dying)
  /\ rec' = [n \in Nodes |-> IF n \in Cascade(job.gone) THEN Zero
                             ELSE IF n \in DOMAIN job.tree THEN job.tree[n]
                             ELSE rec[n]]
  /\ job' = [job EXCEPT !.gone = {}]

(* The tree is written back, and a delete in progress takes its rows.      *)
Save ==
  /\ job.stage = "save"
  /\ RemoveRows(Cascade(job.gone), job.dying)
  /\ rec' = [n \in Nodes |-> IF n \in Cascade(job.gone) THEN Zero
                             ELSE IF n \in DOMAIN job.tree THEN job.tree[n]
                             ELSE rec[n]]
  /\ job' = NoJob

-----------------------------------------------------------------------------
Init ==
  /\ live = {}
  /\ parent = [s \in Subs |-> None]
  /\ level = [s \in Subs |-> 0]
  /\ raw = [s \in Subs |-> 0]
  /\ fringed = [s \in Subs |-> {}]
  /\ terms \in [Fringes -> Terms]
  /\ rec = [n \in Nodes |-> Zero]
  /\ job = NoJob

Request ==
  \/ \E q \in Parents, s \in Subs, v \in Raws : CreateSubAccount(q, s, v)
  \/ \E q \in Parents, S \in SUBSET Subs : \E value \in [S -> Raws] :
        BulkAdd(q, S, value) \/ BulkSave(q, S, value)
  \/ \E s \in Subs, v \in Raws : UpdateSubAccount(s, v)
  \/ \E s \in Subs : DeleteSubAccount(s)
  \/ \E q \in Parents, S \in SUBSET Subs : BulkDelete(q, S)
  \/ \E a \in Accounts : CreateAccount(a) \/ DeleteAccount(a)
  \/ \E S \in SUBSET Accounts : BulkDeleteAccounts(S)
  \/ \E s \in Subs, fs \in SUBSET Fringes : FringesChanged(s, fs)
  \/ \E F \in SUBSET Fringes :
        \/ \E saying \in [F -> Terms] : SaveFringes(F, saying)
        \/ DeleteFringes(F)

Routine == EstimateSubAccounts \/ EstimateAccounts \/ Save

Next == Request \/ Routine

Spec == Init /\ [][Next]_vars

(* The thread that serves a request runs it to its end.                    *)
FairSpec == Spec /\ WF_vars(Routine)

-----------------------------------------------------------------------------
(* Properties.                                                             *)

(* Every variable has its shape: rows have the columns the tables declare, *)
(* and the job is at one of the routine's stages, on rows there are.       *)
RowsOK ==
  /\ live \subseteq Accounts
  /\ parent \in [Subs -> Parents \cup {None}]
  /\ level \in [Subs -> Nat]
  /\ raw \in [Subs -> Raws]
  /\ fringed \in [Subs -> SUBSET Fringes]
  /\ terms \in [Fringes -> Terms]
  /\ DOMAIN rec = Nodes

JobOK ==
  /\ DOMAIN job = DOMAIN NoJob
  /\ job.stage \in {"idle", "estimate", "save"}
  /\ job.todo \subseteq {s \in Subs : parent[s] # None}
  /\ job.alias \subseteq job.todo
  /\ DOMAIN job.tree \subseteq Existing
  /\ DOMAIN job.unsaved \subseteq Subs
  /\ job.gone \subseteq Parents
  /\ job.dying \subseteq Fringes

TypeOK == RowsOK /\ JobOK

(* Whenever no routine is under way, the figures stored on every row are   *)
(* what an estimation of that row alone would store there: no edit, single *)
(* or bulk, of rows or of fringes, leaves a figure stale anywhere between  *)
(* the edited rows and the budget.                                         *)
Settled == Idle => \A n \in Existing : Estimated(n)

(* "reestimating a parent SubAccount pre-emptively, before it's children   *)
(* were reestimated" does not happen: while a sub-account is to be         *)
(* estimated, none below it is, and none is estimated a second time.       *)
BottomUp ==
  /\ \A s, t \in job.todo : t \notin Cascade({s}) \ {s}
  /\ job.todo \cap DOMAIN job.tree \subseteq job.alias

(* Why Settled holds: the invariant that carries it from step to step.     *)

(* The figures a row would have if the tree were saved now.                *)
WillBe == [n \in Nodes |-> IF n \in DOMAIN job.tree THEN job.tree[n] ELSE rec[n]]

(* The routine has yet to estimate the row.                                *)
Pending(n) ==
  /\ job.stage = "estimate"
  /\ \/ job.todo \cap Cascade({n}) # {}
     \/ n \in DOMAIN job.tree \cap Accounts
     \/ n = Budget

(* Parents exist and are one level up; what does not exist holds nothing.  *)
TreeShape ==
  /\ \A s \in Subs : parent[s] # None =>
       /\ parent[s] \in live \/ (parent[s] \in Subs /\ parent[parent[s]] # None)
       /\ level[s] = IF parent[s] \in Subs THEN level[parent[s]] + 1 ELSE 0
  /\ \A s \in Subs : parent[s] = None =>
       raw[s] = 0 /\ fringed[s] = {} /\ rec[s] = Zero
  /\ \A a \in Accounts \ live : rec[a] = Zero

(* The routine works on one level at a time, from the lowest one up.       *)
PassShape ==
  /\ Idle => job = NoJob
  /\ SameLevel(job.todo)
  /\ job.todo # {} => DOMAIN job.tree \subseteq Subs
  /\ job.stage = "estimate" /\ job.todo = {} =>
       DOMAIN job.tree \cap (Accounts \cup {Budget}) # {}
  /\ \A s \in DOMAIN job.tree \cap Subs, t \in job.todo :
       s \in job.todo \/ level[s] > level[t]
  /\ \A s \in DOMAIN job.tree \cap job.todo :
       s \in job.alias /\ job.tree[s] = rec[s]

(* What is being deleted was not counted by an account, and did not keep a *)
(* sub-account from counting for itself.                                   *)
GoneShape ==
  /\ \A s \in job.gone \cap Subs : parent[s] \in Subs
  /\ \A s \in Subs : Children(s) # {} /\ Children(s) \subseteq job.gone
                        => raw[s] = 0

(* A row about to be estimated is estimated from what will be saved.       *)
Fresh ==
  job.stage = "estimate" =>
    \A n \in job.todo \cup (DOMAIN job.tree \cap Accounts) :
      \A c \in Children(n) : Seen[c] = WillBe[c]

(* Every other row will be saved with what an estimation would give it.    *)
Done ==
  \A n \in Existing \ Cascade(job.gone) :
    Pending(n) \/ WillBe[n] = Estimate(n, Children(n) \ job.gone, WillBe, job.dying)

RoutineInv == TypeOK /\ TreeShape /\ PassShape /\ GoneShape /\ Fresh /\ Done

(* The routine climbs to the budget and ends, whatever it started from.    *)
Terminates == ~Idle ~> Idle
=============================================================================
