------------------------------- MODULE Groups -------------------------------
(* The groups of one table of rows.  A row points to its group; a group     *)
(* that lost its last row is to go.  Handlers see to that as they go along, *)
(* and a celery task sweeps every five minutes.  A request is a database    *)
(* transaction at READ COMMITTED, and several are open at a time: a         *)
(* statement sees what is committed when it starts and the transaction's    *)
(* own writes, a write of a row waits for other writers of that row, and    *)
(* foreign keys are checked when the transaction commits.                   *)
EXTENDS Naturals, FiniteSets

CONSTANTS
  Row,        \* rows of the table, accounts or sub-accounts
  Group,      \* keys of groups
  Worker,     \* processes that serve requests
  Celery,     \* the process that runs the periodic task
  None,       \* no group
  Absent,     \* there is no such row
  Avoided,    \* situations the requests are kept out of
  MaxBusy     \* bound: so many processes are busy at a time

Situations ==
  {"bulk move", "single delete", "disjoint patch", "patch without rows"}

Process == Worker \cup {Celery}

ASSUME GroupsAssumption ==
  /\ Celery \notin Worker
  /\ None \notin Group \cup {Absent} /\ Absent \notin Group
  /\ Avoided \subseteq Situations
  /\ MaxBusy \in Nat

VARIABLES
  group,      \* committed: the group of a row, None, or Absent
  live,       \* committed: the groups there are
  old,        \* those of them created more than five minutes ago
  tx          \* what each process is in the middle of

vars == <<group, live, old, tx>>

Place == Group \cup {None, Absent}

(* op       the kind of request                                            *)
(* ask      where it asks rows to be                                       *)
(* at       what comes next                                                *)
(* to       the group a PATCH or DELETE of a group is about                *)
(* out      rows still to be taken out of it                               *)
(* aim      where rows that are still to be written shall go               *)
(* seen     the groups of those rows when they were loaded                 *)
(* put      the rows written so far, not committed                         *)
(* made     groups created, dead: groups deleted, not committed            *)
(* watch    groups to be looked at, doomed: those found empty              *)
(* caught   rows found in a doomed group when its deletion was prepared    *)
(* calm     no other transaction was committed since it started            *)
Nothing == [r \in {} |-> None]

Idle == [op |-> "idle", ask |-> Nothing, at |-> "write", to |-> None, out |-> {},
         aim |-> Nothing, seen |-> Nothing, put |-> Nothing,
         made |-> {}, dead |-> {}, watch |-> {}, doomed |-> {},
         caught |-> {}, calm |-> TRUE]

Busy(p) == tx[p].op # "idle"

(* The rows of S go to g.                                                  *)
All(S, g) == [r \in S |-> g]

(* f, but for the rows of S.                                               *)
Put(f, S, g) == [r \in DOMAIN f \cup S |-> IF r \in S THEN g ELSE f[r]]

(* What a statement of p reads.                                            *)
Seen(p, r) == IF r \in DOMAIN tx[p].put THEN tx[p].put[r] ELSE group[r]
SeenGroups(p) == (live \cup tx[p].made) \ tx[p].dead
SeenIn(p, g) == {r \in Row : Seen(p, r) = g}

Members(g) == {r \in Row : group[r] = g}
Rows == {r \in Row : group[r] # Absent}
Strays == {g \in live : Members(g) = {}}

Others(p) == Process \ {p}
Wrote(p, r) == r \in DOMAIN tx[p].put

(* The rows of a table that other transactions have locked by writing.     *)
Blockers(p, rows) == {q \in Others(p) : \E r \in rows : Wrote(q, r)}

(* The row of a group is locked by a transaction that deleted it, or that  *)
(* updated it: the PATCH of a group begins with saving it.                 *)
Holds(p, g) == g \in tx[p].dead \/ (tx[p].op = "patch" /\ tx[p].to = g)
Holders(p, groups) == {q \in Others(p) : \E g \in groups : Holds(q, g)}

Init ==
  /\ group = [r \in Row |-> None]
  /\ live = {}
  /\ old = {}
  /\ tx = [p \in Process |-> Idle]

-----------------------------------------------------------------------------
(* Requests.  A handler loads and validates what it is about; the rows it  *)
(* has loaded keep the group they had then.                                *)

Start(p, request) ==
  /\ ~Busy(p) /\ Cardinality({q \in Process : Busy(q)}) < MaxBusy
  /\ tx' = [tx EXCEPT ![p] = request]
  /\ UNCHANGED <<group, live, old>>

Load(rows) == [r \in rows |-> group[r]]

(* A request that writes the rows it names.                                *)
Naming(op, f) ==
  [Idle EXCEPT !.op = op, !.ask = f, !.aim = f, !.seen = Load(DOMAIN f)]

(* A row is given to no group or to one that has rows; the table's filter  *)
(* offers no others.                                                       *)
Assignable == {None} \cup {g \in live : Members(g) # {}}

(* PATCH of one row.  All columns are saved, the group too when the        *)
(* request is about something else.                                        *)
PatchRow(w, r, g) ==
  /\ r \in Rows /\ g \in Assignable \cup {group[r]}
  /\ Start(w, Naming("row", All({r}, g)))

(* POST of a row, with or without a group.                                 *)
PostRow(w, r, g) ==
  /\ group[r] = Absent /\ \A p \in Process : ~Wrote(p, r)
  /\ \A p \in Process : r \notin DOMAIN tx[p].aim \cup tx[p].out \cup tx[p].caught
  /\ g \in Assignable
  /\ Start(w, [Naming("row", All({r}, g)) EXCEPT !.seen = All({r}, None)])

(* A key that nobody knows.                                                *)
Fresh(g) ==
  /\ g \notin live
  /\ \A p \in Process, r \in Row :
       /\ g \notin tx[p].made \cup tx[p].dead \cup tx[p].watch \cup tx[p].doomed
       /\ tx[p].to # g
       /\ r \in DOMAIN tx[p].aim => g \notin {tx[p].aim[r], tx[p].seen[r]}
       /\ Wrote(p, r) => tx[p].put[r] # g

(* POST of a group with its first rows.                                    *)
PostGroup(w, g, S) ==
  /\ Fresh(g)
  /\ S \subseteq Rows /\ S # {}
  /\ Start(w, [Naming("post", All(S, g)) EXCEPT !.made = {g}])

(* PATCH of a group with the rows it shall have; one that names no rows,   *)
(* to change a colour, is handled as if it named an empty set of them.     *)
PatchGroup(w, g, S) ==
  /\ g \in live /\ Holders(w, {g}) = {}
  /\ S \subseteq Rows
  /\ "patch without rows" \in Avoided => S # {}
  /\ "disjoint patch" \in Avoided =>
       Members(g) = {} \/ S = {} \/ \E r \in S : group[r] = g
  /\ LET rows == IF S = {} THEN {} ELSE S \cup Members(g)
     IN  Start(w, [Naming("patch", All(S, g)) EXCEPT
                    !.at = "children", !.to = g,
                    !.ask = [r \in rows |-> IF r \in S THEN g ELSE None]])

(* DELETE of a group.                                                      *)
DeleteGroup(w, g) ==
  /\ g \in live
  /\ Start(w, [Idle EXCEPT !.op = "drop", !.at = "collect", !.to = g,
                           !.doomed = {g}, !.ask = All(Members(g), None)])

(* PATCH bulk-update-children of the parent, of rows' groups.              *)
BulkUpdate(w, S, f) ==
  /\ S \subseteq Rows /\ S # {}
  /\ f \in [S -> Assignable]
  /\ "bulk move" \in Avoided => \A r \in S : group[r] \in {None, f[r]}
  /\ Start(w, Naming("bulk", f))

(* PATCH bulk-delete-children of the parent.                               *)
BulkDelete(w, S) ==
  /\ S \subseteq Rows /\ S # {}
  /\ Start(w, Naming("erase", All(S, Absent)))

(* DELETE of one row.                                                      *)
DeleteRow(w, r) ==
  /\ r \in Rows
  /\ "single delete" \in Avoided =>
       group[r] = None \/ Members(group[r]) # {r}
  /\ Start(w, Naming("delete", All({r}, Absent)))

Sweeping(groups) ==
  [Idle EXCEPT !.op = "sweep", !.at = "collect", !.doomed = groups]

(* Mistaken: takes the groups of the last five minutes.                   *)
SweepYoung ==
  LET recent == Strays \ old IN
  /\ recent # {}
  /\ Start(Celery, Sweeping(recent))

(* The periodic task: the empty groups that are old enough.                *)
Sweep ==
  LET stale == Strays \cap old IN
  /\ stale # {}
  /\ Start(Celery, Sweeping(stale))

-----------------------------------------------------------------------------
(* The steps of a process, each one statement or a few that read the same. *)

Now(p, t) == tx' = [tx EXCEPT ![p] = t]

(* The handler raises: the transaction is rolled back.                     *)
Fail(p) == Now(p, Idle) /\ UNCHANGED <<group, live, old>>

(* Mistaken: rows that are to stay leave as well.                         *)
ReadAllChildren(p) ==
  LET t == tx[p] IN
  /\ t.at = "children"
  /\ Now(p, [t EXCEPT !.at = "write", !.out = SeenIn(p, t.to)])
  /\ UNCHANGED <<group, live, old>>

(* The PATCH of a group reads the rows that are to leave it.               *)
ReadChildren(p) ==
  LET t == tx[p]
      leaving == SeenIn(p, t.to) \ DOMAIN t.aim
  IN  /\ t.at = "children"
      /\ Now(p, [t EXCEPT !.at = "write", !.out = leaving])
      /\ UNCHANGED <<group, live, old>>

Remaining(t) == IF t.out # {} THEN t.out ELSE DOMAIN t.aim

(* Mistaken: every handler looks at the new group of a row.               *)
WatchedNew(t, r, g) == {g} \ {None, Absent}

(* What is left to look at once r has gone from its group to g: a save     *)
(* reports the group the object was loaded with, bulk_save looks at the    *)
(* new group, bulk_delete at the one loaded, and a delete at none.         *)
Watched(t, r, g) ==
  CASE t.op \in {"row", "post", "patch"} ->
         (IF r \in t.out THEN {t.to} ELSE {t.seen[r]} \ {g}) \ {None, Absent}
    [] t.op = "bulk"   -> {g} \ {None}
    [] t.op = "erase"  -> {t.seen[r]} \ {None, Absent}
    [] t.op = "delete" -> {}

(* Bulk operations look once, at the end.                                  *)
AfterWrite(t) ==
  IF t.watch = {} \/ (t.op \in {"bulk", "erase"} /\ DOMAIN t.aim # {})
    THEN "write" ELSE "look"

(* Mistaken: what was loaded of a row outlives its being written.         *)
DroppedHalf(t, r) ==
  IF r \in t.out THEN [t EXCEPT !.out = @ \ {r}]
  ELSE [t EXCEPT !.aim = [s \in DOMAIN @ \ {r} |-> @[s]]]

Dropped(t, r) ==
  IF r \in t.out THEN [t EXCEPT !.out = @ \ {r}]
  ELSE [t EXCEPT !.aim  = [s \in DOMAIN @ \ {r} |-> @[s]],
                 !.seen = [s \in DOMAIN @ \ {r} |-> @[s]]]

(* A save of chosen columns, and the mark a delete begins with, fail on a  *)
(* row that is gone; a plain save inserts it again; a bulk update does not *)
(* notice.                                                                 *)
Write(p, r) ==
  LET t == tx[p]
      g == IF r \in t.out THEN None ELSE t.aim[r]
      gone == Seen(p, r) = Absent
      rest == Dropped(t, r)
      there == t.op = "patch" /\ r \notin t.out /\ Seen(p, r) = t.to
      looking == [rest EXCEPT !.watch = @ \cup Watched(t, r, g)]
      written == [looking EXCEPT
                   !.at  = AfterWrite(looking),
                   !.put = IF gone /\ t.op = "bulk" THEN @ ELSE Put(@, {r}, g)]
  IN  /\ t.at = "write" /\ r \in Remaining(t)
      /\ Blockers(p, {r}) = {}
      /\ IF gone /\ t.op \in {"post", "patch", "erase", "delete"} THEN Fail(p)
         ELSE /\ Now(p, IF there THEN rest ELSE written)
              /\ UNCHANGED <<group, live, old>>

(* Mistaken: a group that has lost one row is taken to be empty.          *)
LookWithoutCount(p) ==
  LET t == tx[p] IN
  /\ t.at = "look"
  /\ Now(p, [t EXCEPT !.at = "collect", !.watch = {}, !.doomed = t.watch])
  /\ UNCHANGED <<group, live, old>>

(* bulk_delete_empty_groups counts the rows of each group, and loads the   *)
(* empty ones; one that is no longer there is an error.                    *)
Look(p) ==
  LET t == tx[p]
      empty == {g \in t.watch : SeenIn(p, g) = {}}
  IN  /\ t.at = "look"
      /\ IF empty \subseteq SeenGroups(p)
         THEN /\ Now(p, [t EXCEPT !.at = IF empty = {} THEN "write" ELSE "collect",
                                  !.watch = {}, !.doomed = empty])
              /\ UNCHANGED <<group, live, old>>
         ELSE Fail(p)

(* The deletion of groups is prepared: which exist, which rows are theirs. *)
Collect(p) ==
  LET t == tx[p]
      doomed == t.doomed \cap SeenGroups(p)
  IN  /\ t.at = "collect"
      /\ Now(p, [t EXCEPT !.at = "purge", !.doomed = doomed,
                          !.caught = UNION {SeenIn(p, g) : g \in doomed}])
      /\ UNCHANGED <<group, live, old>>

(* It is carried out: these rows lose their group, the groups go.          *)
Purge(p) ==
  LET t == tx[p]
      freed == {r \in t.caught : Seen(p, r) # Absent}
  IN  /\ t.at = "purge"
      /\ Blockers(p, t.caught) \cup Holders(p, t.doomed) = {}
      /\ Now(p, [t EXCEPT !.at = "write", !.doomed = {}, !.caught = {},
                          !.put = Put(@, freed, None),
                          !.dead = @ \cup t.doomed])
      /\ UNCHANGED <<group, live, old>>

-----------------------------------------------------------------------------
(* The end of a transaction.                                               *)

Finished(p) ==
  Busy(p) /\ tx[p].at = "write" /\ Remaining(tx[p]) = {}

(* The keys a commit must find: those that its rows now point to.          *)
Pointed(p) ==
  {tx[p].put[r] : r \in {s \in DOMAIN tx[p].put : tx[p].put[s] # group[s]}} \cap Group

(* Finding them waits for whoever is deleting them.                        *)
Deleters(p) == {q \in Others(p) : tx[q].dead \cap Pointed(p) # {}}

KeysHold(p) ==
  /\ Pointed(p) \subseteq SeenGroups(p)
  /\ \A g \in tx[p].dead : SeenIn(p, g) = {}

Commit(p) ==
  /\ Finished(p) /\ Deleters(p) = {} /\ KeysHold(p)
  /\ group' = [r \in Row |-> Seen(p, r)]
  /\ live' = SeenGroups(p)
  /\ old' = old \ tx[p].dead
  /\ tx' = [q \in Process |-> IF q = p \/ ~Busy(q) THEN Idle
                             ELSE [tx[q] EXCEPT !.calm = FALSE]]

Refuse(p) ==
  /\ Finished(p) /\ Deleters(p) = {} /\ ~KeysHold(p)
  /\ Fail(p)

(* Whom p waits for.                                                       *)
Awaited(p) ==
  LET t == tx[p] IN
  CASE ~Busy(p)      -> {}
    [] Finished(p)   -> Deleters(p)
    [] t.at = "purge" -> Blockers(p, t.caught) \cup Holders(p, t.doomed)
    [] t.at = "write" /\ ~Finished(p) ->
         IF \E r \in Remaining(t) : Blockers(p, {r}) = {} THEN {}
         ELSE Blockers(p, Remaining(t))
    [] OTHER -> {}

(* The database ends one of two transactions that wait for each other.     *)
Deadlock(p) ==
  /\ \E q \in Awaited(p) : p \in Awaited(q)
  /\ Fail(p)

(* Five minutes pass.                                                      *)
Age ==
  /\ old # live
  /\ old' = live
  /\ UNCHANGED <<group, live, tx>>

Request(w) ==
  \/ \E r \in Row, g \in Place : PatchRow(w, r, g) \/ PostRow(w, r, g)
  \/ \E g \in Group : DeleteGroup(w, g)
  \/ \E g \in Group, S \in SUBSET Row : PostGroup(w, g, S) \/ PatchGroup(w, g, S)
  \/ \E S \in SUBSET Row : \E f \in [S -> Group \cup {None}] : BulkUpdate(w, S, f)
  \/ \E S \in SUBSET Row : BulkDelete(w, S)
  \/ \E r \in Row : DeleteRow(w, r)

Step(p) ==
  \/ ReadChildren(p) \/ Look(p) \/ Collect(p) \/ Purge(p)
  \/ \E r \in Row : Write(p, r)
  \/ Commit(p) \/ Refuse(p) \/ Deadlock(p)

Next ==
  \/ \E w \in Worker : Request(w)
  \/ Sweep
  \/ \E p \in Process : Step(p)
  \/ Age

-----------------------------------------------------------------------------
(* Correctness.                                                            *)

Partial == UNION {[S -> Place] : S \in SUBSET Row}

(* What each variable holds.                                               *)
TypeOK ==
  /\ group \in [Row -> Place]
  /\ live \subseteq Group /\ old \subseteq live
  /\ \A p \in Process :
       LET t == tx[p] IN
       /\ t.op \in {"idle", "row", "post", "patch", "drop", "bulk", "erase",
                    "delete", "sweep"}
       /\ t.at \in {"write", "children", "look", "collect", "purge"}
       /\ t.to \in Group \cup {None} /\ t.out \subseteq Row
       /\ {t.ask, t.aim, t.seen, t.put} \subseteq Partial
       /\ DOMAIN t.aim = DOMAIN t.seen
       /\ t.made \cup t.dead \cup t.watch \cup t.doomed \subseteq Group
       /\ t.caught \subseteq Row /\ t.calm \in BOOLEAN

(* A request or sweep during which nothing else is committed fails only as *)
(* the victim of a deadlock: what it has validated it can commit, though   *)
(* it deletes groups on its way.                                           *)
CalmSucceeds ==
  [][\A p \in Process :
       Busy(p) /\ tx[p].calm /\ Fail(p) => Commit(p) \/ Deadlock(p)]_vars

(* A request during which nothing else is committed leaves no group        *)
(* without rows that had some: single saves, bulk operations and deletions *)
(* all clean up.                                                           *)
LeavesNoStray ==
  [][\A p \in Process : Commit(p) /\ tx[p].calm => Strays' \subseteq Strays]_vars

(* A request during which nothing else is committed puts the rows it names *)
(* where it asks, and no other row changes its group, whatever it cleans   *)
(* up; a PATCH that does not mention rows asks nothing of them.            *)
DoesWhatIsAsked ==
  [][\A p \in Process :
       Commit(p) /\ tx[p].calm =>
         \A r \in Row :
           group'[r] = IF r \in DOMAIN tx[p].ask THEN tx[p].ask[r] ELSE group[r]]_vars

(* Whatever overlapping requests leave behind, once they cease every group *)
(* without rows goes.                                                      *)
CleansUp ==
  <>[](\A w \in Worker : ~Busy(w)) => <>[](Strays = {})

Spec == Init /\ [][Next]_vars

(* A process goes on with what it has begun, time passes, and the task     *)
(* runs every five minutes (celery.py:43).  Nothing is assumed of requests. *)
FairSpec ==
  /\ Spec
  /\ \A p \in Process : WF_vars(Step(p))
  /\ WF_vars(Sweep)
  /\ WF_vars(Age)
=============================================================================
