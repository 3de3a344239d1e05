----------------------------- MODULE Actualize -----------------------------
(***************************************************************************)
(* How actuals are added up into the actual value stored on every row of a *)
(* budget, by requests that overlap.                                       *)
(*                                                                         *)
(* An actual has an owner: a sub-account, or a markup, which counts for    *)
(* its parent.  A request writes actuals and then actualizes their owners: *)
(* it goes up the tree, tier by tier, on objects in memory, and stores the *)
(* rows that changed.  All of it is one transaction at READ COMMITTED: it  *)
(* reads what others have committed so far, and nothing of what it reads   *)
(* is locked.                                                              *)
(***************************************************************************)
EXTENDS Integers, FiniteSets, Functions

CONSTANTS
  BudgetRow,       \* the Budget row
  Accounts,     \* its Account rows
  Subs,         \* the SubAccount rows below these
  Parent,       \* parent of each Account and SubAccount
  Key,          \* primary key of each row: an Account and a SubAccount may
                \* have the same one
  Markups, MarkupParent,
  Ids, Values,  \* what Actual rows there may be, and their values
  Null,
  Worker,       \* processes, each serving one request at a time
  Avoided,      \* INPUT BOUND: the situations that requests avoid
  MaxInHand,    \* BOUND: actuals and markups that requests under way are about
  MaxRequests   \* BOUND: requests

VARIABLES
  book,      \* the Actual rows: owner and value, or None
  markups,   \* the Markup rows
  rec,       \* the actual value stored on each row
  tx,        \* what each worker is doing
  raced,     \* ghost: rows two overlapping requests have had a hand in
  requests   \* requests so far

actualsVars == <<book, markups, rec, tx, raced, requests>>

Rows == {BudgetRow} \cup Accounts \cup Subs
Owners == Subs \cup Markups

(* The situations in which the routine is known to go wrong.               *)
Situations == {"mixed levels", "same key"}

-----------------------------------------------------------------------------
(* The tree.                                                               *)

Children(n) == {c \in DOMAIN Parent : Parent[c] = n}

(* The rows above a row: in every set with its parent and theirs.          *)
Above ==
  [n \in Rows |-> {m \in Rows :
     /\ n # BudgetRow
     /\ \A S \in SUBSET Rows :
          Parent[n] \in S /\ (\A k \in S \ {BudgetRow} : Parent[k] \in S) => m \in S}]

(* A tier is what is worked on at once: a nested_level, the accounts, the  *)
(* budget.                                                                 *)
Tier == [n \in Rows |-> Cardinality(Above[n])]

ASSUME ActualizeAssumption ==
  /\ Accounts \cap Subs = {} /\ BudgetRow \notin Accounts \cup Subs
  /\ Parent \in [Accounts \cup Subs -> Rows]
  /\ \A r \in Accounts \cup Subs : Parent[r] = BudgetRow <=> r \in Accounts
  /\ IsFiniteSet(Rows) /\ IsFiniteSet(Ids) /\ \A n \in Rows : n \notin Above[n]
  /\ DOMAIN Key = Rows
  /\ \A T \in {Accounts, Subs} : \A m, n \in T : Key[m] = Key[n] => m = n
  /\ MarkupParent \in [Markups -> Rows]
  /\ Markups \cap Rows = {} /\ Null \notin Markups \cup Rows
  /\ Values \subseteq Nat
  /\ Avoided \subseteq Situations

(* An actual of a Markup is actualized on the Markup's parent.             *)
RowOf(o) == IF o \in Markups THEN MarkupParent[o] ELSE o

(* Rows on different tiers neither of which is above the other.            *)
MixedLevels(S) ==
  \E m, n \in S : Tier[m] < Tier[n] /\ m \notin Above[n]

(* A row below a sub-account with the key of an account that is given too. *)
SameKey(S) ==
  \E b \in S \cap Accounts, s \in S : \E r \in Above[s] \cap Subs : Key[r] = Key[b]

Avoids(S) ==
  /\ "mixed levels" \in Avoided => ~MixedLevels(S)
  /\ "same key" \in Avoided => ~SameKey(S)

-----------------------------------------------------------------------------
(* What a request has in hand.                                             *)
(*   op          the request, with the rows it fetched                     *)
(*   written     the Actual rows it has written and not committed          *)
(*   dropped     the markups it is about to delete (markups_to_be_deleted) *)
(*   doomed      the actuals that were theirs when they were looked up     *)
(*   given       the rows given, with the values they had when fetched     *)
(*   left        those still to be actualized (filtration)                 *)
(*   tiers       tiers at which the routine is still to start              *)
(*   todo        the rows of the pass under way                            *)
(*   mine        the objects of the climb under way                        *)
(*   unsaved     those that stand for rows in the next pass                *)
(*   tree        the objects that will be stored                           *)
(*   seen        ghost: rows it has actualized                             *)
(*   overlooked  ghost: rows another request has had a hand in, unless it  *)
(*               has actualized them since from what will be stored        *)
NoOp == [kind |-> "none", rows |-> {}, markups |-> {}]
Nothing == [n \in {} |-> 0]
Resting ==
  [stage |-> "rest", op |-> NoOp, written |-> [x \in {} |-> Null],
   dropped |-> {}, doomed |-> {}, given |-> Nothing, left |-> {}, tiers |-> {}, todo |-> {},
   mine |-> Nothing, unsaved |-> Nothing, tree |-> Nothing, seen |-> {},
   overlooked |-> {}]

(* The Actual rows as the worker sees them.                                *)
View(t) == [x \in Ids |-> IF x \in DOMAIN t.written THEN t.written[x] ELSE book[x]]

OwnedBy(b, O) == {x \in Ids : b[x] # Null /\ b[x].owner \in O}

(* Mistaken: a markup about to be deleted still counts.                    *)
AllMarkupsOf(n, t) == {m \in markups : MarkupParent[m] = n}

(* children_markups.exclude(pk__in=markups_to_be_deleted)                  *)
MarkupsOf(n, t) == {m \in markups \ t.dropped : MarkupParent[m] = n}

(* The unsaved objects that stand for children of n: they were grouped by  *)
(* the key of their parent alone.                                          *)
StandIns(n, unsaved) == {c \in DOMAIN unsaved : Key[Parent[c]] = Key[n]}

(* cumulative_sum. *)
Sum(f) == FoldFunction(LAMBDA a, b : a + b, 0, f)
ValueOf(b, O) == Sum([x \in OwnedBy(b, O) |-> b[x].value])

(* actualize() of one row.                                                 *)
Actualized(n, t) ==
  LET mine == StandIns(n, t.unsaved)
  IN Sum([c \in Children(n) \cup mine |-> IF c \in mine THEN t.unsaved[c] ELSE rec[c]])
     + ValueOf(View(t), {n} \cup MarkupsOf(n, t))

(* The steps between two climbs concern only what the worker has in hand:  *)
(* they are taken at once, and no other step comes between.                *)
Between(t) == \/ t.stage = "climb" /\ t.tiers # {}
              \/ t.stage = "pass" /\ t.todo = {}

Undivided == \A w \in Worker : ~Between(tx[w])

Goes(w, t) ==
  /\ tx' = [tx EXCEPT ![w] = t]
  /\ UNCHANGED <<book, markups, rec, raced, requests>>

-----------------------------------------------------------------------------
(* A request looks up what it is about.                                    *)

InHand(op) == Cardinality(op.rows) + Cardinality(op.markups)

Ask(w, op) ==
  /\ Undivided /\ tx[w] = Resting
  /\ requests < MaxRequests
  /\ Sum([v \in Worker |-> InHand(tx[v].op)]) + InHand(op) <= MaxInHand
  /\ requests' = requests + 1
  /\ tx' = [tx EXCEPT ![w] = [Resting EXCEPT !.stage = "asked", !.op = op]]
  /\ UNCHANGED <<book, markups, rec, raced>>

Alone(S) == Cardinality(S) = 1
Somewhere == Subs \cup markups \cup {Null}
Batch(S) == {T \in SUBSET S : Cardinality(T) \in 1..MaxInHand}

(* POST of one actual, bulk-create-actuals or the import of transactions.  *)
AskAdd(w) ==
  \E S \in Batch({x \in Ids : book[x] = Null}) :
    \E to \in [S -> Somewhere], value \in [S -> Values] :
      Ask(w, [kind |-> "add", rows |-> S, markups |-> {}, to |-> to, value |-> value])

(* PATCH of one actual saves the whole object that was fetched; a bulk     *)
(* update writes the given columns.                                        *)
AskSave(w) ==
  \E S \in Batch({x \in Ids : book[x] # Null}),
     columns \in {{"owner"}, {"value"}, {"owner", "value"}}, single \in BOOLEAN :
    \E to \in [S -> Somewhere], value \in [S -> Values] :
      /\ single => columns = {"owner", "value"} /\ Alone(S)
      /\ "owner" \notin columns => \A x \in S : to[x] = book[x].owner
      /\ "value" \notin columns => \A x \in S : value[x] = book[x].value
      /\ Ask(w, [kind |-> "save", rows |-> S, markups |-> {}, to |-> to,
                 value |-> value, columns |-> columns, single |-> single,
                 was |-> [x \in S |-> book[x]]])

AskDelete(w) ==
  \E S \in Batch({x \in Ids : book[x] # Null}) :
    Ask(w, [kind |-> "delete", rows |-> S, markups |-> {}, was |-> [x \in S |-> book[x]]])

AskDeleteMarkups(w) ==
  \E M \in Batch(markups), single \in BOOLEAN :
    /\ single => Alone(M)
    /\ Ask(w, [kind |-> "markups", rows |-> {}, markups |-> M, single |-> single])

-----------------------------------------------------------------------------
(* It writes the actuals and gathers the owners to reactualize.            *)

(* Mistaken: an actual is written over what is not committed.              *)
NeverLocked(w, S) == FALSE

(* Another request has written the row and not committed: an UPDATE waits. *)
Locked(w, S) == \E v \in Worker \ {w} : DOMAIN tx[v].written \cap S # {}

(* Mistaken: an actual that moves leaves its old owner as it was.          *)
NewOwner(op, x) ==
  IF op.was[x].owner # op.to[x] \/ op.was[x].value # op.value[x]
  THEN {op.to[x]} ELSE {}

(* get_owners_to_reactualize of an UPDATE, from the object fetched.        *)
ChangedOwners(op, x) ==
  IF op.was[x].owner # op.to[x] THEN {op.was[x].owner, op.to[x]}
  ELSE IF op.was[x].value # op.value[x] THEN {op.to[x]} ELSE {}

(* What a save leaves in the database for the row.  One that is gone is    *)
(* created anew by the save of an object, and left alone by a bulk update. *)
Saved(op, x) ==
  IF book[x] = Null /\ ~op.single THEN Null
  ELSE [owner |-> IF "owner" \in op.columns THEN op.to[x] ELSE book[x].owner,
        value |-> IF "value" \in op.columns THEN op.value[x] ELSE book[x].value]

(* Actualizes the rows of the owners found, from the lowest tier up.       *)
Start(w, written, owners) ==
  LET given == {RowOf(o) : o \in owners \ {Null}}
  IN /\ Avoids(given)
     /\ Goes(w, [tx[w] EXCEPT
          !.stage = "climb", !.written = written,
          !.given = Restrict(rec, given), !.left = given,
          !.tiers = {Tier[n] : n \in given \cap Subs} \cup {0, 1}])

WriteAdd(w) ==
  LET op == tx[w].op IN
  /\ Undivided /\ tx[w].stage = "asked" /\ op.kind = "add"
  /\ ~Locked(w, op.rows) /\ \A x \in op.rows : book[x] = Null
  /\ Start(w, [x \in op.rows |-> [owner |-> op.to[x], value |-> op.value[x]]],
           {op.to[x] : x \in op.rows})

(* The owners, old and new, are looked up again: a markup that is gone     *)
(* makes the request fail.                                                 *)
WriteSave(w) ==
  LET op == tx[w].op IN
  /\ Undivided /\ tx[w].stage = "asked" /\ op.kind = "save"
  /\ ~Locked(w, op.rows)
  /\ \A x \in op.rows : {op.was[x].owner, op.to[x]} \subseteq Somewhere
  /\ Start(w, [x \in op.rows |-> Saved(op, x)],
           UNION {IF book[x] = Null /\ op.single THEN {op.to[x]}
                  ELSE ChangedOwners(op, x) : x \in op.rows})

WriteDelete(w) ==
  LET op == tx[w].op IN
  /\ Undivided /\ tx[w].stage = "asked" /\ op.kind = "delete"
  /\ ~Locked(w, op.rows)
  /\ Start(w, [x \in op.rows |-> Null],
           {op.was[x].owner : x \in op.rows} \cap Somewhere)

(* The parents are actualized without the markups before these are         *)
(* deleted.  DELETE of one markup has looked up its actuals by then.       *)
WriteDeleteMarkups(w) ==
  LET op == tx[w].op
      given == {MarkupParent[m] : m \in op.markups}
  IN
  /\ Undivided /\ tx[w].stage = "asked" /\ op.kind = "markups"
  /\ op.markups \subseteq markups
  /\ Avoids(given)
  /\ Goes(w, [tx[w] EXCEPT
       !.stage = "climb", !.dropped = op.markups,
       !.doomed = OwnedBy(book, op.markups),
       !.given = Restrict(rec, given), !.left = given,
       !.tiers = {Tier[n] : n \in given \cap Subs} \cup {0, 1}])

-----------------------------------------------------------------------------
(* The routine: perform_filtration_routines, with the perform_bulk_routine *)
(* of each tier as a climb of its own.                                     *)

(* What earlier climbs hand to the one that starts at tier k: the rows     *)
(* below it that the last one had to do with; for the budget, all the      *)
(* accounts.                                                               *)
HandedOver(t, k) ==
  IF k = 0 THEN Restrict(t.tree, DOMAIN t.tree \cap Accounts) ELSE t.unsaved

(* A climb starts from the rows given on the lowest tier left.             *)
StartClimb(w) ==
  LET t == tx[w]
      k == CHOOSE i \in t.tiers : \A j \in t.tiers : j <= i
      here == {n \in t.left : Tier[n] = k}
  IN
  /\ t.stage = "climb" /\ t.tiers # {}
  /\ Goes(w, [t EXCEPT
       !.stage = "pass", !.tiers = @ \ {k}, !.todo = here,
       !.mine = Restrict(t.given, here), !.unsaved = HandedOver(t, k)])

(* The figure that a row will be stored with, as things are.               *)
Figure(n, t) ==
  IF n \in DOMAIN t.tree THEN t.tree[n]
  ELSE IF n \in DOMAIN t.mine THEN t.mine[n] ELSE rec[n]

(* A row is actualized with every figure below it as it will be stored.    *)
Current(n, t) ==
  /\ t.mine[n] = rec[n]
  /\ \A c \in Children(n) \ StandIns(n, t.unsaved) : Figure(c, t) = rec[c]

(* One pass: each row is actualized; where the value differs from the one  *)
(* the object had, the parent is looked up and is next.  Rows of the first *)
(* pass that did not change are dropped.                                   *)
Pass(w) ==
  LET t == tx[w]
      new == [n \in t.todo |-> Actualized(n, t)]
      altered == {n \in t.todo : new[n] # t.mine[n]}
      next == {Parent[n] : n \in altered \ {BudgetRow}}
      kept == IF DOMAIN t.mine = t.todo THEN {} ELSE DOMAIN t.mine
  IN
  /\ Undivided /\ t.stage = "pass" /\ t.todo # {}
  /\ Goes(w, [t EXCEPT
       !.todo = next,
       !.mine = [n \in kept \cup altered \cup next |->
                   IF n \in altered THEN new[n]
                   ELSE IF n \in DOMAIN t.mine THEN t.mine[n] ELSE rec[n]],
       !.unsaved = Restrict(new, altered),
       !.seen = @ \cup t.todo,
       !.overlooked = @ \ {n \in t.todo : Current(n, t)}])

(* BudgetTree.merge: a set keeps the object it has.                        *)
Merge(tree, mine) ==
  [n \in DOMAIN tree \cup DOMAIN mine |->
     IF n \in DOMAIN tree THEN tree[n] ELSE mine[n]]

(* The climb's rows need no other; its sub-accounts stand for themselves   *)
(* in the climb that starts next.                                          *)
EndClimb(w) ==
  LET t == tx[w] IN
  /\ t.stage = "pass" /\ t.todo = {}
  /\ Goes(w, [t EXCEPT
       !.stage = "climb",
       !.left = @ \ DOMAIN t.mine,
       !.unsaved = Restrict(t.mine, DOMAIN t.mine \cap Subs),
       !.mine = Nothing,
       !.tree = Merge(@, t.mine)])

-----------------------------------------------------------------------------
(* The end of the transaction.                                             *)

(* What the request leaves behind: rows stored, actuals and markups.       *)
Doomed(t) == IF t.op.kind # "markups" THEN {}
             ELSE IF t.op.single THEN t.doomed ELSE OwnedBy(book, t.dropped)

(* Rows the commit may make wrong: those stored, those above them, those   *)
(* that gain or lose an actual.                                            *)
Losing(t) ==
  LET ids == DOMAIN t.written \cup Doomed(t)
      owners == {book[x].owner : x \in {y \in ids : book[y] # Null}}
                \cup {t.written[x].owner :
                        x \in {y \in DOMAIN t.written : t.written[y] # Null}}
  IN {RowOf(o) : o \in owners \ {Null}} \cup {MarkupParent[m] : m \in t.dropped}

(* Those whose actual is deleted because it was the markup's once.         *)
Robbed(t) ==
  {RowOf(book[x].owner) : x \in {y \in Doomed(t) :
     book[y] # Null /\ book[y].owner \notin t.dropped \cup {Null}}}

Touched(t) ==
  Losing(t) \cup DOMAIN t.tree
            \cup {Parent[n] : n \in DOMAIN t.tree \ {BudgetRow}}

Notified(u, S) == IF u = Resting THEN u ELSE [u EXCEPT !.overlooked = @ \cup S]

(* bulk_update_post_act.                                                   *)
Stored(t) ==
  [n \in Rows |-> IF n \in DOMAIN t.tree THEN t.tree[n] ELSE rec[n]]

Commit(w) ==
  LET t == tx[w] IN
  /\ Undivided /\ t.stage = "climb" /\ t.tiers = {}
  /\ ~Locked(w, Doomed(t))
  /\ rec' = Stored(t)
  /\ book' = [x \in Ids |-> IF x \in Doomed(t) THEN Null ELSE View(t)[x]]
  /\ markups' = markups \ t.dropped
  /\ raced' = (raced \ (t.seen \ t.overlooked))
              \cup (Touched(t) \cap t.overlooked) \cup Robbed(t)
  /\ tx' = [v \in Worker |-> IF v = w THEN Resting ELSE Notified(tx[v], Touched(t))]
  /\ UNCHANGED requests

(* A request that fails, or waits on a deadlock, leaves nothing.           *)
RollBack(w) ==
  Undivided /\ tx[w] # Resting /\ Goes(w, Resting)

-----------------------------------------------------------------------------
(* What a row's actual value should be, from what is stored below it.      *)
Due(n, b, figures) ==
  Sum([c \in Children(n) |-> figures[c]])
  + ValueOf(b, {n} \cup {m \in markups : MarkupParent[m] = n})

(* A budget some of whose actuals have been entered.                       *)
ActualsInit ==
  /\ markups = Markups
  /\ book \in [Ids -> {Null} \cup [owner : Owners \cup {Null}, value : Values]]
  /\ LET settled[n \in Rows] == Due(n, book, settled) IN rec = settled
  /\ tx = [w \in Worker |-> Resting]
  /\ raced = {}
  /\ requests = 0

(* Steps that read or write the database.                                  *)
Step(w) ==
  \/ AskAdd(w) \/ AskSave(w) \/ AskDelete(w) \/ AskDeleteMarkups(w)
  \/ WriteAdd(w) \/ WriteSave(w) \/ WriteDelete(w) \/ WriteDeleteMarkups(w)
  \/ Pass(w) \/ Commit(w) \/ RollBack(w)

Rest == /\ requests = MaxRequests /\ \A w \in Worker : tx[w] = Resting
        /\ UNCHANGED actualsVars

ActualsNext == Rest \/ \E w \in Worker : StartClimb(w) \/ EndClimb(w) \/ Step(w)

ActualsSpec == ActualsInit /\ [][ActualsNext]_actualsVars

-----------------------------------------------------------------------------
(* Every variable has its shape, and what a worker holds is what it may    *)
(* hold: nobody writes what another has written and not committed.         *)
ActualsTypeOK ==
  /\ book \in [Ids -> {Null} \cup [owner : Owners \cup {Null}, value : Values]]
  /\ markups \subseteq Markups
  /\ rec \in [Rows -> Nat]
  /\ raced \subseteq Rows
  /\ \A w \in Worker :
       /\ tx[w].stage \in {"rest", "asked", "climb", "pass"}
       /\ \A v \in Worker \ {w} : DOMAIN tx[v].written \cap DOMAIN tx[w].written = {}
       /\ DOMAIN tx[w].tree \subseteq Rows

(* Whatever is moved, deleted or changed, the actual value stored on every *)
(* row is what actualizing it would store, unless two requests that        *)
(* overlapped had both a hand in that very row; and the next request to    *)
(* actualize the row undisturbed sets it right.                            *)
RightUnlessRaced ==
  \A n \in Rows \ raced : rec[n] = Due(n, book, rec)

(* As long as no such row is left, the budget's actual value is the sum of *)
(* all actuals that have an owner, each counted once.                      *)
AddsUp ==
  raced = {} =>
    rec[BudgetRow] = ValueOf(book, Subs \cup markups)
=============================================================================
