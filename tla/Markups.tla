------------------------------- MODULE Markups -------------------------------
(***************************************************************************)
(* The markups of a budget and the signals that keep its figures true.     *)
(*                                                                         *)
(* A markup belongs to the table of a budget or an account.  A flat one    *)
(* adds its rate to what the table accumulates, a percentage one adds a    *)
(* share to every row it is linked with.  Saving, linking or deleting      *)
(* anything fires signals, whose receivers estimate the rows concerned and *)
(* change further objects; sections of code with the signals off keep them *)
(* from firing again.  What is left to run of a request is a sequence of   *)
(* steps, todo, and a receiver's steps come in front of what fired it.     *)
(*                                                                         *)
(* The tables are the budget's, of accounts, and each account's, of        *)
(* sub-accounts; RollUp has the deeper tables and the fringes.  A process  *)
(* serves one request at a time, as the workers do; Actualize has requests *)
(* that overlap.                                                           *)
(***************************************************************************)
EXTENDS Integers, FiniteSets, Sequences, Functions, SequencesExt

CONSTANTS
  Budget,    \* the root of the tables
  Accounts,  \* accounts there may be
  Subs,      \* sub-accounts there may be
  ParentOf,  \* [Accounts \cup Subs -> {Budget} \cup Accounts]
  Ids,       \* markups there may be
  None,      \* Python's None
  Raws,      \* values multiplier * rate * quantity may have
  Rates,     \* what a markup's rate may be, None besides
  Avoided    \* INPUT BOUND: the situations of Situations that requests avoid

Rows == Accounts \cup Subs
Tables == {Budget} \cup Accounts

(* The situation in which the code is known to leave figures stale: DELETE *)
(* of a single sub-account with a value, under an account as all are here. *)
Situations == {"top level delete"}

ASSUME MarkupsAssumption ==
  /\ Accounts \cap Subs = {} /\ Budget \notin Rows /\ None \notin Rows \cup Rates
  /\ ParentOf \in [Rows -> Tables]
  /\ \A r \in Rows : ParentOf[r] = Budget <=> r \in Accounts
  /\ Raws \subseteq Nat /\ 0 \in Raws /\ Rates \subseteq Nat
  /\ Avoided \subseteq Situations

Avoids(situation, holds) == situation \in Avoided => ~holds

VARIABLES
  db,         \* the database, as the transaction of the request sees it
  connected,  \* receivers that would be called
  held,       \* by section, the receivers it disconnected and will reconnect
  todo,       \* what is left to run
  req         \* the request being served

vars == <<db, connected, held, todo, req>>

-----------------------------------------------------------------------------
(* The database.                                                           *)

Units == {"percent", "flat"}
Markup == [table : Tables, unit : Units, rate : Rates \cup {None}]
Figures == [value : Nat, accumulated : Nat, own : Nat]
Zero == [value |-> 0, accumulated |-> 0, own |-> 0]

Database ==
  [live : SUBSET Rows, raw : [Subs -> Raws], markup : [Ids -> Markup \cup {None}],
   links : SUBSET (Rows \X Ids), fig : [Rows \cup {Budget} -> Figures]]

Children(d, t) == {r \in d.live : ParentOf[r] = t}
MarkupsOf(d, t) == {m \in Ids : d.markup[m] # None /\ d.markup[m].table = t}
Linked(d, m) == {r \in Rows : <<r, m>> \in d.links}
IsEmpty(d, m) == Linked(d, m) = {}

Sum(f) == FoldFunction(LAMBDA a, b : a + b, 0, f)

(* None counts for nothing, in a flat markup as in a percentage one.       *)
Worth(d, m) == IF d.markup[m].rate = None THEN 0 ELSE d.markup[m].rate

(* A sub-account of these tables has no children: its raw value counts.    *)
Nominal(d, r) == IF r \in Subs THEN d.raw[r] ELSE d.fig[r].value

Value(d, r) == Sum([k \in Children(d, r) |-> Nominal(d, k)])

(* Markups in `gone` are about to be deleted and no longer count.          *)
FromBelow(d, r, gone) ==
  Sum([k \in Children(d, r) |-> d.fig[k].own + d.fig[k].accumulated])
    + Sum([m \in {x \in MarkupsOf(d, r) \ gone : d.markup[x].unit = "flat"} |-> Worth(d, m)])

Contribution(d, r, base, gone) ==
  Sum([m \in {x \in Ids \ gone : /\ <<r, x>> \in d.links /\ d.markup[x] # None
                                 /\ d.markup[x].unit = "percent"} |-> Worth(d, m) * base])

(* A row estimated from its children, its raw value and its markups.       *)
Fresh(d, r, gone) ==
  LET value == Value(d, r)
      below == FromBelow(d, r, gone)
      base  == (IF r \in Subs THEN d.raw[r] ELSE value) + below
  IN  [value |-> value, accumulated |-> below,
       own |-> IF r = Budget THEN 0 ELSE Contribution(d, r, base, gone)]

Estimated(d, S, gone) ==
  [d EXCEPT !.fig = [r \in DOMAIN d.fig |-> IF r \in S THEN Fresh(d, r, gone) ELSE d.fig[r]]]

(* The rows of S and everything above them, from the bottom up.  A routine *)
(* always climbs: an estimate that alters nothing reports that it did.     *)
Above(S) == S \cup {ParentOf[r] : r \in S \cap Rows}
EstimateAll(d, S, gone) ==
  LET up == Above(Above(S \cap (d.live \cup {Budget})))
  IN  Estimated(Estimated(Estimated(d, up \cap Subs, gone), up \cap Accounts, gone),
                up \cap {Budget}, gone)

-----------------------------------------------------------------------------
(* Signals.  A section disconnects receivers and reconnects what it has    *)
(* itself disconnected: with another section around it, nothing.           *)

Receivers == {"account_saved", "account_to_delete", "subaccount_saved",
              "subaccount_to_delete", "markup_saved", "markups_changed", "markup_to_delete"}
Sections == {"account_saved", "estimate", "calculate", "clear", "recalculate",
             "bulk_delete", "bulk_delete_rows"}

(* post_save.disable(sender=...) takes the receivers of one model alone.   *)
Reach(sec) == IF sec = "account_saved" THEN {"account_saved"} ELSE Receivers

Step(o, what) == <<[op |-> o, on |-> what]>>
Section(sec, steps) == Step("enter", sec) \o steps \o Step("exit", sec)
InTurn(steps) == FlattenSeq(steps)
Each(o, order) == InTurn([i \in DOMAIN order |-> Step(o, order[i])])

(* bulk_estimate_all and bulk_calculate, which run with the signals off.   *)
Estimate(S, gone) == Step("estimate", [rows |-> S, gone |-> gone, leaving |-> {}])
BulkEstimateAll(S, gone) == Section("estimate", Estimate(S, gone))
BulkCalculate(S) == Section("calculate", Estimate(S, {}))

-----------------------------------------------------------------------------
(* What the receivers do, as the steps they put in front.                  *)

When(receiver, steps) == IF receiver \in connected THEN steps ELSE <<>>

(* manager.bulk_delete: everything the markups contribute to is estimated  *)
(* without them, then they are deleted in turn.                            *)
Associated(d, M) ==
  (UNION {Linked(d, m) : m \in M})
  \cup {d.markup[m].table : m \in {x \in M : d.markup[x].unit = "flat"}}
BulkDelete(d, order) ==
  LET M == Range(order)
  IN  Section("bulk_delete",
        Section("recalculate", BulkEstimateAll(Associated(d, M), M)) \o Each("delete", order))

(* markup_saved.  The parent and the linked rows are estimated while they  *)
(* are still linked; a markup turned flat then loses them in silence.      *)
RateChanged(was, is) == was = None \/ was.rate # is.rate
UnitOrRateChanged(was, is) == was = None \/ was.unit # is.unit \/ was.rate # is.rate
ToReestimate(d, m, was, is) ==
  IF UnitOrRateChanged(was, is) THEN {is.table} \cup Linked(d, m) ELSE {}
TurnedFlat(was, is) == was # None /\ was.unit # is.unit /\ is.unit = "flat"
MarkupStaysLinked(d, m, was, is) == BulkEstimateAll(ToReestimate(d, m, was, is), {})
MarkupSaved(d, m, was, is) ==
  BulkEstimateAll(ToReestimate(d, m, was, is), {})
    \o IF TurnedFlat(was, is) /\ ~IsEmpty(d, m)
       THEN Section("clear", Step("unlink", [markup |-> m, rows |-> Linked(d, m)])) ELSE <<>>

(* markups_changed, after rows were removed from a markup and after rows   *)
(* were added to it.  A percentage markup left without rows is deleted.    *)
RowsRemoved(d, m, rows) ==
  BulkEstimateAll(rows, {})
    \o IF d.markup[m].unit = "percent" /\ IsEmpty(d, m) THEN BulkDelete(d, <<m>>) ELSE <<>>
RowsAdded(rows) == BulkEstimateAll(rows, {})

(* markup_to_delete, of a markup that is deleted by itself: everything it  *)
(* is about, whatever its unit, is estimated without it.                   *)
MarkupToDelete(d, m) == BulkEstimateAll({d.markup[m].table} \cup Linked(d, m), {m})

(* subaccount_saved: only a leaf with a new value is worth an estimate.    *)
WillChangeParent(d, s, raw) == IF s \in d.live THEN raw # d.raw[s] ELSE raw # 0

(* instance.calculate(commit=True), without rows that are about to go.     *)
CalculateRow(r, leaving) == Step("calculate", [row |-> r, leaving |-> leaving])

(* account_saved: the account is calculated and so saved again, with its   *)
(* own receivers off.                                                      *)
AccountSaved(a) == Section("account_saved", CalculateRow(a, {}))

(* subaccount_to_delete: its account without the sub-account.              *)
SubAccountToDelete(s) == CalculateRow(ParentOf[s], {s})

(* account_to_delete: the budget without the account.                      *)
AccountToDelete(a) ==
  Step("estimate", [rows |-> {Budget}, gone |-> {}, leaving |-> {a}])

-----------------------------------------------------------------------------
(* One step of a request.                                                  *)

Idle == [kind |-> "none"]
Running == req # Idle
NextIs(o) == Running /\ todo # <<>> /\ todo[1].op = o
On == todo[1].on
Push(steps) == todo' = steps \o Tail(todo)

Enter ==
  /\ NextIs("enter")
  /\ LET off == connected \cap Reach(On)
     IN  /\ connected' = connected \ off
         /\ held' = [held EXCEPT ![On] = @ \cup off]
  /\ Push(<<>>) /\ UNCHANGED <<db, req>>

BackEverything(sec) == Receivers
Back(sec) == held[sec]

Exit ==
  /\ NextIs("exit")
  /\ connected' = connected \cup Back(On)
  /\ held' = [held EXCEPT ![On] = {}]
  /\ Push(<<>>) /\ UNCHANGED <<db, req>>

EstimateRows ==
  /\ NextIs("estimate")
  /\ db' = [EstimateAll([db EXCEPT !.live = @ \ On.leaving], On.rows, On.gone)
              EXCEPT !.live = db.live]
  /\ Push(<<>>) /\ UNCHANGED <<connected, held, req>>

(* The row is saved, which tells its receivers, then its parent calculated *)
(* from all its rows.  Saving a budget does no more.                       *)
Calculate ==
  /\ NextIs("calculate")
  /\ LET r == On.row
     IN  /\ db' = [Estimated([db EXCEPT !.live = @ \ On.leaving], {r}, {})
                     EXCEPT !.live = db.live]
         /\ Push(IF r = Budget THEN <<>>
                 ELSE Step("save_row", [row |-> r, raw |-> None])
                        \o CalculateRow(ParentOf[r], {}))
  /\ UNCHANGED <<connected, held, req>>

SaveRow ==
  /\ NextIs("save_row")
  /\ LET r == On.row
         raw == IF On.raw = None THEN db.raw[r] ELSE On.raw
     IN  IF r \in Accounts
         THEN /\ db' = [db EXCEPT !.live = @ \cup {r}]
              /\ Push(When("account_saved", AccountSaved(r)))
         ELSE /\ db' = [db EXCEPT !.live = @ \cup {r}, !.raw[r] = raw]
              /\ Push(When("subaccount_saved",
                           IF WillChangeParent(db, r, raw) THEN BulkEstimateAll({r}, {}) ELSE <<>>))
  /\ UNCHANGED <<connected, held, req>>

SaveMarkup ==
  /\ NextIs("save")
  /\ db' = [db EXCEPT !.markup[On.markup] = On.as]
  /\ Push(When("markup_saved", MarkupSaved(db', On.markup, db.markup[On.markup], On.as)))
  /\ UNCHANGED <<connected, held, req>>

(* set_children: what is no longer wanted is removed, then what is missing *)
(* is added.                                                               *)
SetChildren ==
  /\ NextIs("set")
  /\ LET m == On.markup
         old == Linked(db, m)
     IN  Push((IF old \subseteq On.rows THEN <<>>
               ELSE Step("unlink", [markup |-> m, rows |-> old \ On.rows]))
              \o (IF On.rows \subseteq old THEN <<>>
                  ELSE Step("link", [markup |-> m, rows |-> On.rows \ old])))
  /\ UNCHANGED <<db, connected, held, req>>

Unlink ==
  /\ NextIs("unlink")
  /\ db' = [db EXCEPT !.links = @ \ (On.rows \X {On.markup})]
  /\ Push(When("markups_changed", RowsRemoved(db', On.markup, On.rows)))
  /\ UNCHANGED <<connected, held, req>>

Link ==
  /\ NextIs("link")
  /\ db' = [db EXCEPT !.links = @ \cup (On.rows \X {On.markup})]
  /\ Push(When("markups_changed", RowsAdded(On.rows)))
  /\ UNCHANGED <<connected, held, req>>

(* instance.delete(): the receivers first, the rows of the database last.  *)
Delete ==
  /\ NextIs("delete")
  /\ Push(When("markup_to_delete", MarkupToDelete(db, On)) \o Step("erase", On))
  /\ UNCHANGED <<db, connected, held, req>>

WithoutMarkups(d, M) ==
  [d EXCEPT !.markup = [m \in Ids |-> IF m \in M THEN None ELSE d.markup[m]],
            !.links = {l \in d.links : l[2] \notin M}]

Erase ==
  /\ NextIs("erase")
  /\ db' = WithoutMarkups(db, {On})
  /\ Push(<<>>) /\ UNCHANGED <<connected, held, req>>

(* The sub-accounts that go with an account are told as well, and leave it *)
(* at that: its is_deleting is set.                                        *)
DeleteRow ==
  /\ NextIs("delete_row")
  /\ Push((IF On \in Accounts THEN When("account_to_delete", AccountToDelete(On))
           ELSE When("subaccount_to_delete", SubAccountToDelete(On)))
            \o Step("erase_row", On))
  /\ UNCHANGED <<db, connected, held, req>>

(* What depends on a row goes with it: the rows and the markups of its     *)
(* table, and its links, of which no receiver hears.                       *)
WithoutRowsOnly(d, S) ==
  [d EXCEPT !.live = @ \ S,
            !.raw = [s \in Subs |-> IF s \in S THEN 0 ELSE d.raw[s]],
            !.fig = [r \in DOMAIN @ |-> IF r \in S THEN Zero ELSE d.fig[r]]]
WithoutRows(d, S) ==
  [d EXCEPT !.live = @ \ S, !.links = {l \in @ : l[1] \notin S},
            !.raw = [s \in Subs |-> IF s \in S THEN 0 ELSE d.raw[s]],
            !.fig = [r \in DOMAIN @ |-> IF r \in S THEN Zero ELSE d.fig[r]]]

EraseRow ==
  /\ NextIs("erase_row")
  /\ db' = WithoutMarkups(WithoutRows(db, {On} \cup Children(db, On)), MarkupsOf(db, On))
  /\ Push(<<>>) /\ UNCHANGED <<connected, held, req>>

-----------------------------------------------------------------------------
(* The requests.                                                           *)

Ask(kind, m, to, rows, steps) ==
  /\ ~Running
  /\ req' = [kind |-> kind, markup |-> m, to |-> to, rows |-> rows, before |-> db]
  /\ todo' = steps
  /\ UNCHANGED <<db, connected, held>>

(* What the serializer lets pass: a flat markup is given no rows, a        *)
(* percentage one has some of its own table, given or from before.         *)
Valid(m, to, rows) ==
  IF to.unit = "flat" THEN rows \in {None, {}}
  ELSE IF rows = None THEN db.markup[m] # None /\ ~IsEmpty(db, m)
  ELSE rows # {}

(* The field children: rows of the table of the markup, or not given.      *)
GivenRows(t) == {None} \cup SUBSET Children(db, t)

SaveSteps(m, to, rows) ==
  Step("save", [markup |-> m, as |-> to])
    \o IF rows # None /\ to.unit = "percent"
       THEN Step("set", [markup |-> m, rows |-> rows]) ELSE <<>>

PostMarkup(m) ==
  /\ db.markup[m] = None
  /\ \E t \in {Budget} \cup (Accounts \cap db.live), u \in Units, rate \in Rates \cup {None} :
       \E rows \in GivenRows(t) :
         LET to == [table |-> t, unit |-> u, rate |-> rate]
         IN  Valid(m, to, rows) /\ Ask("save", m, to, rows, SaveSteps(m, to, rows))

PatchMarkup(m) ==
  /\ db.markup[m] # None
  /\ \E u \in Units, rate \in Rates \cup {None} :
       \E rows \in GivenRows(db.markup[m].table) :
         LET to == [db.markup[m] EXCEPT !.unit = u, !.rate = rate]
         IN  Valid(m, to, rows) /\ Ask("save", m, to, rows, SaveSteps(m, to, rows))

DeleteMarkup(m) ==
  /\ db.markup[m] # None
  /\ Ask("delete", m, None, {}, Step("delete", m))

(* A bulk request names some objects by their keys, which may be of any    *)
(* table, in an order of the database's choosing.                          *)
SomeOf(S) == UNION {SetToSeqs(T) : T \in SUBSET S \ {{}}}

BulkDeleteMarkups ==
  \E order \in SomeOf({x \in Ids : db.markup[x] # None}) :
    Ask("delete", order[1], None, {}, BulkDelete(db, order))

(* POST and PATCH of a row.                                                *)
SaveARow(r) ==
  /\ r \in Subs => ParentOf[r] \in db.live
  /\ \E raw \in IF r \in Subs THEN Raws ELSE {None} :
       Ask("rows", None, None, {}, Step("save_row", [row |-> r, raw |-> raw]))

(* A delete saves the flag is_deleting before anything else.               *)
DeleteSteps(r) == Step("save_row", [row |-> r, raw |-> None]) \o Step("delete_row", r)

DeleteAccount(a) ==
  /\ a \in db.live
  /\ Ask("rows", None, None, {}, DeleteSteps(a))

(* A sub-account without a value of its own adds nothing to its account.   *)
DeleteSubAccount(s) ==
  /\ s \in db.live
  /\ Avoids("top level delete", db.raw[s] # 0)
  /\ Ask("rows", None, None, {}, DeleteSteps(s))

(* bulk-delete-children: all deleted with the signals off, then what they  *)
(* counted in is calculated: the budget always, an account only if one of  *)
(* its rows was worth something.                                           *)
Counted(S) == {ParentOf[s] : s \in {x \in S : x \in Accounts \/ db.raw[x] # 0}}
BulkDeleteRows ==
  \E order \in SomeOf(Accounts \cap db.live) \cup SomeOf(Subs \cap db.live) :
    Ask("rows", None, None, {},
        Section("bulk_delete_rows",
          InTurn([i \in DOMAIN order |-> DeleteSteps(order[i])])
            \o BulkCalculate(Counted(Range(order)))))

Request ==
  \/ \E m \in Ids : PostMarkup(m) \/ PatchMarkup(m) \/ DeleteMarkup(m)
  \/ BulkDeleteMarkups
  \/ \E r \in Rows : SaveARow(r)
  \/ \E a \in Accounts : DeleteAccount(a)
  \/ \E s \in Subs : DeleteSubAccount(s)
  \/ BulkDeleteRows

(* The transaction commits if every link still has its markup.             *)
Commit ==
  /\ Running /\ todo = <<>>
  /\ \A l \in db.links : db.markup[l[2]] # None
  /\ req' = Idle /\ UNCHANGED <<db, connected, held, todo>>

(* An error at any step, of the database for one: the transaction is       *)
(* rolled back, and every section is left on the way out.                  *)
Unwound == connected \cup UNION {held[s] : s \in Sections}
Fail ==
  /\ Running
  /\ db' = req.before /\ todo' = <<>> /\ req' = Idle
  /\ connected' = Unwound
  /\ held' = [s \in Sections |-> {}]

Init ==
  /\ db = [live |-> {}, raw |-> [s \in Subs |-> 0], markup |-> [m \in Ids |-> None],
           links |-> {}, fig |-> [r \in Rows \cup {Budget} |-> Zero]]
  /\ connected = Receivers /\ held = [s \in Sections |-> {}]
  /\ todo = <<>> /\ req = Idle

Next ==
  \/ Request
  \/ Enter \/ Exit \/ EstimateRows \/ Calculate \/ SaveRow \/ SaveMarkup \/ SetChildren
  \/ Unlink \/ Link \/ Delete \/ Erase \/ DeleteRow \/ EraseRow
  \/ Commit \/ Fail

Spec == Init /\ [][Next]_vars

-----------------------------------------------------------------------------
(* Properties.                                                             *)

(* Every variable has its type, and no link, sub-account or markup is left *)
(* behind by a row that was deleted.                                       *)
TypeOK ==
  /\ db \in Database
  /\ connected \in SUBSET Receivers /\ held \in [Sections -> SUBSET Receivers]
  /\ req = Idle \/ req.before \in Database
  /\ \A l \in db.links : l[1] \in db.live
  /\ \A s \in db.live \cap Subs : ParentOf[s] \in db.live
  /\ \A m \in Ids : db.markup[m] # None => db.markup[m].table \in db.live \cup {Budget}

(* Once a request has ended, the figures stored with every row are the     *)
(* ones a fresh estimation of the whole budget gives, whatever receivers   *)
(* ran on the way and in which order; unless the request was the DELETE of *)
(* a single sub-account that counts, after which its account still shows   *)
(* it.                                                                     *)
FiguresTrue == ~Running => EstimateAll(db, db.live \cup {Budget}, {}) = db

(* The signals are off from the start of an outermost section to its end,  *)
(* and no longer: not after a nested one has ended, not after an error.    *)
(* An account that is calculated is calculated once more as it is saved,   *)
(* and not again for the save of that.                                     *)
Left(o, sec) == Cardinality({i \in DOMAIN todo : todo[i].op = o /\ todo[i].on = sec})
Pending(r) == Cardinality({i \in DOMAIN todo : todo[i].op = "calculate" /\ todo[i].on.row = r})
SignalsKept ==
  /\ ~Running => connected = Receivers /\ \A s \in Sections : held[s] = {}
  /\ \A s \in Sections \ {"account_saved"} : Left("exit", s) > Left("enter", s) => connected = {}
  /\ Pending(Budget) <= 2 /\ \A a \in Accounts : Pending(a) <= 1

(* A request that commits has done what was asked: the markup has the unit *)
(* and the rate given and exactly the rows given or those it had, a        *)
(* deleted one is gone.  Links join a row with a percentage markup of its  *)
(* own table, and only deleting rows takes a markup its last one.          *)
Wanted(r) ==
  IF r.to.unit = "flat" THEN {} ELSE IF r.rows = None THEN Linked(r.before, r.markup) ELSE r.rows
AsAsked ==
  [][Commit =>
       /\ req.kind = "save" => db.markup[req.markup] = req.to /\ Linked(db, req.markup) = Wanted(req)
       /\ req.kind = "delete" => db.markup[req.markup] = None
       /\ \A l \in db.links : db.markup[l[2]].unit = "percent"
                                /\ db.markup[l[2]].table = ParentOf[l[1]]
       /\ \A m \in Ids : db.markup[m] # None /\ db.markup[m].unit = "percent" /\ IsEmpty(db, m)
            => req.kind = "rows" \/ IsEmpty(req.before, m)]_vars
==============================================================================
