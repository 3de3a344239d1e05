# Verification of the happybudget API

`src/src/happybudget` is the server of a film budgeting application: a Django
program whose requests edit trees of rows (a budget, its accounts, their
sub-accounts) and keep, on every row, figures accumulated from the rows below.
This directory holds TLA+ models of its core logic, the TLC configurations that
check them on small instances, and TLAPS proofs of what matters most.

Paths below are relative to `src/src/happybudget/app/` unless they start with
`src/`.

## 1. Inventory

| component | state it keeps | operations | hard part | what makes it correct |
| --- | --- | --- | --- | --- |
| Sub-accounts (`subaccount/`) | parent (an account or a sub-account), rate, quantity, multiplier, fringes, stored figures | create, update, delete, bulk forms of each, `bulk_estimate` | a row counts for itself only without children; the routine works on objects in memory, level by level | stored figures are those a fresh estimation would store |
| Accounts (`account/`) | stored figures | create, update, delete, bulk forms | every save recalculates, from inside other handlers too | as above |
| Budgets and templates (`budget/`, `template/`) | stored totals | create, delete, `calculate`, duplicate | top of every roll-up | total = sum over the bottom of the tree |
| Fringes (`fringe/`) | unit, rate, cutoff; assignment to sub-accounts | create, update, delete, bulk forms, assign | reaches sub-accounts on any level at once | as for sub-accounts |
| Shared routines (`budgeting/`) | the tree of objects in memory | `perform_filtration_routines`, `bulk_*_all`, `children_method_handler` | unsaved children override the database; a set keeps its first object | what is read is what will be saved |
| Markups (`markup/`) | flat and percent markups on rows | create, update, delete, assign | estimated before or after the row goes | as for fringes |
| Actuals (`actual/`) | value, owner (row or markup) | create, update, delete, bulk, import | old and new owner on different levels | a row's actual = sum of actuals below |
| Ordering (`tabling/`) | a lexicographic `order` per table | insert after a row, append, bulk append, move | lock on the last row, unique constraint, one retry | no two rows share an order; an append goes last; no request fails |
| Cached responses (`cache.py`, `budgeting/cache.py`) | response per user, path and query | get, set, invalidate with dependants | invalidation against concurrent computation and commit | no response older than the last own edit |
| Groups (`group/`) | members through a foreign key | assign, move, sweep | emptied by single and bulk operations; swept by a celery task | an empty group goes; a group about to be filled stays |
| Attachments (`io/`) | file, relations to contacts, actuals, sub-accounts | upload, assign, remove, sweep | uploaded before assigned; swept by a celery task | as for groups |
| Duplication (`budget/duplication/`) | map from old rows to new | copy a budget or template | references between copied rows | the copy is isomorphic |
| Signals (`signals/`) | disabled receivers of the process | send, `disable` | bulk operations run without receivers and must do their work | bulk and single forms agree |
| Field tracking and deletes (`model.py`, `query.py`) | values at the last save, `is_deleting` | save, delete, cascade | receivers run between collection and deletion | receivers see the change once |
| Sign-in (`authentication/`, `user/`) | users (active, verified, password), sessions, the JWT cookie, tokens in mails | register, verify, login, social login, logout, recover, change a password, validate | two cookies that must go together, saved and set by every answer, in any order | the JWT goes along with the session; a late answer undoes no logout |
| Permissions, collaborators (`permissions/`, `collaborator/`, `views/generics.py`) | owners, collaborators and their roles, public tokens, the order of budgets | check a view, check an object, grant, revoke, share | nested conditions that rely on those before them; what is checked changes before it is used | a request gets what is promised to who makes it, and never an error of the server |
| Billing (`billing/`) | a customer's key; the checkout in the session; the subscription in the JWT | checkout, sync, portal | the truth is at Stripe and changes by itself; the JWT repeats what it was told | what is believed was true since Stripe was last asked, but for what overlapping requests carry; who paid is linked |
| Bank import (`integrations/plaid/`) | answers of an external service | import | the state is elsewhere | |
| Contacts, tags, overtime, PDF, serializers, views | plain records; parsing and routing | | | |

Requests are served by gunicorn's sync workers (`conf/gunicorn_config.py`): a
process serves one request at a time, and a request is one database transaction
(`ATOMIC_REQUESTS`, `conf/settings/db.py:51`) at PostgreSQL's READ COMMITTED.
Inside a request handlers call one another synchronously: a save sends
`post_save`, its receiver estimates, the estimation saves further rows, and
each of those saves sends signals again, unless `signals.disable` is in force.
Celery tasks run beside the requests.

The hazards are listed, each at its line, in `PROJECT.json`.

## 2. Modules

| module | stands for |
| --- | --- |
| `BudgetTree` | the rows of a budget and the arithmetic of their figures, no state |
| `RollUp` | edits of rows and fringes and the estimation routine, pass by pass (no markups) |
| `Ledger`, `RollUpLedger` | what accounts and the budget promise to show, and that `RollUp` implements it |
| `RollUpProofs` | theorems about `RollUp` (section 4) |
| `Groups` | the groups of one table: overlapping transactions and the celery sweep |
| `LexOrder` | the arithmetic of the orders of rows, no state |
| `TableKeys` | the orders of one table as rows come, move and go, one request after another |
| `OrderedTable` | the requests that do so at once: locks, the unique constraint, the retry |
| `EndpointCache` | responses kept per user and path, the edits and what they invalidate |
| `Actualize` | actuals and how they are added up, by requests that overlap |
| `Attachments` | attachments, their links and their files, and the celery sweep |
| `Duplication` | the copy of a budget while others edit the original |
| `Markups` | markups, what they add to the figures, and the signals around them |
| `Access` | the permissions, and the requests that change what they ask about |
| `Sessions` | sessions, the JWT and billing, for a browser whose requests overlap |
| `OrderProofs` | theorems about `LexOrder`, `TableKeys` and `OrderedTable` (section 4) |
| `BudgetProofs` | theorems about `Duplication` and `Actualize` (section 4) |
| `EndpointCacheProofs`, `AttachmentsProofs`, `AccessProofs`, `SessionsProofs`, `GroupsProofs` | theorems about the modules they are named after (section 4) |

Each `MC*` module gives the constants of the module it is named after for TLC
(`TableKeys` needs none). `RollUp` reads `BudgetTree`; `TableKeys` and `OrderedTable`
share `LexOrder`; the others stand alone, each with as much of its neighbours as
its properties need: `Actualize` has the markups that own actuals,
`EndpointCache` the edits of every component that invalidate, `Sessions` the
billing that the JWT speaks of.

### How `RollUp` corresponds to the code

State:

* `live`, `parent`, `level`, `raw`, `fringed`, `terms` are columns of the
  account, sub-account and fringe tables. `raw` is `raw_value` (multiplier x rate
  x quantity as one number), `level` is `nested_level`, `fringed` the
  many-to-many table, `terms` a fringe's unit, rate and cutoff.
* `rec[n]` is what is stored on row `n`: `accumulated_value`,
  `accumulated_fringe_contribution` and, for a sub-account,
  `fringe_contribution`.
* `job` is the local state of `perform_bulk_routine`: `todo` is `filtration`,
  `unsaved` is `unsaved`, `tree` is the `BudgetTree` that will be written,
  `alias` says which objects of `filtration` are the ones in the tree (a set of
  Django objects compares keys and keeps the first object it was given, so two
  objects for one row do occur), `gone` is `children_to_delete`, `dying` is
  `fringes_to_be_deleted`.

Requests are one action each, with the condition under which the handler starts
an estimation. The routine has three actions: `EstimateSubAccounts` (one call of
`recursion`), `EstimateAccounts` (the accounts, then the budget) and `Save`
(the bulk updates and, for a delete, the removal of the rows). The routines of
the delete receivers (`parent.calculate(commit=True, trickle=True,
children_to_delete=...)`) climb the same way, a row at a time, and are modelled by
the same actions starting from the parent (`BeginAt`), with one difference that
matters: when an account is saved on the way, `account_saved` calculates it once
more without `children_to_delete` (`Counted`).

`Account.estimate` and `SubAccount.estimate` always report an alteration (the
previous value is compared with a bound method, `subaccount/models.py:208` and
`account/models.py:87`), so every pass goes on to the budget; the model says so
rather than that unaltered rows stop the climb.

What is abstracted: keys are distinct across tables; a figure is an integer;
markups do not exist (they are in `Markups` and `Actualize`); `fringes.set(...)` is a removal and an addition, each with its own
routine; a row never changes parent (no endpoint writes it); an update that
changes fields but not their product is left out, as it stores what is stored.

### How `Groups` corresponds to the code

State: `group[r]` is the foreign key of row `r` (`None` without one, `Absent`
when there is no such row), `live` the groups there are, `old` those the sweep's
cutoff lets through. These are committed. `tx[p]` is what process `p` is in the
middle of: what its transaction has written (`put`, `made`, `dead`) and the local
state of the handler (`aim`, `seen`: the objects it loaded and what it will set on
them; `watch`, `doomed`, `caught`: the arguments of `bulk_delete_empty_groups`, the
groups it decided to delete, the rows the delete collected).

A request is an action that loads and validates; then come its statements, each an
action, in the order of the code: `ReadChildren` and `Write` (the two loops of
`GroupSerializer.update`, a save, or one row of a bulk operation), `Look` (count,
and `Group.objects.get`), `Collect` and `Purge` (the two halves of a delete),
`Commit` or `Refuse`. `Watched` is the heart of the matter: which group a handler looks
at after a row has moved differs between a save (the group the object was loaded
with), `bulk_save` (the new one), `bulk_delete` (the loaded one) and the delete of
one row (none: no receiver reports it). A `PATCH` of a group looks as soon as a
row has left it (a signal), the bulk operations once at the end.

Of the database: a statement reads what is committed and what its own transaction
wrote; a write waits for another transaction that wrote the same row, a commit
whose rows point to a group waits for whoever is deleting that group, and then
fails if it is gone; two transactions that wait for each other are a `Deadlock`,
and either is ended. (A cycle of three needs three transactions, and `MaxBusy` is 2.)
Foreign keys are verified at the commit because Django declares them deferred.
What is abstracted: a process takes its rows in any order, the code in that of its query; the load of a group
and its first save are one step; keys are not reused while anyone holds one
(`Fresh`); requests end within five minutes of `Age`.

`calm` marks a transaction during which no other was committed. The three action
properties are about calm transactions, for at READ COMMITTED the others can be
too late for anything; what they leave behind is `CleansUp`'s business.

### How `LexOrder`, `TableKeys` and `OrderedTable` correspond to the code

An order is a string of letters; `LexOrder` has the functions of `tabling/utils.py`
that find one between two others, one after another, or say that there is none
(`Inconsistent`). `TableKeys` gives out keys as `OrderedRowManager` and the serializer do
and forgets which row has which; it asks about the keys only: where room is left
after any sequence of requests.

`OrderedTable` gives rows names, for requests that overlap. A request begins when it has
looked up the rows it names, with their keys (`old`), and has arranged the table with
`order_with_groups` where it does so. Then it has four
steps. `Look` starts the locking query, which sees what is committed then; `Lock`
waits for those that hold the rows and reads them as they are by then
(`select_for_update` re-reads a row it has waited for but does not look for rows that
have come since); `Write` or `Refuse` depends on the unique constraint, where a
write waits for another transaction that has written or freed the key; `Commit`.
`ToLock` says how little is locked: `latest()` fetches one row, `first()` too, and in an
empty table there is none. `Retry` is the recursion of `bulk_create_with_order`.

Two things are as stale as in the code. The arrangement of `order_with_groups` is a
`Case` over the rows of an earlier query: rows that have come since sort last, in no
order (`Rearranged`). And the lower bound of `get_instance_bounds` is the instance the
serializer looked up before any lock, with the key it had then, while the upper
bound is read under the lock (`KeyAfter`). A plain `PATCH` writes the whole row as loaded,
and inserts it again if it has gone (`Reinserts`), unless another transaction has done so
before.

A table is a function from each row to those before it, rather than a sequence:
that is all the code reads off it (the last row, the first, the next), and the
provers can reason about it. What is abstracted: that the rows are looked up and
arranged in several queries, one after another; one group; columns other than order
and group; and the 1024 letters of the column, which `KeysStayShort` (of `TableKeys`)
bounds from the other side.

### How `EndpointCache` corresponds to the code

The settings have caching switched off (`CACHE_ENABLED`, `conf/settings/cache.py:4`, and
tests switch it on); the module is about what happens when it is on.

`content[e]` stands for what endpoint `e` would answer: the number of the last
committed edit that changed it. `cached[u][k]` is what is kept for user `u`; a key
is an endpoint with or without query parameters. `Miss` and `Store` are the two
halves of `endpoint_cache.__call__` around the view; a hit runs the checks of
`view.initial` and is answered with what is kept. An edit names what it
invalidates, following the declared dependencies (`InvalidateDetail`), deletes
those keys for its own user, and commits after. Which edits change and invalidate
what is read off the handlers, one definition each (`SaveRow`, `AddChild`,
`SaveFlatMarkup`, `SaveFringe`, ...). What changes is of two kinds: what an endpoint says of
its own row or list (`changed`), and what it says of others (`around`): the detail of
a row lists the rows of its table and the rows above (`Mentions`), and what was below a
deleted row is gone. Caches that the source disables (`disabled=True`) keep and
invalidate nothing, and have no keys. What is abstracted: what a response says; the date
and the author of a budget's last change; units; what the receivers of rows deleted
along with another invalidate besides.

The code invalidates nothing on account of `around`, in any situation (finding 20). As to
`changed`, seven situations serve old answers in the code as it is, and the runs avoid them:

* "own overlap": a GET is computed before and stored after an edit of the same user;
* "query": keys with parameters are never invalidated, for the pattern `?*` is
  deleted as a key;
* "error": an error's body is kept and served as 200;
* "nested markup": a flat markup below the top invalidates children and budget, not the row;
* "markup link": the receiver of new links (`subaccount/signals.py:62`) is connected for
  sub-accounts and not for accounts; and a markup's link to a deleted row goes without
  a signal, while the list of markups keeps it;
* "markup actual": the list of markups shows their actuals, and `bulk_actualize_all`
  (`actual/managers.py:102`) names rows only;
* "contact": a contact that is deleted leaves its sub-accounts (`subaccount/models.py:275`),
  whose details keep it.

### How `Actualize` corresponds to the code

`book` are the actuals, `rec` the actual value stored on every row. A request asks
(fetches its objects), writes, climbs and commits. The climb is that of
`perform_filtration_routines`: from the lowest level given, one
`perform_bulk_routine` for each (`StartClimb` to `EndClimb`), whose trees are merged
so that the first object of a row is kept (`Merge`), while the rows found on the way
are handed to the next climb (`HandedOver`). `Pass` is one call of the recursion; it
reads actuals, markups and stored values as committed by then, with what the
request has written itself. `StandIns` is `children_method_handler`'s grouping of
unsaved children by the parent's key alone. `given` are the objects the request came
with and their figures then, `left` those no climb has started from. Of the tree, `Above`
is every row that all sets closed under parents have, so that neither it nor `Tier`
needs recursion.

`raced` marks the rows two overlapping requests had a hand in, until some request
actualizes them undisturbed: at READ COMMITTED without locks each of the two reads
what the other has not committed. For that, a request under way knows the rows
others have had a hand in since it began (`overlooked`), and forgets one only when it
actualizes it from figures all of which will be stored as they are
(`Current`). To forget one as soon as it is actualized is not enough: with three
actuals in hand, which is beyond the bounds of the run, a row is then stored wrong
that is not marked. The proof found that. The situations are "mixed levels" (owners on
different levels: a row reached from two of them is stored with the figure of
the first climb) and "same key" (an account and a sub-account with equal keys).
What is abstracted: values are small numbers, columns other than owner and value.

### How `Attachments` corresponds to the code

`name` and `links` are the attachment table and the three through tables (contacts,
actuals and sub-accounts are rows alike), `file` is the storage, whose files
change when the code writes or removes them and not at the commit. `AttachmentsChanged`
is the receiver of `post_remove` with `is_empty`; `Drop` is a delete with its
collector and the receiver that removes the file (`io/signals.py:18`);
`FindEmptyAttachments` is the query of the task; `RollBack` is a request that fails,
whose files stay as it left them. Situations: "row deleted" (a row's links go
with it and nobody looks what they led to) and "same name" (a file of
the same name takes the place of another).

### How `Duplication` corresponds to the code

Each query of `Duplicator` is an action in its order (`pc`): accounts; sub-accounts,
with the search for them (`search`: accounts, then a look at each row for its
children, level by level, then the selection), and the climb that finds the level of
each, a query a parent (`BeginWalk`, `Climb`, `EndWalk`); groups, after the same search,
and their rows; fringes, and those of each sub-account; markups and the rows of
each; actuals. Between any two an `Edit` of the original may be committed.

A row is loaded with its columns, and `instantiate_duplicate` fetches the group and
the contact they name by a query each (`budget/duplication/utils.py:35`), later: `held` has the
columns read and not fetched yet, and a value that is gone by then ends the copying
(`Gone`). A copy that was given a contact needs it until the commit, where the database
checks the key (`CommitCopy`). An edit is noted in `disturbed` as growth, as the loss of a
row, or as the removal of a group or contact in hand (`taken`); others are a loss
of no consequence. Look-ups in a loop that ask only whether things that can only go
are still there are made in one step, as a removal between two of them shows to the
later ones in either case. Where the original and the copy are of one class, the row
itself is fetched once more: whether it is depends on the request, so that failing
on a row that has gone is a possibility in `LookUpAccounts` and `EndWalk`, no must. So is
failing in `PrefetchSubAccounts`, whose log message needs a variable of another loop. The
units, colors and types that rows also refer to are removed by the admin site only
and are left out.

`copied`, `under` and
`links` are what the copy holds, named by the objects copied; `throughout` and `ever`
remember what was there all the time and at any time. `KeyOf` tells apart accounts
from accounts and sub-accounts from sub-accounts; an account and a
sub-account may have the same key, and in the run two have, as `ObjectSet` looks up
by key alone. What follows from it (finding 19) is what `NothingInvented` excepts
(`Misplaced`).

### How `Markups` corresponds to the code

`db` is the database as the request's transaction sees it: the rows, the markups, the
links between them and the figures stored. What is left of a request is `todo`, a
sequence of steps; a step that saves, links or deletes something puts in front
what its receivers do (`MarkupSaved`, `RowsRemoved`, `MarkupToDelete`, `AccountSaved`, ...),
in the order in which Django calls them, and they put in front what theirs do.
`Enter` and `Exit` are the two ends of `signals.disable`: `held` has what a section
disconnected, which is nothing inside another one (`disconnect_all_receivers`
returns what was connected). `Fail` is an error at any step: the transaction is
rolled back and every section is left on the way out. An account that is saved is
calculated and saved again, with `post_save` off for accounts alone, which is all
that ends the recursion (`account/signals.py:15`). The receiver of a sub-account that is
deleted has its account calculated without it (`SubAccountToDelete`), and the save of that
has it calculated with it once more, as the row is still there: every
sub-account here is directly under an account, so that the situation "top level delete"
is any `DELETE` of one that counts. The run avoids those and has the others.

What is abstracted: two levels of rows, for deeper ones and fringes are `RollUp`'s;
a share is a whole multiple (`Worth(d, m) * base`), so that sums stay integers; the
routine climbs whole (`EstimateAll`), for its passes are `RollUp`'s too.
`Commit` does not exist for a transaction that leaves a link to a missing markup:
it can only `Fail`, as the deferred foreign key makes it.

### How `Access` corresponds to the code

The first half has no state: `Perm`, `Stopping`, `AllOf`, `AnyOf` and `Reached` are the
conditions and their operators (`permissions/base.py`, `operators.py`), with
`affects_after`, `is_view_applicable` and `is_object_applicable`, and a third
outcome, `Crash`, for a condition that relies on something not checked before it.
`BudgetView`, `RowView`, `NestedView`, `CollaboratorView` are the `permission_classes` of
the views, composed as there. `Verdict` is `check_permissions` followed by
`check_object_permissions`.

The second half is the requests that change what is asked about. A request is
`Find`, `Check`, `Commit`, and any number of others run `Whole` in between; two that
overlap both ways are covered because the one that commits first has seen nothing
of the other. `gone` remembers that what a request found was deleted under it;
what it saves then is inserted again (`Overtaken`, `Write`). What is abstracted: what
is in a budget; the order in which budgets were created (`before`, not the time); staff neither own nor join budgets here; `everywhere` is what a
permission of staff allows (`STAFF_USER_GLOBAL_PERMISSIONS`); a user who is barred
or not verified counts as a visitor, whom the same conditions stop.

### How `Sessions` corresponds to the code

`row`, `session` are tables, `sale` is at Stripe, `cookie` the two cookies of the browser, and `tab`
the requests under way. `Send` is what a request takes with it: the cookies of then,
the session and the user loaded. The views answer (`Login`, `Logout`, `SyncCheckout`, ...),
each through `Answer`, which is `process_response` of `AuthTokenCookieMiddleware`
(`ShouldPersist`, `CookieUser`) and then of Django's `SessionMiddleware`, with its four
outcomes: the billing of the request cannot be told (an error of the server), it is
signed out, its session is gone by now, or the session is saved and both cookies set
(`Answered` is what the answer then holds). `Deliver` is the answer's arrival, in any order.
The JWT runs out before the session (`Lapse`) and so do the links in mails
(`ExpireMail`), a session does not; subscriptions change (`ChangePlan`), users are barred (`Disable`).

`mixed`, `since`, `out` and `begun` are history. `since` has what Stripe has said of a
user since an answer to a sign-in, a sync or a forced reload last renewed his JWT, and
what the requests that overlapped with that one still carry then (`Carried`): the
JWT they were sent with, or the one their answer holds. One that is a write takes
the old status over into its own answer (`authentication/middleware.py:84`), and puts
it back if it is answered last. `out` is not set by a sign-out while `mixed`. What
is abstracted: tokens are what they were signed as; what a page shows; the requests
of the admin site.

### Situations

The code as it is goes wrong in some situations (section 5). The constant
`Avoided` of a module names those a run keeps its requests out of, each as a guard
in the action where it bites. In `RollUp` there are five, and the passing runs and
the theorems about figures take `Avoided = Situations`; type correctness is proved for
every `Avoided`. `Groups` has four: "bulk move", "disjoint patch" and "patch without
rows" are findings 6 to 8; "single delete" is the `DELETE` of the last row of a
group, after which nothing looks at the group. `groups_sweep` avoids none. `Markups` has
"top level delete" alone, of the five of `RollUp`: the others need deeper trees or fringes.

## 3. Runs

| run | instance | checks |
| --- | --- | --- |
| `roll_up` | 1 account, 3 sub-accounts, 1 fringe, raw values 0 and 1, two kinds of fringe, levels 0 to 2, fairness | `TypeOK`, `Settled`, `RoutineInv`, `KeepsPromise`, `Terminates` |
| `groups_overlap` | 2 rows, 2 groups, 2 workers and celery, 2 of them busy at a time, symmetry | `TypeOK`, `CalmSucceeds`, `LeavesNoStray`, `DoesWhatIsAsked` |
| `groups_sweep` | 2 rows, 1 group, otherwise the same, no symmetry, no situation avoided, fairness | `CleansUp` |
| `order_keys` | 7 keys given out, bulk creates of several | `LandsBetween`, `HasRoom` |
| `ordered_overlap` | up to 2 rows at first, 3 requests, 3 at a time, bulk creates of 2, symmetry | `TypeOK`, `RefusedForAReason`, `AppendsGoLast`, `LandsWhereAsked` |
| `endpoint_cache` | a budget, an account, a sub-account; 2 users who edit, 1 who reads; 2 edits, 1 response kept; fairness | `TypeOK`, `OwnEditsVisible`, `Heals` |
| `actualize` | 1 account, 3 sub-accounts on 2 levels, 1 markup, 2 actuals, 2 workers, 2 requests, symmetry | `ActualsTypeOK`, `RightUnlessRaced`, `AddsUp` |
| `attachments` | 2 rows, 2 attachments, 2 names, 2 workers and celery, 2 of them busy, symmetry | `TypeOK`, `IsWhole`, `KeepsWhatIsUsed` |
| `duplication` | a budget of 9 objects, 2 contacts, 2 edits by others | `TypeOK`, `IsFaithful`, `FailsOnlyIfOvertaken` |
| `markups` | 2 accounts, 2 sub-accounts, 2 markups, raw values 0 and 1, one rate or none, symmetry | `TypeOK`, `FiguresTrue`, `SignalsKept`, `AsAsked` |
| `access` | 2 users, staff and a visitor, 2 budgets, one of them shared, 3 templates, symmetry | `TypeOK`, `GrantsAsPromised`, `KeepsItsBudget` |
| `sessions` | 2 users, one of them social, 3 session keys, 1 checkout, 2 requests at once, one overlap at a time, symmetry | `TypeOK`, `TokenGoesAlong`, `BillingTrue`, `PaidIsLinked`, `StaysOut` |

* `Settled`: when no routine runs, each stored figure is what an estimation of
  that row would store. Violating it takes an edit and a routine of several
  passes that misses a row somewhere on the way.
* `RoutineInv`: the inductive invariant of section 4, checked before it was proved.
* `KeepsPromise`: `Ledger!Spec` under the mapping that shows accounts' and the
  budget's stored figures. `Ledger` knows neither levels nor passes: a total is a sum
  over sub-accounts without children, with their fringes. Between an edit and
  its answer the old figures are shown and no others.
* `Terminates`: the routine ends.
* `CalmSucceeds`: a request on groups undisturbed by commits is not refused, even
  though it deletes groups as it goes. `LeavesNoStray`: it leaves no group empty that
  had rows. `DoesWhatIsAsked`: the rows it names end where it asks, and no other
  row moves, whatever groups it deletes on the way.
* `CleansUp`: what overlapping requests leave behind (two that each take one of a
  group's last two rows both see the other's row and keep the group) goes
  once requests cease.
* `LandsBetween`, `HasRoom`: what the routine that finds orders promises, on every
  table that requests can produce rather than on strings picked for a test. A new
  key sorts strictly inside its bounds; both ends have room; so do two rows
  unless the first's key goes on beyond the letter where the two first differ; keys grow by one letter at most with each row.
* `RefusedForAReason`: a request undisturbed by others fails only where the keys leave
  no room, and a bulk create outlasts one conflict. `AppendsGoLast`: what is appended
  comes after all rows there were, although only the last row is locked.
  `LandsWhereAsked`: what is inserted or moved stands next to the row it was put
  after, whatever is created meanwhile.
* `OwnEditsVisible`: outside the seven situations, what a user gets of an endpoint's own
  row or list is never older than an edit of their own;
  this is what the dependencies between caches and the calls of `invalidate` are for.
  `Heals`: what is old because another user made the edit goes in the end.
* `RightUnlessRaced`: every row's actual value is what actualizing it would store,
  whatever moved, except on rows two overlapping requests had a hand in.
  `AddsUp`: without such rows the budget shows the sum of all actuals.
* `IsWhole`: an attachment has its file and a row. `KeepsWhatIsUsed`: housekeeping
  deletes nothing that a row had when it looked.
* `IsFaithful`: the copy refers to itself and to contacts that exist, holds what was
  there throughout, and nothing that never was. `FailsOnlyIfOvertaken`: it fails only if
  something was added, a row deleted, or a group or contact removed while the copying had
  read a column that names it and not fetched it, or had used the contact and not
  committed. Removing anything else, at any other moment, does no harm.
* `FiguresTrue`: after a request all stored figures are those of a fresh estimation of
  the budget, whichever receivers ran on the way. One kind of request is excepted, the
  `DELETE` of a single sub-account whose value is not zero, which leaves its account and the
  budget wrong (finding 1). A markup's rate, unit, rows or
  existence may each have changed, with the estimates before or after the change.
  `SignalsKept`: the signals are off from the start of an outermost section to its
  end and no longer, also after an error, and no row is calculated while it is being
  calculated. `AsAsked`: what a committed request was asked is so, although receivers
  delete markups and links by themselves.
* `GrantsAsPromised`: in every reachable situation, every request of everyone at every
  endpoint gets what the comments promise (`MayDo`, stated without the permissions),
  and no condition is reached before those it relies on; two endpoints are excepted by
  name (`Misbehaves`, section 5). `KeepsItsBudget`: who has no subscription has exactly
  one budget to work in, and keeps it while it exists.
* `TokenGoesAlong`: whoever the session signs in, the JWT beside it is of the same user;
  where it is not, the billing middleware fails. `BillingTrue`: what the JWT says of a
  subscription was true at some time since the last sign-in, sync or forced reload; only
  if others overlapped with that request may it be older, and then it is what one of them
  still under way carried, or what the answer itself said. `PaidIsLinked`:
  who returns from a paid checkout is linked to it. `StaysOut`: a browser that has signed
  out stays so, whatever was under way; a sign-out while sign-ins had overlapped is
  excepted.

Bounds. Three sub-accounts are what the interesting trees need: a chain of
three, a parent with two children, children of two accounts. `MaxLevel` 2 gives the
routine three passes. One fringe assigned to several rows reaches rows that
one call estimates together. Raw values 0 and 1 separate "has a value" from "has
none", which is all the guards ask; sums over 1 distinguish missing from counted
twice. The two kinds of fringe separate a contribution that depends on the value
from one that does not. A larger instance (two fringes, raw values 0 to 2,
unset and capped fringes; `MCTerms` holds these) was explored once to 1.5 million
states without a violation; it is too slow to run each time.

For `Groups`, two rows and two groups are what a move needs: a row leaves a group
that has another row, or none. `MaxBusy` 2 overlaps two requests or a request and
the sweep. One group is enough for the sweep, which treats groups alike.

Seven keys are enough for keys of three letters, for both shapes a gap can have,
and for a key that goes on beyond where it differs from the next. `OrderedTable` needs three requests at
once so that one waits for a row that a second is moving while a third creates, and
for the second conflict of a bulk create. Two edits and two users let one user's GET
overlap an edit of the other between two edits; users' caches do not touch, so
one reader is enough. The tree of `Actualize` has two sub-accounts on one level and one
below, so that a batch of two can have owners on the same or on different
levels; two requests overlap, and `MaxInHand` 2 makes them either a batch and
nothing else or two that overlap. Two names and two attachments make files
collide; the rows of `Duplication` hold one of each reference the duplicator knows,
a group in each of two tables, two contacts to change between, and two equal keys.

Two accounts and two sub-accounts give `Markups` a table at the top and one below,
so that a markup has no row, one or two and a bulk delete takes some or all of
them. Two budgets and two users are what "first created" and "someone else's" need;
sharing only one of them is a bound. In
`Sessions` a third key is there for a session replaced while two requests hold the
old one. `MCAlone` is a bound: mails, checkouts and their syncs, plain validations,
reads and changes of a password or a profile overlap with nothing; sign-ins,
sign-outs, writes and forced reloads overlap with one another; recovering a password (`recover`,
`reset`) differs from verifying and signing up by changing the password, which
`password` does, and is left out of the run for time.

Deadlock is checked in all runs but `endpoint_cache` and `order_keys`, whose bounds
on edits and keys leave nothing to do in the end. `OrderedTable`, `Actualize` and
`Duplication` say themselves when everything asked for is done (`Rest`, `Finished`). A
deadlock of the database is an action of `Groups`, and a `RollBack` elsewhere.

Fairness. `RollUp`'s `FairSpec` adds `WF_vars(Routine)`: the thread that serves a
request continues until the handler returns. That of `Groups` adds that each process
goes on with its transaction, that time passes, and that the periodic task is
started (every five minutes, `src/src/happybudget/celery.py:42`). Weak fairness is
enough, for a group found empty after the last request stays empty. `EndpointCache`
assumes that requests under way end and that what is kept expires
(`CACHE_EXPIRY`, `src/src/happybudget/conf/settings/cache.py`). `Attachments`
assumes of the task that it does not fail for ever (`AttachmentsOld.cfg` only). Nothing is
assumed of requests.

Further configurations, one for each situation, are kept beside the runs; each
violates the property its finding names: `TopLevelDelete.cfg`, `LastChildDelete.cfg`, `UncountedDelete.cfg`,
`FirstChildWithoutValue.cfg` and `MixedLevels.cfg` (of `MCRollUp`, `Settled`),
`DuplicationSameKey.cfg` (of `MCDuplication`, `NothingMoved`),
`GroupsBulkMove.cfg`, `GroupsDisjointPatch.cfg` and `GroupsPatchWithoutRows.cfg` (of
`MCGroups`), `AttachmentsOld.cfg` (of `MCAttachments`, `OrphansGo`), `TableKeysRoom.cfg` (of `TableKeys`, `AlwaysRoom`),
`ActualizeMixedLevels.cfg` (of `MCActualize`, `AddsUp`) and
`EndpointCacheSurroundings.cfg` (of `MCEndpointCache`, `SurroundingsVisible`).
With `Avoided = {}` in `Markups.cfg`, `FiguresTrue` is violated as `Settled` is by
`TopLevelDelete.cfg`. `EndpointCache` was also explored for one user with a sub-account below
the sub-account and two responses kept (1.1 million states): `OwnEditsVisible` holds.

## 4. Proofs

All sets of users, rows, keys, budgets and so on are arbitrary (also infinite, where a
proof does not say otherwise), and bounds are any numbers. What is assumed of the
constants is the `ASSUME` of each module, which TLC evaluates for the instances: names
of things are apart from one another and from `None`, and trees are trees. Where a
theorem is about requests that avoid the situations of section 2, it says so
(`Situations \subseteq Avoided`); the others hold for every `Avoided`.

### `RollUp`

Assumptions: `TreeAssumption` (keys of accounts and sub-accounts differ, the budget
is neither, 0 is a raw value), `TermsAssumption` (what a fringe record holds),
`RollUpAssumption` (`MaxLevel` is a natural number, `Avoided` a set of situations).

* `RollUpProofs!TypeCorrect`: `Spec => []TypeOK`. The job holds rows by key, so
  its type needs that these rows exist, which needs that a row's parent exists:
  `Structure` is `TypeOK` with that (`StructureCorrect`).
* `RollUpProofs!RoutineCorrect`: `Spec => []RoutineInv`, one lemma per
  action and conjunct. With it `SettledCorrect` and `BottomUpCorrect`. These assume
  `Avoided = Situations`.

Why `Settled` needs a strengthening: while a routine runs, it is false. What stays
true is `Done`: a row is either still `Pending` (something in or below it is to be
estimated) or its figures-to-be (`WillBe`: the tree's, else the stored ones) are
what an estimation from its children's figures-to-be yields. For a step to keep
it, a row being estimated must see its children as they will be saved (`Fresh`).
That needs that one pass works on one level and that rows in the tree are lower
than those to come (`PassShape`), which is where "mixed levels" is needed; that
children being deleted are not counted by an account and do not silence their
parent (`GoneShape`: "top level delete", "last child delete"); and the tree's
shape (`TreeShape`). When the routine has ended, nothing is pending, `WillBe` is
what is stored, and `Done` is `Settled`.

The sums stay closed in the proofs: nothing depends on what they add up to, only
on which children's figures enter them.

`BottomUpCorrect` (a row is not estimated while one below it waits, nor twice, the
worry of the comment at `budgeting/managers.py:339`) is proved, and
is not one of a run's properties.

### `TableKeys`

`LandsBetweenCorrect` and `HasRoomCorrect`, both from `KeysInvCorrect`: every key in the table
is a word that does not begin with the last letter and ends with neither the first
nor the last (`Keys`), so that there is room on both sides of it, and keys are spread out (`SpreadOut`). The second is needed because the
length of keys is not inductive by itself: that they stay short rests on the first
few being of one letter and far apart, at least `Gap(put)` letters from one another
and from both ends. That `Before` is a total order, and that what `Between` answers is
such a word and lies between, are lemmas for words of any length. Words are functions
on an interval; where a proof needs the first letter in which two differ, it
takes the least of a non-empty set of numbers, so no induction is needed.

### `OrderedTable`

All four properties, for any number of requests and processes, and any rows and groups
(`TableTypeCorrect`, `RefusedForAReasonCorrect`, `AppendsGoLastCorrect`, `LandsWhereAskedCorrect`); the
only assumption is `OrderedTableAssumption`. They follow from one invariant
(`TableInvCorrect`), which says of the table that its keys are among the `Keys` above
and different, and of each request by itself (`Local`):

* `Form`, `WantIs`, `PutIs`, `Holds`: the rows it names, holds and writes are there or are
  new, and the keys it writes are no other row's. That a row which has gone is not
  inserted twice is in `PutIs`: an update that holds nothing has its row to itself.
* `Appends`: while creations only have overlapped it, the rows it knew are there with
  their keys (`Same`), and it has been started over no oftener than others created rows.
  An attempt that began after the last of these sees all there is: this is why one
  retry outlasts one conflict, and why what it writes goes last in any case.
* `Places`: the same for insertions and moves, which are besides protected by their
  locks once they have them. It is here that the stale key of the previous row does
  no harm: as long as nothing was moved or deleted before the locks, it is the row's key.
* `Calm`: a request nothing has overlapped sees the table as it is.

And of every two of them, that they hold and write different rows and keys (`Apart`).
A step other than a commit changes what is said of one request (`LocalStep`); a commit
merges what was written into the table (`Merges`), and each part of `Local` is shown to
outlive another's commit (`OtherStays`). What the keys themselves do is taken from the
lemmas about `Between`, `KeyAbove` and `KeyBelow`.

The proof changed the module twice. The type invariant of an earlier version was
false beyond the bounds of its run: with four requests, two updates could both insert a
row again that a third had deleted (`Reinserts` now waits, as the database does). And an
insertion at the top, which locks one row, was excused as if it held the whole table
(`Locked`).

### `EndpointCache`

`TypeCorrect` is more than types: an edit under way always finds a free number, since
the numbers used and the edits under way together are no more than those begun
(`TypeInv`). `OwnEditsVisibleCorrect` assumes that the situations are avoided, and is about
an endpoint's own row or list. Its invariant, `OwnInv`: an edit about to commit has deleted
every key whose own row or list it changes, and no GET of that user is between computing
and storing; so nothing kept for a user is older than that user's last edit of that. That the
handlers name all of it (`changed \subseteq stale`, `EditsAre`) is proved handler by
handler; it needs that no row is above itself, the last assumption of the module. Of
`around` the run shows that it heals, and nothing is proved.

### `Attachments`

`TypeCorrect` and `KeepsWhatIsUsedCorrect` (an action property) hold in all situations.
`HandsInv` says for each process what is in its hands (`InHandOf`): it adds no link to
what it deletes, it has cut every link there is of what it has deleted, and what no user
asked to delete has only links it took or that came after it had looked.
`IsWholeCorrect` assumes that the situations are avoided, and adds that names are apart,
that what is new is in one process's hands only, and that what a process takes and
does not delete is still on a row, or in the hands of two (`CutsOf`).

### `Duplication`

Assumptions: names of kinds are apart, keys tell the rows of one table apart, and the
rows form a tree no deeper than `MaxDepth`. All three properties are proved, for any
number of edits, and with an account and a sub-account of one key or not. `Inv` is
`TypeOK` with

* `OriginalInv`: what hangs on something goes with it (`BelowIs`), so the original is
  whole at any time, and so is what was there throughout. While nothing overtakes
  the copying (`Calm`), all there is was there throughout.
* `SearchInv`: a sub-account that is there throughout is among those seen, or a row
  above it is still to be asked; when none is left, a row not seen with the fewest
  rows above it cannot be (`AllSeen`).
* `HeldInv`: while nothing overtakes the copying, what columns in hand name is there.
* `WalkInv`, `LevelInv`: a climb has counted the rows that lie between where it is
  and where it began; for a row that is there throughout, all rows above it. So such
  a row has its parent among the rows a level above, and no level is missing
  (`InitialSegment`). A row that is not has at most the level it should have, which
  leaves the account of its parent's key as the only wrong place (`ParentsAre`).
* `CopiedInv`, `PlacedInv`, `LinkedInv`: of the kinds that are done at each step
  (`Copying`, `Linking`), what was there throughout is copied, once and in its
  place, and linked; and nothing else was ever copied than what was there once.
* `FailedInv`: a look-up that fails under `Calm` contradicts these.

### `Access`

All three properties are proved for all users, budgets and templates.
`GrantsAsPromisedCorrect` is about the composition of permissions: lemmas say what
`AllOf` and `AnyOf` come to for conditions that stop and that do not, and then each
kind of endpoint has one for its view and its object. That only a request whose budget is
gone can fail in its check needs to know of the pending request what its first check
has established (`PendingInv`). `TypeCorrect` has that nobody collaborates in a budget of
his own, and `KeepsItsBudgetCorrect` (an action property) that the first budget stays the
first: both need that the order of creation is one among the budgets there are and
those that a save under way may put back (`Remembered`).

### `Sessions`

All five properties are proved. Each handler is first brought to the few things it may
do: to the rows (`RowStep`), the checkouts (`SaleStep`), and through `Answer` one of four
outcomes (`Outcome`). The invariants then are about steps of these kinds:

* `Base`: shapes, and what a request brings with it and keeps of it afterwards.
* `Pairs`, for `TokenGoesAlongCorrect` and `StaysOutCorrect`: the session of a key
  stays one of the same user (`SameUser`); a request with which nothing overlaps sees
  what is there (`CalmAlone`); while sign-ins have not overlapped, every key under
  way that still has a session is the cookie's (`Unmixed`, `OneKey`); after a sign-out
  none of them has one (`SignedOut`).
* `Customers`: who is linked to a checkout, in the table or in a row some request has
  loaded, began and paid it. `Passwords`: no more are in use than were counted, of
  those held by requests too. With these, `TypeCorrect`.
* `Statuses`, for `BillingTrueCorrect`: what a JWT says, in the cookie or under
  way, was so at a time that counts, or has been kept from before by `Carried`; an
  answer that renews it, and that nothing overlapped, says what is so now.
* `Chain`, for `PaidIsLinkedCorrect`: from the answer that begins a checkout
  (`Beginning`), over the browser that holds it (`Begun`), to the sync that is due (`Due`),
  the session remembers the checkout, its user is the one signed in, and nobody
  has linked him meanwhile.

### `Groups`

All that the runs check of it but `CleansUp` is proved, for any number of requests and
sweeps at a time: `TypeCorrect` in all situations, and each of the three action
properties with only the situations avoided that would break it: `CalmSucceedsCorrect`
assumes the "disjoint patch" away, `LeavesNoStrayCorrect` the "bulk move" and the
"single delete", `DoesWhatIsAskedCorrect` the "patch without rows".

`Inv` says of what is committed that a row points to a group there is, and of each
transaction by itself what it is in the middle of (`Sound`):

* `Shape`, always: what its kind and its point leave empty. A transaction with which
  another's commit has overlapped keeps no more than that.
* `Undisturbed`, while it is `calm`: what it has loaded is what is committed (`Loaded`), it
  writes a row once (`Once`) and where there is a group (`Aimed`), and what it takes
  for empty is empty (`Emptied`).
* `StayEmpty`: no row is put in a group it has deleted. What it is about is the
  PATCH of a group: a row that stays, or joined, must keep the group from being found
  empty while those that are to join it are still to be written.
* `OnTheirWay`: every row is where the request asks, or still on the list.
* `LookedAt`: a group that had rows and has none is on a list of groups to be
  looked at, which is empty when the transaction has finished.

A step that commits nothing changes what is said of one transaction only (`Carries`);
each action then has one lemma, with one step for each of these parts.

### `Actualize`

All three properties are proved, for any tree, any actuals and any number of requests
that overlap: `ActualsTypeCorrect` in every situation, the other two under
`Avoided = Situations`, as the run has it. Of the constants they ask that the rows and the
actuals there may be are finitely many, that no row is above itself, and that accounts
have different keys, and sub-accounts too.

`ActualsInv` says of the database that a row not raced has what it is due, and of
each request by itself (`Local`):

* `Climbing`: where the routine has come. What is left is on higher tiers than what was
  seen and all of it is above something given; here "mixed levels" is needed.
* `HandsOver`: what stands for a row in a pass is what will be stored for it. The
  children that do not are as they were; here "same key" is needed.
* `Knows`: an object in hand has the figure of the database, or its row is overlooked.
* `Right`: rows actualized have what they are due from figures as they will be
  stored (`DueIn`); the figures below any other row, and, if it was not given, the actuals
  that count for it, are as they were. Rows overlooked are excepted throughout.

A step of one worker changes what is said of it alone (`StepKeeps`); what a commit changes
for the others lies on the rows it touches (`Concerns`, `OtherLocal`), of which they
are notified. In all this a sum is the same if what is summed up is the same, and no more
is said of it. For `AddsUpCorrect` more is: `Gathered` reckons from below,
by induction on the tier, that a row right throughout shows the sum of the actuals of all rows
below it. Its lemmas (`SumApart`, `SumUnion`, `SumOfSums`) are proved by induction over
a set of numbers, `NatSetInduction`, in place of the library's induction theorems.

### Only model-checked

* Liveness: `Terminates`, `CleansUp`, `Heals`, and `OrphansGo`.
* `KeepsPromise`: that nested sums equal the sum over the bottom of the tree is an
  induction over the tree with sums over sets, which the installed provers do not do.
* All of `Markups`: its figures are those of a recursive estimation. It is not known to be
  out of reach.

## 5. Findings

1 to 5 violate `Settled`, and 1 violates `FiguresTrue` as well.

1. **Top level delete.** `DELETE` of a sub-account directly under an account:
   the account is estimated without it and saved; the save's receiver
   (`account/signals.py:16`) calculates the account again from all children in
   the database. `src/tests/subaccount/test_signals.py:9` tries a nested row only.
2. **Last child delete.** Deleting the last child of a row with its own rate and
   quantity: `nominal_value` (`subaccount/models.py:147`) counts the row that is
   about to go, so the ancestors never learn that the parent counts for itself.
3. **Uncounted delete.** `bulk_delete` asks deleted objects whether they mattered
   (`subaccount/managers.py:85`).
4. **First child without value.** A create that gives no value starts no
   estimation (`subaccount/models.py:163`), though its parent stops counting for itself.
5. **Mixed levels.** A fringe of rows on several levels: the recursion hands on
   the altered rows of the last level of a pass only (`subaccount/managers.py:202`).
6. **Patch without rows** (`DoesWhatIsAsked`). `PATCH /groups/<pk>/` with a colour
   only: `children` defaults to `[]` (`group/serializers.py:71`), every row leaves and
   the group is deleted, with answer 200. `src/tests/group/test_color_api.py:9` tries
   an empty group only.
7. **Disjoint patch** (`CalmSucceeds`). A `PATCH` that replaces all rows of a group
   empties it first (`group/serializers.py:76`), which deletes it, and fails on the
   foreign key when it commits.
8. **Bulk move** (`LeavesNoStray`). `bulk_save` looks for empty groups among the new
   groups of the rows (`subaccount/managers.py:144`, `account/managers.py:52`).
9. **Old orphans** (`OrphansGo`). The task that removes stale attachments asks for those
   created in the last five minutes (`created_at__gt`, `io/tasks.py:43`); an orphan that
   outlives them stays for ever.
10. **Actuals on mixed levels** (`AddsUp`, `ActualizeMixedLevels.cfg`). A bulk request about
    actuals whose owners are on different levels stores rows above both with the
    figure of the first climb (`budgeting/managers.py:279`).
11. **No room** (`AlwaysRoom`, `TableKeysRoom.cfg`). Between a row's key and the next, where
    the first goes on beyond the letter in which they first differ, the routine may find
    no key; the insertion is refused, against the docstring at `tabling/utils.py:243`.
12. **Replaced rows of a markup** (`AsAsked`). A `PATCH` of a percent markup with rows none of
    which it has removes the old ones first; the receiver deletes the empty markup
    (`markup/signals.py:139-151`) and the commit fails on the foreign key, as with groups.
13. **Markup without rows** (`AsAsked`). Deleting its last row takes a percent markup's link
    away without a signal; it stays, and its rate cannot be changed by itself any more.
14. **Silenced deletes** (`SignalsKept`). `model_is_deleting(..., disable_signals=True)` fails when
    entered (`model.py:98`), against its docstring; nothing calls it so.
15. **Collaborators' endpoints** (`GrantsAsPromised`). They ask about ownership before they ask
    whether one is signed in (`collaborator/views.py:15`): a visitor's request is an
    error of the server.
16. **Duplicating a template** (`GrantsAsPromised`) counts for the limit on budgets, although the
    condition says it is for budgets only (`budget/views.py:454`).
17. **JWT that ran out first** (`TokenGoesAlong`). The next request of a Stripe customer fails
    (`user/models.py:211`), and the JWT that `authentication/middleware.py:182` means to
    renew is not set.
18. **Lost checkout** (`PaidIsLinked`). A sync whose session does not hold the checkout is
    refused (`billing/serializers.py:41`), right below a comment that says it must not be.
19. **Copy in another place** (`NothingMoved`). An ancestor deleted during the climb gives
    a nested row level 0, and its parent is looked up among the accounts
    (`budget/duplication/duplicator.py:235`): the request succeeds if an account has that key.
20. **Rows mentioned elsewhere** (`SurroundingsVisible`). The detail of a row lists its table and
    the rows above (`account/serializers.py:71-72`, `subaccount/serializers.py:152-153`);
    an edit invalidates neither the details of the siblings nor those of the rows below.

Met on the way, without a property of their own:

* Groups: the `DELETE` of a group's last row leaves the group to the sweep, and
  between counting a group's rows and collecting them another request may fill it,
  whose row then loses its group again.
* Orders: of two concurrent appends the second is refused by the unique
  constraint, against the comment at `tabling/serializers.py:85-93`; `previous: null`
  into an empty table raises an `AttributeError` (`tabling/serializers.py:73`); an insertion
  after the last row of a group is refused when the row shown next has a smaller
  key; a plain `PATCH` writes back the order it loaded, and creates a row again that
  was deleted meanwhile; an append that waited while the last row was moved up
  lands in the middle.
* Cached responses: only the keys of the user who made the edit are deleted
  (`cache.py:515`); and the seven situations of `EndpointCache` (section 2).
* Markups: `BulkDeleteAction` is declared with a `filter_qs` (`account/views.py:162`) that
  `bulk_delete_action` never reads, so a bulk delete takes markups of any table.
* Access: the limit on budgets is checked before and not at the creation, so two requests
  create two; a save that overlaps a delete inserts the row again, and
  `is_first_created` then asserts (`budget/models.py:154`); the comment of
  `authentication/models.py:34` speaks of one token per user, the constraint of one
  per object.
* Sessions: a login of a user without password answers None (`authentication/backends.py:73`)
  and fails in the serializer, against the docstring above it; an API exception after
  a write commits the write, for the exception handler marks no rollback
  (a registration whose mail fails leaves its user); changing one's password ends
  one's session; a `PATCH` of a user saves the whole row as loaded; a write that left with
  a JWT "active" and is answered after an overlapping reload that said "expired" puts
  "active" back until Stripe is asked again (`authentication/middleware.py:84`, `:195-212`).
* Actuals: `DELETE` of a markup deletes actuals that were given to another owner
  meanwhile; a `PATCH` creates a deleted actual again; `Markup.actual`
  (`markup/models.py:66`) raises for an actual without a value.
* Attachments: the file goes before the commit, so a failing delete leaves a row
  without a file; an attachment may be added to a row after it was found empty and
  before it is deleted; two overlapping removals leave an orphan.
* Duplication: an ancestor deleted during the climb, an object added between two
  queries, or a group or contact removed between the load of a row and the making
  of its copy (`budget/duplication/utils.py:35`) makes the request fail; the log message of
  `associate_groups` uses a variable of another loop (`budget/duplication/duplicator.py:355`).

## 6. What is not modelled, and the plan
Not modelled, or in part:

* Bank import: requests to a service outside, and the conversion of its records; the
  actuals it creates are those of `Actualize`'s bulk creation.
* Contacts, tags, overtime, PDF settings: stored and listed. Their order is that of
  `OrderedTable`, their owners' rights are the conditions of `Access`.
* Serializers and views beyond the order of their checks: parsing and formatting.
* Markups together with deeper trees and fringes: `RollUp` and `Markups` share the routine,
  and both at once are beyond TLC.
* `reorder()` of `tabling/`, which only a management command calls.
* Endpoints of `Access` other than those of budgets, templates, rows, collaborators and
  tokens: they compose the same conditions.

Next would be the proof of the part of `SignalsKept` (`Markups`) about receivers.
