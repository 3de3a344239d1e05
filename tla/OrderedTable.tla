----------------------------- MODULE OrderedTable -----------------------------
(***************************************************************************)
(* Requests that put rows into one table, or move or delete them, each a   *)
(* transaction at READ COMMITTED (tabling/serializers.py and managers.py). *)
(* A request looks which rows there are, locks those it will reckon with,  *)
(* waiting for others that hold them, works out keys from what the rows    *)
(* hold by then, writes, and commits.  The keys of a table are unique in   *)
(* the database: a write waits for another transaction that has written or *)
(* freed the same key, and is refused when the key is taken.               *)
(***************************************************************************)
EXTENDS LexOrder, FiniteSets, Functions

CONSTANTS
    Process,        \* workers that serve requests
    None,           \* no row
    Kinds,          \* the kinds of request that arrive
    MaxInitial,     \* bound: rows the table has at first
    MaxRequests,    \* bound: requests ever made
    MaxBusy,        \* bound: requests under way at a time
    BulkSize        \* bound: rows of one bulk create

AllKinds == {"append", "insert", "move", "bulk", "update", "delete"}

ASSUME OrderedTableAssumption ==
    /\ None \notin Nat
    /\ Kinds \subseteq AllKinds
    /\ {MaxInitial, MaxRequests, MaxBusy} \subseteq Nat
    /\ BulkSize \in Nat \ {0}

VARIABLES
    order,      \* committed: the key of each row
    grouped,    \* the rows that belong to the one group there is
    lastPk,     \* the number of the row created last, committed or not
    made,       \* requests made so far
    tx          \* what each process is in the middle of

vars == <<order, grouped, lastPk, made, tx>>

Live == DOMAIN order
NoRows == [r \in {} |-> Inconsistent]

(* The rows in the order of their keys, and as order_with_groups shows them: *)
(* those of the group first.                                                 *)
Smaller(r, s) == Before(order[r], order[s])
Shown(r, s) ==
    \/ r \in grouped /\ s \notin grouped
    \/ (r \in grouped <=> s \in grouped) /\ Smaller(r, s)

(* The rows as a query returns them: for each, those that come before it. *)
Display == [r \in Live |-> {s \in Live : Shown(s, r)}]
Descending == [r \in Live |-> {s \in Live : Smaller(r, s)}]

(* kind, row, prev   the request                                           *)
(* at                what comes next                                       *)
(* old               the rows there were when it began, and their keys     *)
(* seen              the rows of its locking query that have not gone      *)
(*                   since, each with those returned before it; at first   *)
(*                   the rows as order_with_groups arranged them           *)
(* held              the rows it has locked                                *)
(* want              the keys of the rows it is going to write             *)
(* put               what it wrote, not committed; Inconsistent: deleted   *)
(* attempt           how often a bulk create was started over              *)
(* created, moved    how many commits overlapped it that created rows, and *)
(*                   whether any did that moved or deleted rows (before    *)
(*                   it had its locks, for one that locks the whole table) *)
(* calm              no commit overlapped it                               *)
Idle == [kind |-> "idle", row |-> None, prev |-> None, at |-> "look",
         old |-> NoRows, seen |-> NoRows, held |-> {}, want |-> <<>>,
         put |-> NoRows, attempt |-> 0, created |-> 0, moved |-> FALSE,
         calm |-> TRUE]

Init ==
    /\ \E n \in 0..MaxInitial :
          /\ order = OrderFromNone(n)
          /\ lastPk = n
          /\ grouped \in SUBSET (1..n)
    /\ made = 0
    /\ tx = [p \in Process |-> Idle]

Busy(p) == tx[p].kind # "idle"

(* A request arrives.  A row named as the previous one, and the row to be  *)
(* moved, are looked up in the table; no row is its own previous one.      *)
Begin(p) ==
    /\ ~ Busy(p) /\ made < MaxRequests
    /\ Cardinality({q \in Process : Busy(q)}) < MaxBusy
    /\ \E kind \in Kinds :
       \E row \in IF kind \in {"move", "update", "delete"} THEN Live ELSE {None} :
       \E prev \in IF kind \in {"insert", "move"} THEN Live \cup {None} ELSE {None} :
          /\ kind = "move" => prev # row
          /\ tx' = [tx EXCEPT ![p] =
                [Idle EXCEPT !.kind = kind, !.row = row, !.prev = prev,
                             !.old = order, !.seen = Display]]
    /\ made' = made + 1
    /\ UNCHANGED <<order, grouped, lastPk>>

Step(p, t) == tx' = [tx EXCEPT ![p] = t]

(* The rows in the order in which they were arranged before, and those that *)
(* have come since after them, in no order of their own.                    *)
Rearranged(seen) ==
    [r \in Live |-> IF r \in DOMAIN seen THEN seen[r] ELSE DOMAIN seen]

(* The locking query starts: it sees what is committed now. *)
Look(p) ==
    /\ Busy(p) /\ tx[p].at = "look"
    /\ Step(p, [tx[p] EXCEPT !.at = "lock",
                             !.seen = CASE tx[p].kind \in {"append", "bulk"} -> Descending
                                        [] tx[p].kind \in {"insert", "move"} -> Rearranged(@)
                                        [] OTHER -> [r \in Live \cap {tx[p].row} |-> {}]])
    /\ UNCHANGED <<order, grouped, lastPk, made>>

(* The row that comes next after the previous one, or first. *)
After(t) == {r \in DOMAIN t.seen : t.prev # None => t.prev \in t.seen[r]}

Nexts(t) ==
    IF After(t) = {} THEN {None} ELSE {r \in After(t) : t.seen[r] \cap After(t) = {}}

(* The rows of the whole table are locked, except that an insertion at the *)
(* top locks the first one only, and latest() the last.                    *)
FirstOnly(t, next) == {next} \ {None}

LocksAll(t) == t.kind = "move" \/ (t.kind = "insert" /\ t.prev # None)

ToLock(t, next) == IF LocksAll(t) THEN DOMAIN t.seen ELSE FirstOnly(t, next)

NeverLocked(p, r) == FALSE

LockedByOther(p, r) ==
    \E q \in Process \ {p} : r \in tx[q].held \cup DOMAIN tx[q].put

(* get_instance_bounds and get_relative_order: the key between the previous *)
(* row, as it was looked up, and the next, or why there is none.            *)
KeyAfter(t, next) ==
    IF t.prev = None
    THEN IF next = None THEN Inconsistent ELSE KeyBelow(order[next])
    ELSE IF next = None THEN KeyAbove(t.old[t.prev])
    ELSE Between(t.old[t.prev], order[next])

(* The keys a request is going to write, as many as it has rows. *)
Wanted(t, next) ==
    LET n == IF t.kind = "bulk" THEN BulkSize ELSE 1
    IN  CASE t.kind \in {"append", "bulk"} ->
               IF next = None THEN OrderFromNone(n) ELSE OrderAfter(n, order[next])
          [] t.kind \in {"insert", "move"} ->
               IF ~ ({t.row, t.prev} \ {None} \subseteq DOMAIN t.seen) THEN <<Inconsistent>>
               ELSE IF t.kind = "move" /\ t.row = next THEN <<t.old[t.row]>>
               ELSE <<KeyAfter(t, next)>>
          [] t.kind = "update" -> <<t.old[t.row]>>
          [] t.kind = "delete" -> <<>>

Lock(p) ==
    /\ Busy(p) /\ tx[p].at = "lock"
    /\ \E next \in Nexts(tx[p]) :
          /\ \A r \in ToLock(tx[p], next) : ~ LockedByOther(p, r)
          /\ Step(p, [tx[p] EXCEPT !.at = "write",
                                   !.held = @ \cup ToLock(tx[p], next),
                                   !.want = Wanted(tx[p], next)])
    /\ UNCHANGED <<order, grouped, lastPk, made>>

(* If the row to be updated has gone, the save inserts it again. *)
Reinserts(t) == t.kind = "update" /\ t.row \notin t.held

(* The keys other transactions have written, and those they set free. *)
KeysInFlight(p) ==
    UNION { Range(tx[q].put) \cup {order[r] : r \in DOMAIN tx[q].put \cap Live} :
            q \in Process \ {p} }

(* Nobody else is writing what it writes. *)
Undisputed(p) ==
    /\ tx[p].at = "write" /\ Inconsistent \notin Range(tx[p].want)
    /\ Range(tx[p].want) \cap KeysInFlight(p) = {}
    /\ Reinserts(tx[p]) => ~ LockedByOther(p, tx[p].row)

Taken(p) ==
    \/ \E r \in Live \ {tx[p].row} : order[r] \in Range(tx[p].want)
    \/ (Reinserts(tx[p]) /\ tx[p].row \in Live)

Creates(t) == t.kind \in {"append", "insert", "bulk"}

(* The rows are written: new ones under numbers of their own.  An update   *)
(* writes every column, the key it had loaded included.                    *)
Write(p) ==
    LET t == tx[p]
    IN  /\ Undisputed(p) /\ ~ Taken(p)
        /\ Step(p, [t EXCEPT !.at = "commit",
                !.put = IF t.kind = "delete" THEN [r \in t.held |-> Inconsistent]
                        ELSE IF Creates(t)
                        THEN [r \in lastPk + 1 .. lastPk + Len(t.want) |-> t.want[r - lastPk]]
                        ELSE [r \in {t.row} |-> t.want[1]]])
        /\ lastPk' = IF Creates(t) THEN lastPk + Len(t.want) ELSE lastPk
        /\ UNCHANGED <<order, grouped, made>>

(* A bulk create whose keys were taken looks once more. *)
NoRecursions == 0
MaxUniqueConstraintRecursions == 1

Conflict(p) == Undisputed(p) /\ Taken(p)

Retry(p) ==
    /\ Conflict(p) /\ tx[p].kind = "bulk"
    /\ tx[p].attempt < MaxUniqueConstraintRecursions
    /\ Step(p, [tx[p] EXCEPT !.at = "look", !.attempt = @ + 1])
    /\ UNCHANGED <<order, grouped, lastPk, made>>

(* There is no key, or another row has it: the transaction is rolled back. *)
Refuse(p) ==
    /\ \/ tx[p].at = "write" /\ Inconsistent \in Range(tx[p].want)
       \/ /\ Conflict(p)
          /\ tx[p].kind = "bulk" => tx[p].attempt >= MaxUniqueConstraintRecursions
    /\ Step(p, Idle)
    /\ UNCHANGED <<order, grouped, lastPk, made>>

Removed(t) == {r \in DOMAIN t.put : t.put[r] = Inconsistent}

(* What those still under way have been overlapped by.  The locks of one   *)
(* that locks the whole table keep others from moving the rows it looks at. *)
Locked(u) == LocksAll(u) /\ u.at \in {"write", "commit"}

Overlapped(u, t) ==
    IF u.kind = "idle" THEN u
    ELSE [u EXCEPT !.calm = FALSE,
                   !.seen = IF u.at = "look" THEN @
                            ELSE [r \in DOMAIN @ \ Removed(t) |-> @[r]],
                   !.created = IF Creates(t) THEN @ + 1 ELSE @,
                   !.moved = @ \/ ~ (Creates(t) \/ Locked(u))]

Commit(p) ==
    LET t == tx[p]
    IN  /\ t.at = "commit"
        /\ order' = [r \in (Live \cup DOMAIN t.put) \ Removed(t) |->
                        IF r \in DOMAIN t.put THEN t.put[r] ELSE order[r]]
        /\ tx' = [q \in Process |-> IF q = p THEN Idle ELSE Overlapped(tx[q], t)]
        /\ UNCHANGED <<grouped, lastPk, made>>

(* Everything asked for is done: not a deadlock. *)
Rest == made = MaxRequests /\ (\A p \in Process : ~ Busy(p)) /\ UNCHANGED vars

Next == Rest \/
    \E p \in Process :
        \/ Begin(p) \/ Look(p) \/ Lock(p)
        \/ Write(p) \/ Retry(p) \/ Refuse(p) \/ Commit(p)

Spec == Init /\ [][Next]_vars

-------------------------------------------------------------------------------
(* The rows have keys, all different; no two transactions hold or write the *)
(* same row.                                                                *)
TypeOK ==
    /\ lastPk \in Nat /\ made \in 0..MaxRequests /\ Live \cup grouped \subseteq 1..lastPk
    /\ \A r, s \in Live : order[r] = order[s] => r = s
    /\ \A p \in Process : \A q \in Process \ {p} :
          (tx[p].held \cup DOMAIN tx[p].put) \cap (tx[q].held \cup DOMAIN tx[q].put) = {}

ShownByKey == \A r, s \in Live : Shown(r, s) <=> Smaller(r, s)

(* There is no key for a row that is to go to the top of an empty table, or *)
(* between two rows if the key of the first goes on beyond the letter where *)
(* the two first differ (how the keys there are used up is TableKeys'       *)
(* subject).  serializers.py:59-80.                                         *)
NoRoom(t) ==
    /\ t.kind \in {"insert", "move"}
    /\ IF t.prev = None THEN Live = {}
       ELSE \E s \in Live :
               /\ Smaller(t.prev, s)
               /\ \A r \in Live : ~ (Smaller(t.prev, r) /\ Smaller(r, s))
               /\ Len(order[t.prev]) > Differing(order[t.prev], order[s])

(* A request during which nothing else is committed is refused only for     *)
(* lack of room, as long as rows are shown by key; and a bulk create only   *)
(* if two requests that create rows committed while it was under way: one   *)
(* retry is enough for one conflict.  managers.py:13-19, 166-179.           *)
RefusedForAReason ==
    [][\A p \in Process :
          Refuse(p) =>
             /\ tx[p].calm /\ ShownByKey => NoRoom(tx[p])
             /\ tx[p].kind = "bulk" => tx[p].created > 1 \/ tx[p].moved]_vars

(* What is appended comes after every row there was when the request began, *)
(* in the order in which the rows were given, whatever else was created     *)
(* meanwhile.  serializers.py:104-113, managers.py:73-100, 149-163.         *)
AppendsGoLast ==
    [][\A p \in Process :
          Commit(p) /\ tx[p].kind \in {"append", "bulk"} /\ ~ tx[p].moved =>
             \A r \in DOMAIN tx[p].put :
                /\ \A s \in DOMAIN tx[p].old : Before(order[s], tx[p].put[r])
                /\ \A s \in DOMAIN tx[p].put :
                      s < r => Before(tx[p].put[s], tx[p].put[r])]_vars

(* A row inserted or moved stands right after the one it was put after, or *)
(* at the top, apart from rows created since the request began, as long as *)
(* no row was moved or deleted before it had locked the whole table.       *)
(* serializers.py:59-80, 115-146.                                          *)
LandsWhereAsked ==
    [][\A p \in Process :
          LET t == tx[p]
          IN  /\ Commit(p) /\ t.kind \in {"insert", "move"} /\ ~ t.moved /\ ShownByKey
              => /\ t.prev \in Live \cup {None}
                 /\ \A r \in DOMAIN t.put : \A s \in DOMAIN t.old \ {r} :
                       Before(t.put[r], order[s])
                       <=> s # t.prev /\ (t.prev # None => Smaller(t.prev, s))]_vars
===============================================================================
