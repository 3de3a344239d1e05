---------------------------- MODULE Attachments ----------------------------
(***************************************************************************)
(* Attachments of contacts, actuals and sub-accounts, their files, and the *)
(* housekeeping that removes an attachment nothing has any more: at once,  *)
(* by the request that takes it from its last row, or later, by a periodic *)
(* task.                                                                   *)
(*                                                                         *)
(* Rows of the database change when a request commits; files are written   *)
(* to the storage and removed from it straight away.  Requests overlap.    *)
(***************************************************************************)
EXTENDS Naturals, FiniteSets

CONSTANTS
  Row,        \* contacts, actuals and sub-accounts of one owner
  Attachment, \* the attachments there may be
  Name,       \* names of files in the storage
  None, Absent,
  Worker,     \* processes that serve requests
  Celery,     \* the process that runs the periodic task
  Avoided,    \* INPUT BOUND: the situations that requests avoid
  MaxBusy     \* BOUND: requests and tasks under way at once

VARIABLES
  rows,   \* the rows there are
  name,   \* the file's name of each Attachment row, Absent if there is none
  links,  \* the through tables: which row has which attachment
  young,  \* attachments created in the last five minutes
  file,   \* whose content is stored under each name
  tx,     \* what each process is doing
  raced,  \* ghost: attachments two overlapping requests took from rows
  lost    \* ghost: attachments whose file went with a request that failed

vars == <<rows, name, links, young, file, tx, raced, lost>>

Situations == {"row deleted", "same name"}

ASSUME AttachmentsAssumption ==
  /\ Avoided \subseteq Situations
  /\ Celery \notin Worker /\ Absent \notin Name /\ None \notin Attachment

Avoids(situation, holds) == situation \in Avoided => ~holds

-----------------------------------------------------------------------------
(* What a process has done and not committed.                              *)
(*   new      attachments it has created, with their files' names          *)
(*   add, cut links it has added and removed                               *)
(*   taken    those of cut the user took from the row                      *)
(*   gone     rows it has deleted                                          *)
(*   doomed   attachments it is about to delete                            *)
(*   dropped  attachments it has deleted                                   *)
(*   asked    those a user asked to delete                                 *)
(*   late     ghost: links others committed since it looked                *)
Resting == [stage |-> "rest", new |-> [x \in {} |-> None], add |-> {}, cut |-> {},
            taken |-> {}, gone |-> {}, doomed |-> {}, dropped |-> {}, asked |-> {}, late |-> {}]

Process == Worker \cup {Celery}
Stored == {x \in Attachment : name[x] # Absent}
Taken(t) == {l[2] : l \in t.taken}

Starting(w) ==
  /\ tx[w] = Resting
  /\ Cardinality({v \in Process : tx[v] # Resting}) < MaxBusy

(* Primary keys are not used twice: a new row or attachment is none that a *)
(* process still has in hand.                                              *)
Known(t) == t.gone \cup t.doomed \cup DOMAIN t.new
            \cup UNION {{l[1], l[2]} : l \in t.add \cup t.cut}
Fresh(k) == \A v \in Process : k \notin Known(tx[v])

(* The links a process sees: what is committed, and its own changes.       *)
LinksSeen(t) == (links \ t.cut) \cup t.add

(* Mistaken: only the row the attachment was taken from is looked at.      *)
NotOfThisRow(t) ==
  {x \in Taken(t) \cap Stored :
     \A l \in LinksSeen(t) : l[2] = x => l[1] \notin {k[1] : k \in t.cut}}

(* Mistaken: looked for before the links are removed (pre_remove).         *)
EmptyBefore(t) == {x \in Taken(t) \cap Stored : \A l \in links : l[2] # x}

(* is_empty, of each attachment taken from the row.                        *)
Empty(t) == {x \in Taken(t) \cap Stored : \A l \in LinksSeen(t) : l[2] # x}

-----------------------------------------------------------------------------
(* POST .../attachments/: the files are saved and the attachments created, *)
(* then they are added to the row.                                         *)
Upload(w, r, x, n) ==
  /\ Starting(w) /\ r \in rows /\ x \notin Stored /\ Fresh(x)
  /\ Avoids("same name", \/ \E y \in Stored : name[y] = n
                         \/ \E v \in Worker : \E y \in DOMAIN tx[v].new :
                              tx[v].new[y] = n)
  /\ file' = [file EXCEPT ![n] = x]
  /\ tx' = [tx EXCEPT ![w].stage = "ready", ![w].new = [y \in {x} |-> n],
                      ![w].add = {<<r, x>>}]
  /\ UNCHANGED <<rows, name, links, young, raced, lost>>

(* PATCH of a row's attachments: some are taken from it, others added.     *)
SetAttachments(w, r, S) ==
  LET has == {x \in Attachment : <<r, x>> \in links} IN
  /\ Starting(w) /\ r \in rows /\ S \subseteq Stored /\ S # has
  /\ tx' = [tx EXCEPT ![w].stage = IF has \subseteq S THEN "ready" ELSE "look",
                      ![w].cut = {r} \X (has \ S),
                      ![w].taken = {r} \X (has \ S), ![w].add = {r} \X (S \ has)]
  /\ UNCHANGED <<rows, name, links, young, file, raced, lost>>

(* post_remove: attachments nothing has any more are to be deleted.        *)
AttachmentsChanged(w) ==
  /\ tx[w].stage = "look"
  /\ tx' = [tx EXCEPT ![w].stage = "drop", ![w].doomed = Empty(tx[w])]
  /\ UNCHANGED <<rows, name, links, young, file, raced, lost>>

(* DELETE .../attachments/<pk>/ of an attachment the row has.              *)
DeleteAttachment(w, r, x) ==
  /\ Starting(w) /\ <<r, x>> \in links
  /\ tx' = [tx EXCEPT ![w].stage = "drop", ![w].doomed = {x}, ![w].asked = {x}]
  /\ UNCHANGED <<rows, name, links, young, file, raced, lost>>

(* Deleting a row takes its links with it; nobody looks what they led to.  *)
DeleteRow(w, r) ==
  /\ Starting(w) /\ r \in rows
  /\ Avoids("row deleted", \E l \in links : l[1] = r)
  /\ tx' = [tx EXCEPT ![w].stage = "ready", ![w].gone = {r},
                      ![w].cut = {l \in links : l[1] = r}]
  /\ UNCHANGED <<rows, name, links, young, file, raced, lost>>

(* Any process creates rows.                                               *)
CreateRow(w, r) ==
  /\ Starting(w) /\ r \notin rows /\ Fresh(r)
  /\ rows' = rows \cup {r}
  /\ UNCHANGED <<name, links, young, file, tx, raced, lost>>

(* What the task finds: created_at__gt=now - 5 minutes.                    *)
Lingering == {x \in Stored \cap young : \A l \in links : l[2] # x}

FindEmptyAttachments ==
  /\ Starting(Celery) /\ Lingering # {}
  /\ tx' = [tx EXCEPT ![Celery].stage = "drop", ![Celery].doomed = Lingering]
  /\ UNCHANGED <<rows, name, links, young, file, raced, lost>>

-----------------------------------------------------------------------------
(* Someone else has deleted the attachment and not committed: a DELETE of  *)
(* the same row waits.                                                     *)
Locked(w, S) == \E v \in Process \ {w} : tx[v].dropped \cap S # {}

(* attachment_deleted: what is deleted loses its file.                     *)
FilesOf(t) == {name[x] : x \in t.doomed \cap Stored}

(* The delete: the links go first, whoever has added them, then the row,   *)
(* then, before anything is committed, the file.                           *)
Drop(w) ==
  LET t == tx[w] IN
  /\ t.stage = "drop" /\ ~Locked(w, t.doomed)
  /\ tx' = [tx EXCEPT
       ![w].stage = "ready", ![w].dropped = t.doomed \cap Stored,
       ![w].cut = @ \cup {l \in links : l[2] \in t.doomed}]
  /\ file' = [n \in Name |-> IF n \in FilesOf(t) THEN None ELSE file[n]]
  /\ UNCHANGED <<rows, name, links, young, raced, lost>>

(* A link needs its row and its attachment.                                *)
Sound(t) == \A l \in t.add : /\ l[1] \in rows
                             /\ l[2] \in Stored \cup DOMAIN t.new

(* Mistaken: foreign keys are not checked.                                 *)
Unchecked(w) == TRUE

(* The foreign keys are checked at the end, and the check waits for those  *)
(* who have deleted what a link needs.                                     *)
Checked(w) ==
  /\ Sound(tx[w])
  /\ \A v \in Process \ {w}, l \in tx[w].add :
       l[1] \notin tx[v].gone /\ l[2] \notin tx[v].dropped

Commit(w) ==
  LET t == tx[w] IN
  /\ t.stage = "ready" /\ Checked(w)
  /\ rows' = rows \ t.gone
  /\ name' = [x \in Attachment |-> IF x \in DOMAIN t.new THEN t.new[x]
                                   ELSE IF x \in t.dropped THEN Absent ELSE name[x]]
  /\ links' = LinksSeen(t)
  /\ young' = (young \cup DOMAIN t.new) \ t.dropped
  /\ raced' = (raced \cup {x \in Taken(t) : \E v \in Process \ {w} : x \in Taken(tx[v])})
              \ t.dropped
  /\ lost' = lost \ t.dropped
  /\ tx' = [v \in Process |->
       IF v = w THEN Resting
       ELSE IF tx[v].stage \in {"drop", "ready"}
       THEN [tx[v] EXCEPT !.late = @ \cup t.add] ELSE tx[v]]
  /\ UNCHANGED file

(* A request that fails, or a process that dies: the files it has removed  *)
(* stay removed, and those it has saved stay.                              *)
RollBack(w) ==
  /\ tx[w] # Resting
  /\ tx' = [tx EXCEPT ![w] = Resting]
  /\ lost' = lost \cup (tx[w].dropped \cap Stored)
  /\ UNCHANGED <<rows, name, links, young, file, raced>>

(* Five minutes pass.                                                      *)
Age(x) ==
  /\ x \in young /\ young' = young \ {x}
  /\ UNCHANGED <<rows, name, links, file, tx, raced, lost>>

-----------------------------------------------------------------------------
Init ==
  /\ rows = Row
  /\ name = [x \in Attachment |-> Absent]
  /\ links = {} /\ young = {}
  /\ file = [n \in Name |-> None]
  /\ tx = [w \in Process |-> Resting]
  /\ raced = {} /\ lost = {}

Request(w) ==
  \/ \E r \in Row : CreateRow(w, r) \/ DeleteRow(w, r)
  \/ \E r \in Row, x \in Attachment :
       DeleteAttachment(w, r, x) \/ \E n \in Name : Upload(w, r, x, n)
  \/ \E r \in Row, S \in SUBSET Attachment : SetAttachments(w, r, S)

Progress(w) == AttachmentsChanged(w) \/ Drop(w) \/ Commit(w)

Next ==
  \/ \E w \in Worker : Request(w)
  \/ \E w \in Process : Progress(w) \/ RollBack(w)
  \/ FindEmptyAttachments
  \/ \E x \in Attachment : Age(x)

Spec == Init /\ [][Next]_vars

(* Requests and tasks run to their end, the task is run again and again,   *)
(* and a task that keeps being run does not always fail.                   *)
FairSpec ==
  /\ Spec
  /\ \A w \in Process : WF_vars(Progress(w)) /\ SF_vars(Commit(w))
  /\ SF_vars(FindEmptyAttachments)

-----------------------------------------------------------------------------
(* Every variable has its shape, and a link's row and attachment exist,    *)
(* however deletes and assignments overlap.                                *)
TypeOK ==
  /\ rows \subseteq Row
  /\ name \in [Attachment -> Name \cup {Absent}]
  /\ links \subseteq rows \X Stored
  /\ young \subseteq Stored
  /\ file \in [Name -> Attachment \cup {None}]
  /\ raced \cup lost \subseteq Attachment
  /\ \A w \in Process : tx[w].stage \in {"rest", "look", "drop", "ready"}

(* Every attachment has its own file in the storage, unless a request is   *)
(* about to commit its delete, or removed the file and then failed.        *)
FilesKept ==
  \A x \in Stored \ lost :
    (\A w \in Process : x \notin tx[w].dropped) => file[name[x]] = x

(* Every attachment belongs to a row, unless two overlapping requests have *)
(* each taken it from one, when neither saw that it was the last.          *)
NoOrphan == \A x \in Stored \ raced : \E l \in links : l[2] = x

(* Neither a file nor a row is missing where there should be one.           *)
IsWhole == FilesKept /\ NoOrphan

(* Housekeeping takes nothing that is in use: what a commit deletes no row *)
(* has by then, save those that got it after the process had looked.       *)
KeepsWhatIsUsed ==
  [][\A w \in Process : tx'[w] = Resting /\ tx[w].stage = "ready" =>
       {l \in links \ links' : l[2] \in tx[w].dropped \ tx[w].asked}
         \subseteq tx[w].taken \cup tx[w].late]_vars

(* "Removes any stale Attachment(s) that are still lingering in the        *)
(* database": one that no row has is removed in the end, or had again.     *)
OrphansGo ==
  \A x \in Attachment :
    (x \in Stored /\ \A l \in links : l[2] # x)
      ~> (x \notin Stored \/ \E l \in links : l[2] = x)
=============================================================================
