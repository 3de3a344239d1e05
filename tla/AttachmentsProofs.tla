--------------------------- MODULE AttachmentsProofs ---------------------------
(* Theorems about attachments, for any rows, names and number of processes.  *)
EXTENDS Attachments, TLAPS

-------------------------------------------------------------------------------
(* What a process has in hand. *)

Link == Row \X Attachment
Stage == {"rest", "look", "drop", "ready"}
Named == UNION {[D -> Name] : D \in SUBSET Attachment}
Tx == [stage : Stage, new : Named,
       add : SUBSET Link, cut : SUBSET Link, taken : SUBSET Link,
       gone : SUBSET Row, doomed : SUBSET Attachment, dropped : SUBSET Attachment,
       asked : SUBSET Attachment, late : SUBSET Link]

(* It adds nothing to what it deletes; what it has deleted it has taken from *)
(* every row it knows of; and what no user asked to delete is on no row but  *)
(* the one it was taken from, or one that others gave it to meanwhile.       *)
InHandOf(w) ==
  LET t == tx[w] IN
  /\ \A l \in t.add : l[1] \notin t.gone /\ l[2] \notin t.doomed
  /\ t.dropped \subseteq t.doomed
  /\ t.stage # "ready" => t.dropped = {}
  /\ t.taken \subseteq t.cut
  /\ t.stage = "look" => t.cut = t.taken
  /\ \A l \in links : l[1] \in t.gone \/ l[2] \in t.dropped => l \in t.cut
  /\ t.stage \in {"drop", "ready"} =>
       \A l \in links : l[2] \in t.doomed \ t.asked => l \in t.taken \cup t.late

Typed == TypeOK /\ tx \in [Process -> Tx]
HandsInv == Typed /\ \A w \in Process : InHandOf(w)

LEMMA RestingIs ==
  /\ Resting \in Tx
  /\ Resting.stage = "rest" /\ Resting.new = [x \in {} |-> None]
  /\ DOMAIN Resting.new = {}
  /\ Resting.add = {} /\ Resting.cut = {} /\ Resting.taken = {}
  /\ Resting.gone = {} /\ Resting.doomed = {} /\ Resting.dropped = {}
  /\ Resting.asked = {} /\ Resting.late = {}
<1>1. [x \in {} |-> None] \in [{} -> Name]
  OBVIOUS
<1>2. [x \in {} |-> None] \in Named
  BY <1>1 DEF Named
<1> QED
  BY <1>2 DEF Resting, Tx, Stage, Link

LEMMA TakenIs ==
  ASSUME NEW t, NEW x
  PROVE  x \in Taken(t) <=> \E l \in t.taken : l[2] = x
BY DEF Taken

(* One process's part of tx is set. *)
Sets(w, t) == tx' = [tx EXCEPT ![w] = t]

LEMMA SetsIs ==
  ASSUME tx \in [Process -> Tx], NEW w \in Process, NEW t \in Tx, Sets(w, t)
  PROVE  /\ tx' \in [Process -> Tx]
         /\ tx'[w] = t
         /\ \A v \in Process \ {w} : tx'[v] = tx[v]
BY DEF Sets

-------------------------------------------------------------------------------
(* What each action does to what the processes have in hand. *)

Alone(w) == /\ tx' \in [Process -> Tx]
            /\ \A v \in Process \ {w} : tx'[v] = tx[v]

Uploading(r, x, n) ==
  [Resting EXCEPT !.stage = "ready", !.new = [y \in {x} |-> n], !.add = {<<r, x>>}]
Assigning(had, gets) ==
  [Resting EXCEPT !.stage = IF had = {} THEN "ready" ELSE "look",
                  !.cut = had, !.taken = had, !.add = gets]

LEMMA UploadDoes ==
  ASSUME Typed, NEW w \in Worker, NEW r \in Row, NEW x \in Attachment, NEW n \in Name,
         Upload(w, r, x, n)
  PROVE  Alone(w) /\ tx[w] = Resting /\ tx'[w] = Uploading(r, x, n)
<1> DEFINE t == [Resting EXCEPT !.stage = "ready", !.new = [y \in {x} |-> n],
                                !.add = {<<r, x>>}]
<1>1. w \in Process /\ tx \in [Process -> Tx] /\ tx[w] = Resting
  BY DEF Process, Typed, Upload, Starting
<1>2. [y \in {x} |-> n] \in Named
  <2>1. [y \in {x} |-> n] \in [{x} -> Name] /\ {x} \in SUBSET Attachment
    OBVIOUS
  <2> QED
    BY <2>1 DEF Named
<1>3. t \in Tx
  <2> DEFINE new == [y \in {x} |-> n]
             add == {<<r, x>>}
  <2>1. add \in SUBSET Link
    BY DEF Link
  <2> HIDE DEF new, add
  <2>2. [Resting EXCEPT !.stage = "ready", !.new = new, !.add = add] \in Tx
    <3>1. new \in Named
      BY <1>2 DEF new
    <3> QED
      BY <2>1, <3>1, RestingIs DEF Tx, Stage
  <2> QED
    BY <2>2 DEF new, add
<1>4. Sets(w, t)
  BY <1>1 DEF Sets, Upload
<1> QED
  BY <1>1, <1>3, <1>4, SetsIs DEF Alone, Uploading

LEMMA SetAttachmentsDoes ==
  ASSUME Typed, NEW w \in Worker, NEW r \in Row, NEW S \in SUBSET Attachment,
         SetAttachments(w, r, S)
  PROVE  \E had, gets \in SUBSET Link :
           /\ Alone(w) /\ tx[w] = Resting /\ tx'[w] = Assigning(had, gets)
           /\ \A l \in had \cup gets : l[2] \in Stored
<1> DEFINE has == {x \in Attachment : <<r, x>> \in links}
           had == {r} \X (has \ S)
           gets == {r} \X (S \ has)
           t == [Resting EXCEPT !.stage = IF has \subseteq S THEN "ready" ELSE "look",
                                !.cut = had, !.taken = had, !.add = gets]
<1>1. w \in Process /\ tx \in [Process -> Tx] /\ tx[w] = Resting
  BY DEF Process, Typed, SetAttachments, Starting
<1>2. had \in SUBSET Link /\ gets \in SUBSET Link
  BY DEF Link
<1>3. t \in Tx
  <2> DEFINE stage == IF has \subseteq S THEN "ready" ELSE "look"
  <2>1. stage \in Stage
    BY DEF Stage
  <2> HIDE DEF had, gets, stage
  <2>2. [Resting EXCEPT !.stage = stage, !.cut = had, !.taken = had, !.add = gets] \in Tx
    BY <1>2, <2>1, RestingIs DEF Tx
  <2> QED
    BY <2>2 DEF stage
<1>4. Sets(w, t)
  BY <1>1 DEF Sets, SetAttachments
<1>5. \A l \in had \cup gets : l[2] \in Stored
  BY DEF SetAttachments, Typed, TypeOK
<1>6. had = {} <=> has \subseteq S
  <2>1. \A x \in has \ S : <<r, x>> \in had
    OBVIOUS
  <2> QED
    BY <2>1
<1>7. t = Assigning(had, gets)
  <2> HIDE DEF had, gets, has
  <2> QED
    BY <1>6 DEF Assigning
<1>8. Alone(w) /\ tx'[w] = t
  <2> HIDE DEF t
  <2> QED
    BY <1>1, <1>3, <1>4, SetsIs DEF Alone
<1> HIDE DEF had, gets, t
<1> QED
  BY <1>1, <1>2, <1>5, <1>7, <1>8

LEMMA AttachmentsChangedDoes ==
  ASSUME Typed, NEW w \in Process, AttachmentsChanged(w)
  PROVE  /\ Alone(w)
         /\ tx'[w] = [tx[w] EXCEPT !.stage = "drop", !.doomed = Empty(tx[w])]
<1> DEFINE t == [tx[w] EXCEPT !.stage = "drop", !.doomed = Empty(tx[w])]
<1>1. tx \in [Process -> Tx] /\ tx[w] \in Tx
  BY DEF Typed
<1>2. Empty(tx[w]) \in SUBSET Attachment
  BY DEF Empty, Stored
<1>3. t \in Tx
  BY <1>1, <1>2 DEF Tx, Stage
<1>4. Sets(w, t)
  BY <1>1 DEF Sets, AttachmentsChanged
<1> QED
  BY <1>1, <1>3, <1>4, SetsIs DEF Alone

LEMMA DeleteAttachmentDoes ==
  ASSUME Typed, NEW w \in Worker, NEW r \in Row, NEW x \in Attachment,
         DeleteAttachment(w, r, x)
  PROVE  /\ Alone(w) /\ tx[w] = Resting /\ x \in Stored
         /\ tx'[w] = [Resting EXCEPT !.stage = "drop", !.doomed = {x}, !.asked = {x}]
<1> DEFINE t == [Resting EXCEPT !.stage = "drop", !.doomed = {x}, !.asked = {x}]
<1>1. w \in Process /\ tx \in [Process -> Tx] /\ tx[w] = Resting
  BY DEF Process, Typed, DeleteAttachment, Starting
<1>2. t \in Tx
  BY RestingIs DEF Tx, Stage
<1>3. Sets(w, t)
  BY <1>1 DEF Sets, DeleteAttachment
<1>4. x \in Stored
  BY DEF DeleteAttachment, Typed, TypeOK
<1> QED
  BY <1>1, <1>2, <1>3, <1>4, SetsIs DEF Alone

LEMMA DeleteRowDoes ==
  ASSUME Typed, NEW w \in Worker, NEW r \in Row, DeleteRow(w, r)
  PROVE  /\ Alone(w) /\ tx[w] = Resting
         /\ tx'[w] = [Resting EXCEPT !.stage = "ready", !.gone = {r},
                                     !.cut = {l \in links : l[1] = r}]
<1> DEFINE has == {l \in links : l[1] = r}
           t == [Resting EXCEPT !.stage = "ready", !.gone = {r}, !.cut = has]
<1>1. w \in Process /\ tx \in [Process -> Tx] /\ tx[w] = Resting
  BY DEF Process, Typed, DeleteRow, Starting
<1>2. has \in SUBSET Link
  BY DEF Typed, TypeOK, Link, Stored
<1>3. t \in Tx
  BY <1>2, RestingIs DEF Tx, Stage
<1>4. Sets(w, t)
  BY <1>1 DEF Sets, DeleteRow
<1> QED
  BY <1>1, <1>3, <1>4, SetsIs DEF Alone

LEMMA FindDoes ==
  ASSUME Typed, FindEmptyAttachments
  PROVE  /\ Alone(Celery) /\ tx[Celery] = Resting
         /\ tx'[Celery] = [Resting EXCEPT !.stage = "drop", !.doomed = Lingering]
<1> DEFINE t == [Resting EXCEPT !.stage = "drop", !.doomed = Lingering]
<1>1. Celery \in Process /\ tx \in [Process -> Tx] /\ tx[Celery] = Resting
  BY DEF Process, Typed, FindEmptyAttachments, Starting
<1>2. Lingering \in SUBSET Attachment
  BY DEF Lingering, Stored
<1>3. t \in Tx
  BY <1>2, RestingIs DEF Tx, Stage
<1>4. Sets(Celery, t)
  BY <1>1 DEF Sets, FindEmptyAttachments
<1> QED
  BY <1>1, <1>3, <1>4, SetsIs DEF Alone

LEMMA DropDoes ==
  ASSUME Typed, NEW w \in Process, Drop(w)
  PROVE  /\ Alone(w)
         /\ tx'[w] = [tx[w] EXCEPT !.stage = "ready",
                        !.dropped = tx[w].doomed \cap Stored,
                        !.cut = tx[w].cut \cup {l \in links : l[2] \in tx[w].doomed}]
<1> DEFINE on == {l \in links : l[2] \in tx[w].doomed}
           t == [tx[w] EXCEPT !.stage = "ready", !.dropped = tx[w].doomed \cap Stored,
                              !.cut = tx[w].cut \cup on]
<1>1. tx \in [Process -> Tx] /\ tx[w] \in Tx
  BY DEF Typed
<1>2. on \in SUBSET Link
  BY DEF Typed, TypeOK, Link, Stored
<1>3. t \in Tx
  <2>1. tx[w].doomed \cap Stored \in SUBSET Attachment
    BY DEF Stored
  <2>2. tx[w].cut \cup on \in SUBSET Link
    BY <1>1, <1>2 DEF Tx
  <2> HIDE DEF on
  <2> QED
    BY <1>1, <2>1, <2>2 DEF Tx, Stage
<1>4. Sets(w, t)
  BY <1>1 DEF Sets, Drop
<1> HIDE DEF t
<1>5. Alone(w) /\ tx'[w] = t
  BY <1>1, <1>3, <1>4, SetsIs DEF Alone
<1> QED
  BY <1>5 DEF t

LEMMA RollBackDoes ==
  ASSUME Typed, NEW w \in Process, RollBack(w)
  PROVE  Alone(w) /\ tx'[w] = Resting
<1>1. tx \in [Process -> Tx] /\ Sets(w, Resting)
  BY DEF Typed, RollBack, Sets
<1> QED
  BY <1>1, RestingIs, SetsIs DEF Alone

(* A commit ends the transaction, and the others' take note of its links.    *)
LEMMA CommitDoes ==
  ASSUME Typed, NEW w \in Process, Commit(w)
  PROVE  /\ tx' \in [Process -> Tx] /\ tx'[w] = Resting
         /\ \A v \in Process \ {w} :
              /\ tx'[v].stage = tx[v].stage /\ tx'[v].new = tx[v].new
              /\ tx'[v].add = tx[v].add /\ tx'[v].cut = tx[v].cut
              /\ tx'[v].taken = tx[v].taken /\ tx'[v].gone = tx[v].gone
              /\ tx'[v].doomed = tx[v].doomed /\ tx'[v].dropped = tx[v].dropped
              /\ tx'[v].asked = tx[v].asked
              /\ tx'[v].late = IF tx[v].stage \in {"drop", "ready"}
                               THEN tx[v].late \cup tx[w].add ELSE tx[v].late
<1> DEFINE next(v) == IF tx[v].stage \in {"drop", "ready"}
                      THEN [tx[v] EXCEPT !.late = @ \cup tx[w].add] ELSE tx[v]
<1>1. tx \in [Process -> Tx]
  BY DEF Typed
<1>2. tx' = [v \in Process |-> IF v = w THEN Resting ELSE next(v)]
  BY DEF Commit
<1>3. \A v \in Process : next(v) \in Tx
  <2> SUFFICES ASSUME NEW v \in Process PROVE next(v) \in Tx
    OBVIOUS
  <2>1. tx[v] \in Tx /\ tx[w].add \in SUBSET Link
    BY <1>1 DEF Tx
  <2> QED
    BY <2>1 DEF Tx
<1>4. tx' \in [Process -> Tx] /\ tx'[w] = Resting
  <2> HIDE DEF next
  <2> QED
    BY <1>2, <1>3, RestingIs
<1>5. ASSUME NEW v \in Process \ {w} PROVE tx'[v] = next(v)
  <2> HIDE DEF next
  <2> QED
    BY <1>2
<1>6. \A v \in Process : tx[v] \in Tx
  BY <1>1
<1> QED
  BY <1>4, <1>5, <1>6 DEF Tx

-------------------------------------------------------------------------------
(* What a process has in hand stays so, and every link's ends exist. *)

LEMMA StoredIs ==
  ASSUME name' = name
  PROVE  Stored' = Stored
BY DEF Stored

(* Nothing but a commit changes the attachments there are, or the links.     *)
LEMMA HandsQuiet ==
  ASSUME HandsInv, NEW w \in Process, Alone(w), InHandOf(w)',
         rows \subseteq rows', rows' \subseteq Row, UNCHANGED <<name, links, raced>>,
         young' \subseteq young, lost' \subseteq Attachment,
         file' \in [Name -> Attachment \cup {None}]
  PROVE  HandsInv'
<1>1. TypeOK'
  <2>1. \A v \in Process : tx'[v] \in Tx
    BY DEF Alone
  <2>2. \A v \in Process : tx'[v].stage \in {"rest", "look", "drop", "ready"}
    BY <2>1 DEF Tx, Stage
  <2>3. links' \subseteq rows' \X Stored'
    BY StoredIs DEF HandsInv, Typed, TypeOK
  <2> QED
    BY <2>2, <2>3, StoredIs DEF HandsInv, Typed, TypeOK
<1>2. ASSUME NEW v \in Process \ {w} PROVE InHandOf(v)'
  <2>1. tx'[v] = tx[v] /\ links' = links /\ InHandOf(v)
    BY DEF Alone, HandsInv
  <2> QED
    BY <2>1 DEF InHandOf
<1> QED
  BY <1>1, <1>2 DEF HandsInv, Typed, Alone

LEMMA HandsCommit ==
  ASSUME HandsInv, NEW w \in Process, Commit(w)
  PROVE  HandsInv'
<1> DEFINE t == tx[w]
<1>1. tx[w] \in Tx /\ Typed /\ TypeOK /\ InHandOf(w)
  BY DEF HandsInv, Typed
<1>2. tx' \in [Process -> Tx] /\ tx'[w] = Resting
  BY <1>1, CommitDoes
<1>3. /\ rows' = rows \ t.gone /\ links' = (links \ t.cut) \cup t.add
      /\ name' = [x \in Attachment |-> IF x \in DOMAIN t.new THEN t.new[x]
                                       ELSE IF x \in t.dropped THEN Absent ELSE name[x]]
      /\ young' = (young \cup DOMAIN t.new) \ t.dropped
      /\ raced' \subseteq raced \cup Taken(t) /\ lost' \subseteq lost /\ file' = file
  BY DEF Commit, LinksSeen
<1>4. t.new \in [DOMAIN t.new -> Name] /\ DOMAIN t.new \subseteq Attachment
  BY <1>1 DEF Tx, Named
<1>5. name' \in [Attachment -> Name \cup {Absent}]
  BY <1>1, <1>3, <1>4 DEF TypeOK
<1>6. Stored' = (Stored \ t.dropped) \cup DOMAIN t.new
  <2>1. \A x \in DOMAIN t.new : t.new[x] # Absent
    BY <1>4, AttachmentsAssumption
  <2>2. Stored' = {x \in Attachment : name'[x] # Absent}
    BY DEF Stored
  <2> QED
    BY <1>3, <1>4, <2>1, <2>2 DEF Stored
<1>7. links' \subseteq rows' \X Stored'
  <2>1. ASSUME NEW l \in links \ t.cut PROVE l \in rows' \X Stored'
    <3>1. l[1] \notin t.gone /\ l[2] \notin t.dropped
      BY <1>1 DEF InHandOf
    <3> QED
      BY <1>1, <1>3, <1>6, <3>1 DEF TypeOK
  <2>2. ASSUME NEW l \in t.add PROVE l \in rows' \X Stored'
    <3>1. l \in Link
      BY <1>1 DEF Tx
    <3>2. l[1] \in rows /\ l[2] \in Stored \cup DOMAIN t.new
      BY DEF Commit, Checked, Sound
    <3>3. l[1] \notin t.gone /\ l[2] \notin t.dropped
      BY <1>1 DEF InHandOf
    <3> QED
      BY <1>3, <1>6, <3>1, <3>2, <3>3 DEF Link
  <2> QED
    BY <1>3, <2>1, <2>2
<1>8. TypeOK'
  <2>1. \A v \in Process : tx'[v] \in Tx
    BY <1>2
  <2>2. \A v \in Process : tx'[v].stage \in {"rest", "look", "drop", "ready"}
    BY <2>1 DEF Tx, Stage
  <2>3. Taken(t) \subseteq Attachment
    BY <1>1 DEF Taken, Tx, Link
  <2>4. young' \subseteq Stored'
    BY <1>1, <1>3, <1>6 DEF TypeOK
  <2>5. rows' \subseteq Row /\ raced' \cup lost' \subseteq Attachment
    BY <1>1, <1>3, <2>3 DEF TypeOK
  <2>6. file' \in [Name -> Attachment \cup {None}]
    BY <1>1, <1>3 DEF TypeOK
  <2> HIDE DEF t
  <2> QED
    BY <1>5, <1>7, <2>2, <2>4, <2>5, <2>6 DEF TypeOK
<1>9. ASSUME NEW v \in Process PROVE InHandOf(v)'
  <2>1. CASE v = w
    BY <1>2, <2>1, RestingIs DEF InHandOf
  <2>2. CASE v # w
    <3> DEFINE u == tx[v]
               n == tx'[v]
    <3>1. /\ n.stage = u.stage /\ n.add = u.add /\ n.cut = u.cut
          /\ n.taken = u.taken /\ n.gone = u.gone
          /\ n.doomed = u.doomed /\ n.dropped = u.dropped /\ n.asked = u.asked
          /\ n.late = IF u.stage \in {"drop", "ready"} THEN u.late \cup t.add ELSE u.late
      BY <1>1, <2>2, CommitDoes
    <3>2. InHandOf(v)
      BY DEF HandsInv
    <3>3. \A l \in links' : l[1] \in n.gone \/ l[2] \in n.dropped => l \in n.cut
      <4> SUFFICES ASSUME NEW l \in links', l[1] \in u.gone \/ l[2] \in u.dropped
                   PROVE  l \in u.cut
        BY <3>1
      <4>1. l \notin t.add
        BY <2>2 DEF Commit, Checked
      <4> QED
        BY <1>3, <3>2, <4>1 DEF InHandOf
    <3>4. n.stage \in {"drop", "ready"} =>
            \A l \in links' : l[2] \in n.doomed \ n.asked => l \in n.taken \cup n.late
      BY <1>3, <3>1, <3>2 DEF InHandOf
    <3>5. /\ \A l \in n.add : l[1] \notin n.gone /\ l[2] \notin n.doomed
          /\ n.dropped \subseteq n.doomed
          /\ n.stage # "ready" => n.dropped = {}
          /\ n.taken \subseteq n.cut
          /\ n.stage = "look" => n.cut = n.taken
      BY <3>1, <3>2 DEF InHandOf
    <3> QED
      BY <3>3, <3>4, <3>5 DEF InHandOf
  <2> QED
    BY <2>1, <2>2
<1> QED
  BY <1>2, <1>8, <1>9 DEF HandsInv, Typed

LEMMA HandsInit == Init => HandsInv
<1> SUFFICES ASSUME Init PROVE HandsInv
  OBVIOUS
<1>1. tx \in [Process -> Tx] /\ \A w \in Process : tx[w] = Resting
  BY RestingIs DEF Init
<1>2. TypeOK
  <2>1. Stored = {}
    BY DEF Init, Stored
  <2> QED
    BY <1>1, <2>1, RestingIs DEF Init, TypeOK
<1>3. \A w \in Process : InHandOf(w)
  BY <1>1, RestingIs DEF Init, InHandOf
<1> QED
  BY <1>1, <1>2, <1>3 DEF HandsInv, Typed

LEMMA HandsStep == HandsInv /\ [Next]_vars => HandsInv'
<1> SUFFICES ASSUME HandsInv, [Next]_vars PROVE HandsInv'
  OBVIOUS
<1>0. Typed /\ TypeOK /\ \A w \in Process : tx[w] \in Tx /\ InHandOf(w)
  BY DEF HandsInv, Typed
<1>1. Worker \subseteq Process /\ Celery \in Process
  BY DEF Process
<1>t. Typed
  BY DEF HandsInv
<1>2. ASSUME NEW w \in Worker, NEW r \in Row, NEW x \in Attachment, NEW n \in Name,
             Upload(w, r, x, n)
      PROVE  HandsInv'
  <2>1. Alone(w) /\ tx'[w] = Uploading(r, x, n)
    BY <1>t, <1>2, UploadDoes
  <2>2. InHandOf(w)'
    BY <2>1, RestingIs DEF InHandOf, Uploading
  <2>3. file' \in [Name -> Attachment \cup {None}]
    BY <1>0, <1>2 DEF Upload, TypeOK
  <2>4. UNCHANGED <<rows, name, links, young, raced, lost>>
    BY <1>2 DEF Upload
  <2> QED
    BY <1>0, <1>1, <2>1, <2>2, <2>3, <2>4, HandsQuiet DEF TypeOK
<1>3. ASSUME NEW w \in Worker, NEW r \in Row, NEW S \in SUBSET Attachment,
             SetAttachments(w, r, S)
      PROVE  HandsInv'
  <2>1. PICK had, gets \in SUBSET Link :
           Alone(w) /\ tx'[w] = Assigning(had, gets)
    BY <1>t, <1>3, SetAttachmentsDoes
  <2>2. InHandOf(w)'
    BY <2>1, RestingIs DEF InHandOf, Assigning
  <2>3. UNCHANGED <<rows, name, links, young, file, raced, lost>>
    BY <1>3 DEF SetAttachments
  <2> QED
    BY <1>0, <1>1, <2>1, <2>2, <2>3, HandsQuiet DEF TypeOK
<1>4. ASSUME NEW w \in Process, AttachmentsChanged(w) PROVE HandsInv'
  <2> DEFINE t == tx[w]
  <2>1. Alone(w) /\ tx'[w] = [t EXCEPT !.stage = "drop", !.doomed = Empty(t)]
    BY <1>0, <1>4, AttachmentsChangedDoes
  <2>2. /\ t.stage = "look" /\ UNCHANGED <<rows, name, links, young, file, raced, lost>>
    BY <1>4 DEF AttachmentsChanged
  <2>3. \A l \in links \cup t.add : l[2] \in Empty(t) => l \in t.taken /\ l \notin t.add
    BY <1>0, <2>2 DEF Empty, LinksSeen, InHandOf
  <2>4. /\ tx'[w].stage = "drop" /\ tx'[w].doomed = Empty(t)
        /\ tx'[w].add = t.add /\ tx'[w].cut = t.cut /\ tx'[w].taken = t.taken
        /\ tx'[w].gone = t.gone /\ tx'[w].dropped = t.dropped
        /\ tx'[w].asked = t.asked /\ tx'[w].late = t.late
    BY <1>0, <2>1 DEF Tx
  <2>5. InHandOf(w)'
    BY <1>0, <2>2, <2>3, <2>4 DEF InHandOf
  <2> QED
    BY <1>0, <2>1, <2>2, <2>5, HandsQuiet DEF TypeOK
<1>5. ASSUME NEW w \in Worker, NEW r \in Row, NEW x \in Attachment,
             DeleteAttachment(w, r, x)
      PROVE  HandsInv'
  <2>1. /\ Alone(w)
        /\ tx'[w] = [Resting EXCEPT !.stage = "drop", !.doomed = {x}, !.asked = {x}]
    BY <1>0, <1>5, DeleteAttachmentDoes
  <2>2. InHandOf(w)'
    BY <2>1, RestingIs DEF InHandOf
  <2>3. UNCHANGED <<rows, name, links, young, file, raced, lost>>
    BY <1>5 DEF DeleteAttachment
  <2> QED
    BY <1>0, <1>1, <2>1, <2>2, <2>3, HandsQuiet DEF TypeOK
<1>6. ASSUME NEW w \in Worker, NEW r \in Row, DeleteRow(w, r) PROVE HandsInv'
  <2>1. /\ Alone(w)
        /\ tx'[w] = [Resting EXCEPT !.stage = "ready", !.gone = {r},
                                    !.cut = {l \in links : l[1] = r}]
    BY <1>0, <1>6, DeleteRowDoes
  <2>2. UNCHANGED <<rows, name, links, young, file, raced, lost>>
    BY <1>6 DEF DeleteRow
  <2>3. InHandOf(w)'
    BY <2>1, <2>2, RestingIs DEF InHandOf
  <2> QED
    BY <1>0, <1>1, <2>1, <2>2, <2>3, HandsQuiet DEF TypeOK
<1>7. ASSUME NEW w \in Process, tx' = tx, rows \subseteq rows', rows' \subseteq Row,
             young' \subseteq young, UNCHANGED <<name, links, file, raced, lost>>
      PROVE  HandsInv'
  <2>1. Alone(w)
    BY <1>0, <1>7 DEF Alone, Typed
  <2>2. InHandOf(w)'
    BY <1>0, <1>7 DEF InHandOf
  <2> QED
    BY <1>0, <1>7, <2>1, <2>2, HandsQuiet DEF TypeOK
<1>8. ASSUME FindEmptyAttachments PROVE HandsInv'
  <2>1. /\ Alone(Celery)
        /\ tx'[Celery] = [Resting EXCEPT !.stage = "drop", !.doomed = Lingering]
    BY <1>0, <1>8, FindDoes
  <2>2. UNCHANGED <<rows, name, links, young, file, raced, lost>>
    BY <1>8 DEF FindEmptyAttachments
  <2>3. InHandOf(Celery)'
    BY <2>1, <2>2, RestingIs DEF InHandOf, Lingering
  <2> QED
    BY <1>0, <1>1, <2>1, <2>2, <2>3, HandsQuiet DEF TypeOK
<1>9. ASSUME NEW w \in Process, Drop(w) PROVE HandsInv'
  <2> DEFINE t == tx[w]
             cut == t.cut \cup {l \in links : l[2] \in t.doomed}
  <2>1. /\ Alone(w)
        /\ tx'[w] = [t EXCEPT !.stage = "ready", !.dropped = t.doomed \cap Stored,
                              !.cut = cut]
    BY <1>0, <1>9, DropDoes
  <2>2. t.stage = "drop" /\ UNCHANGED <<rows, name, links, young, raced, lost>>
    BY <1>9 DEF Drop
  <2>3. /\ tx'[w].stage = "ready" /\ tx'[w].dropped = t.doomed \cap Stored
        /\ tx'[w].cut = cut /\ tx'[w].add = t.add /\ tx'[w].taken = t.taken
        /\ tx'[w].gone = t.gone /\ tx'[w].doomed = t.doomed
        /\ tx'[w].asked = t.asked /\ tx'[w].late = t.late
    BY <1>0, <2>1 DEF Tx
  <2>4. InHandOf(w)'
    BY <1>0, <2>2, <2>3 DEF InHandOf
  <2>5. file' \in [Name -> Attachment \cup {None}]
    BY <1>0, <1>9 DEF Drop, TypeOK
  <2> QED
    BY <1>0, <2>1, <2>2, <2>4, <2>5, HandsQuiet DEF TypeOK
<1>10. ASSUME NEW w \in Process, RollBack(w) PROVE HandsInv'
  <2>1. Alone(w) /\ tx'[w] = Resting
    BY <1>0, <1>10, RollBackDoes
  <2>2. UNCHANGED <<rows, name, links, young, file, raced>>
    BY <1>10 DEF RollBack
  <2>3. InHandOf(w)'
    BY <2>1, RestingIs DEF InHandOf
  <2>4. lost' \subseteq Attachment
    BY <1>0, <1>10 DEF RollBack, Tx, TypeOK
  <2> QED
    BY <1>0, <2>1, <2>2, <2>3, <2>4, HandsQuiet DEF TypeOK
<1>11. ASSUME NEW w \in Worker, NEW r \in Row, CreateRow(w, r) PROVE HandsInv'
  BY <1>0, <1>1, <1>7, <1>11 DEF CreateRow, TypeOK
<1>12. ASSUME NEW x \in Attachment, Age(x) PROVE HandsInv'
  BY <1>0, <1>1, <1>7, <1>12 DEF Age, TypeOK
<1>13. CASE UNCHANGED vars
  BY <1>0, <1>1, <1>7, <1>13 DEF vars, TypeOK
<1> QED
  BY <1>2, <1>3, <1>4, <1>5, <1>6, <1>8, <1>9, <1>10, <1>11, <1>12, <1>13, HandsCommit
     DEF Next, Request, Progress

(* Every variable has its shape and every link's row and attachment exist,   *)
(* whatever deletes and assignments overlap: a delete takes the links with   *)
(* it, and the check of the foreign keys at commit waits for those who have  *)
(* deleted what a new link needs.                                            *)
THEOREM TypeCorrect == Spec => []TypeOK
<1>1. HandsInv => TypeOK
  BY DEF HandsInv, Typed
<1> QED
  BY <1>1, HandsInit, HandsStep, PTL DEF Spec

(* What a commit deletes no row has by then, save those that got it after    *)
(* the process had looked, however many processes take attachments from      *)
(* rows, assign them and delete them at once.                                *)
THEOREM KeepsWhatIsUsedCorrect == Spec => KeepsWhatIsUsed
<1> DEFINE Keeps == \A w \in Process : tx'[w] = Resting /\ tx[w].stage = "ready" =>
                      {l \in links \ links' : l[2] \in tx[w].dropped \ tx[w].asked}
                        \subseteq tx[w].taken \cup tx[w].late
<1>1. HandsInv /\ [Next]_vars => [Keeps]_vars
  <2> SUFFICES ASSUME HandsInv, Next, NEW w \in Process, tx'[w] = Resting,
                      tx[w].stage = "ready", NEW l \in links \ links',
                      l[2] \in tx[w].dropped \ tx[w].asked
               PROVE  l \in tx[w].taken \cup tx[w].late
    BY DEF Keeps
  <2>1. InHandOf(w)
    BY DEF HandsInv
  <2>2. l[2] \in tx[w].doomed \ tx[w].asked
    BY <2>1 DEF InHandOf
  <2> QED
    BY <2>1, <2>2 DEF InHandOf
<1> QED
  BY <1>1, HandsInit, HandsStep, PTL DEF Spec, KeepsWhatIsUsed

-------------------------------------------------------------------------------
(* When no two uploads take the same name and no row is deleted with its     *)
(* attachments, no file and no row is missing.                               *)

(* Attachments not committed yet: nobody has them, and nobody has their name.*)
Apart(w, v) ==
  \A x \in DOMAIN tx[w].new, y \in DOMAIN tx[v].new :
    v # w \/ x # y => x # y /\ tx[w].new[x] # tx[v].new[y]
NewOf(w) ==
  \A x \in DOMAIN tx[w].new :
    /\ x \notin Stored /\ \E l \in tx[w].add : l[2] = x
    /\ file[tx[w].new[x]] = x
    /\ \A y \in Stored : name[y] # tx[w].new[x]
    /\ \A v \in Process : x \notin Taken(tx[v]) /\ x \notin tx[v].doomed
NamesApart == \A x, y \in Stored : name[x] = name[y] => x = y
NewInv == /\ DOMAIN tx[Celery].new = {} /\ NamesApart
          /\ \A w \in Process : NewOf(w) /\ \A v \in Process : Apart(w, v)

(* What a process cuts it was asked to take, or deletes; and what it takes   *)
(* and does not delete is still on a row, or in the hands of two.            *)
CutsOf(w) ==
  LET t == tx[w] IN
  /\ \A l \in t.cut \ t.taken : l[2] \in t.dropped
  /\ t.stage = "ready" => t.doomed \cap Stored \subseteq t.dropped
  /\ t.stage \in {"drop", "ready"} =>
       \A x \in (Taken(t) \cap Stored) \ (raced \cup t.doomed) :
         \E l \in LinksSeen(t) : l[2] = x

WholeInv == HandsInv /\ IsWhole /\ NewInv /\ \A w \in Process : CutsOf(w)

LEMMA WholeQuiet ==
  ASSUME WholeInv, HandsInv', NEW w \in Process, Alone(w), CutsOf(w)',
         UNCHANGED <<name, links, file, raced>>, lost \subseteq lost',
         tx[w].dropped \cap Stored \subseteq tx'[w].dropped \cup lost',
         \/ DOMAIN tx'[w].new = {}
         \/ tx'[w].new = tx[w].new /\ tx'[w].add = tx[w].add,
         \A x : x \in Taken(tx'[w]) \/ x \in tx'[w].doomed =>
           x \in Stored \/ x \in Taken(tx[w]) \/ x \in tx[w].doomed
  PROVE  WholeInv'
<1>1. Stored' = Stored
  BY StoredIs
<1>2. \A v \in Process \ {w} : tx'[v] = tx[v]
  BY DEF Alone
<1>3. IsWhole'
  <2>1. NoOrphan'
    BY <1>1 DEF WholeInv, IsWhole, NoOrphan
  <2>2. FilesKept'
    <3> SUFFICES ASSUME NEW x \in Stored \ lost', \A v \in Process : x \notin tx'[v].dropped
                 PROVE  file[name[x]] = x
      BY <1>1 DEF FilesKept
    <3>1. \A v \in Process : x \notin tx[v].dropped
      BY <1>2
    <3> QED
      BY <3>1 DEF WholeInv, IsWhole, FilesKept
  <2> QED
    BY <2>1, <2>2 DEF IsWhole
<1>4. NewInv'
  <2>1. DOMAIN tx'[Celery].new = {}
    <3>1. Celery \in Process /\ DOMAIN tx[Celery].new = {}
      BY DEF Process, WholeInv, NewInv
    <3>2. CASE Celery = w
      BY <3>1, <3>2
    <3>3. CASE Celery # w
      BY <1>2, <3>1, <3>3
    <3> QED
      BY <3>2, <3>3
  <2>2. NamesApart'
    BY <1>1 DEF WholeInv, NewInv, NamesApart
  <2>3. ASSUME NEW v \in Process, NEW x \in DOMAIN tx'[v].new
        PROVE  x \in DOMAIN tx[v].new /\ tx'[v].new = tx[v].new /\ tx'[v].add = tx[v].add
    BY <1>2, <2>3
  <2>4. ASSUME NEW v \in Process PROVE NewOf(v)'
    <3> SUFFICES ASSUME NEW x \in DOMAIN tx'[v].new
                 PROVE  /\ x \notin Stored /\ \E l \in tx'[v].add : l[2] = x
                        /\ file[tx'[v].new[x]] = x
                        /\ \A y \in Stored : name[y] # tx'[v].new[x]
                        /\ \A u \in Process : x \notin Taken(tx'[u]) /\ x \notin tx'[u].doomed
      BY <1>1 DEF NewOf
    <3>1. x \in DOMAIN tx[v].new /\ tx'[v].new = tx[v].new /\ tx'[v].add = tx[v].add
      BY <2>3
    <3>2. NewOf(v)
      BY DEF WholeInv, NewInv
    <3>3. \A u \in Process : x \notin Taken(tx'[u]) /\ x \notin tx'[u].doomed
      BY <1>2, <3>1, <3>2 DEF NewOf
    <3> QED
      BY <3>1, <3>2, <3>3 DEF NewOf
  <2>5. ASSUME NEW v \in Process, NEW u \in Process PROVE Apart(v, u)'
    BY <2>3 DEF WholeInv, NewInv, Apart
  <2> QED
    BY <2>1, <2>2, <2>4, <2>5 DEF NewInv
<1>5. ASSUME NEW v \in Process \ {w} PROVE CutsOf(v)'
  <2>1. tx'[v] = tx[v] /\ CutsOf(v)
    BY <1>2 DEF WholeInv
  <2> QED
    BY <1>1, <2>1 DEF CutsOf, LinksSeen
<1> QED
  BY <1>3, <1>4, <1>5 DEF WholeInv

LEMMA WholeUpload ==
  ASSUME Situations \subseteq Avoided, WholeInv, HandsInv', NEW w \in Worker,
         NEW r \in Row, NEW x \in Attachment, NEW n \in Name, Upload(w, r, x, n)
  PROVE  WholeInv'
<1>1. Alone(w) /\ tx[w] = Resting /\ tx'[w] = Uploading(r, x, n)
  BY UploadDoes DEF WholeInv, HandsInv
<1>2. /\ x \notin Stored /\ Fresh(x) /\ UNCHANGED <<name, links, raced, lost>>
      /\ file' = [file EXCEPT ![n] = x]
  BY DEF Upload
<1>3. /\ \A y \in Stored : name[y] # n
      /\ \A v \in Worker : \A y \in DOMAIN tx[v].new : tx[v].new[y] # n
  BY DEF Upload, Avoids, Situations
<1>4. Stored' = Stored
  BY <1>2, StoredIs
<1>5. w \in Process /\ \A v \in Process \ {w} : tx'[v] = tx[v]
  BY <1>1 DEF Alone, Process
<1>6. /\ tx'[w].stage = "ready" /\ tx'[w].new = [y \in {x} |-> n]
      /\ tx'[w].add = {<<r, x>>} /\ tx'[w].dropped = {} /\ tx'[w].doomed = {}
      /\ tx'[w].cut = {} /\ tx'[w].taken = {} /\ DOMAIN tx'[w].new = {x}
  BY <1>1, RestingIs DEF Uploading
<1>7. Taken(tx'[w]) = {}
  BY <1>6 DEF Taken
<1>8. DOMAIN tx[Celery].new = {}
  BY DEF WholeInv, NewInv
<1>9. /\ \A v \in Process : x \notin DOMAIN tx[v].new /\ x \notin tx[v].doomed
      /\ \A v \in Process : x \notin Taken(tx[v])
  <2> SUFFICES ASSUME NEW v \in Process
               PROVE  /\ x \notin DOMAIN tx[v].new /\ x \notin tx[v].doomed
                      /\ x \notin Taken(tx[v])
    OBVIOUS
  <2>1. x \notin Known(tx[v])
    BY <1>2 DEF Fresh
  <2>2. \A l \in tx[v].taken : l[2] # x
    <3>1. tx[v].taken \subseteq tx[v].cut
      BY DEF WholeInv, HandsInv, InHandOf
    <3>2. \A l \in tx[v].cut : x \notin {l[1], l[2]}
      BY <2>1 DEF Known
    <3> QED
      BY <3>1, <3>2
  <2> QED
    BY <2>1, <2>2 DEF Known, Taken
<1>10. ASSUME NEW v \in Process, NEW y \in DOMAIN tx[v].new PROVE tx[v].new[y] # n
  BY <1>3, <1>8 DEF Process
<1>11. \A v \in Process : tx[v].new \in [DOMAIN tx[v].new -> Name]
  <2> SUFFICES ASSUME NEW v \in Process PROVE tx[v].new \in [DOMAIN tx[v].new -> Name]
    OBVIOUS
  <2>1. tx[v] \in Tx
    BY DEF WholeInv, HandsInv, Typed
  <2> QED
    BY <2>1 DEF Tx, Named
<1>12. /\ file \in [Name -> Attachment \cup {None}]
       /\ \A y \in Stored : name[y] \in Name
  BY DEF WholeInv, HandsInv, Typed, TypeOK, Stored
<1>13. IsWhole'
  <2>1. NoOrphan'
    BY <1>2, <1>4 DEF WholeInv, IsWhole, NoOrphan
  <2>2. FilesKept'
    <3> SUFFICES ASSUME NEW y \in Stored \ lost, \A v \in Process : y \notin tx'[v].dropped
                 PROVE  file'[name[y]] = y
      BY <1>2, <1>4 DEF FilesKept
    <3>1. \A v \in Process : y \notin tx[v].dropped
      BY <1>1, <1>5, RestingIs
    <3>2. file[name[y]] = y
      BY <3>1 DEF WholeInv, IsWhole, FilesKept
    <3> QED
      BY <1>2, <1>3, <1>12, <3>2
  <2> QED
    BY <2>1, <2>2 DEF IsWhole
<1>14. NewInv'
  <2>1. DOMAIN tx'[Celery].new = {}
    <3>1. Celery # w /\ Celery \in Process
      BY AttachmentsAssumption DEF Process
    <3> QED
      BY <1>5, <1>8, <3>1
  <2>2. NamesApart'
    BY <1>2, <1>4 DEF WholeInv, NewInv, NamesApart
  <2>3. ASSUME NEW v \in Process PROVE NewOf(v)'
    <3> SUFFICES ASSUME NEW z \in DOMAIN tx'[v].new
                 PROVE  /\ z \notin Stored /\ \E l \in tx'[v].add : l[2] = z
                        /\ file'[tx'[v].new[z]] = z
                        /\ \A y \in Stored : name[y] # tx'[v].new[z]
                        /\ \A u \in Process : z \notin Taken(tx'[u]) /\ z \notin tx'[u].doomed
      BY <1>2, <1>4 DEF NewOf
    <3>1. CASE v = w
      <4>1. z = x /\ tx'[v].new[z] = n /\ <<r, x>> \in tx'[v].add
        BY <1>6, <3>1
      <4>2. file'[n] = x
        BY <1>2, <1>12
      <4>3. \A u \in Process : x \notin Taken(tx'[u]) /\ x \notin tx'[u].doomed
        BY <1>5, <1>6, <1>7, <1>9
      <4> QED
        BY <1>2, <1>3, <4>1, <4>2, <4>3
    <3>2. CASE v # w
      <4>1. tx'[v] = tx[v] /\ NewOf(v) /\ z \in DOMAIN tx[v].new
        BY <1>5, <3>2 DEF WholeInv, NewInv
      <4>2. tx[v].new[z] \in Name /\ tx[v].new[z] # n
        BY <1>10, <1>11, <4>1
      <4>3. file'[tx[v].new[z]] = z
        BY <1>2, <1>12, <4>1, <4>2 DEF NewOf
      <4>4. \A u \in Process : z \notin Taken(tx'[u]) /\ z \notin tx'[u].doomed
        BY <1>5, <1>6, <1>7, <4>1 DEF NewOf
      <4> QED
        BY <4>1, <4>3, <4>4 DEF NewOf
    <3> QED
      BY <3>1, <3>2
  <2>4. ASSUME NEW v \in Process, NEW u \in Process PROVE Apart(v, u)'
    <3> SUFFICES ASSUME NEW y \in DOMAIN tx'[v].new, NEW z \in DOMAIN tx'[u].new,
                        u # v \/ y # z
                 PROVE  y # z /\ tx'[v].new[y] # tx'[u].new[z]
      BY DEF Apart
    <3>1. Apart(v, u)
      BY DEF WholeInv, NewInv
    <3>2. CASE v = w /\ u = w
      BY <1>6, <3>2
    <3>3. CASE v = w /\ u # w
      BY <1>5, <1>6, <1>9, <1>10, <3>3
    <3>4. CASE v # w /\ u = w
      BY <1>5, <1>6, <1>9, <1>10, <3>4
    <3>5. CASE v # w /\ u # w
      BY <1>5, <3>1, <3>5 DEF Apart
    <3> QED
      BY <3>2, <3>3, <3>4, <3>5
  <2> QED
    BY <2>1, <2>2, <2>3, <2>4 DEF NewInv
<1>15. ASSUME NEW v \in Process PROVE CutsOf(v)'
  <2>1. CASE v = w
    BY <1>6, <1>7, <2>1 DEF CutsOf
  <2>2. CASE v # w
    <3>1. tx'[v] = tx[v] /\ CutsOf(v)
      BY <1>5, <2>2 DEF WholeInv
    <3> QED
      BY <1>2, <1>4, <3>1 DEF CutsOf, LinksSeen
  <2> QED
    BY <2>1, <2>2
<1> QED
  BY <1>13, <1>14, <1>15 DEF WholeInv

LEMMA WholeDrop ==
  ASSUME WholeInv, HandsInv', NEW w \in Process, Drop(w)
  PROVE  WholeInv'
<1> DEFINE t == tx[w]
           cut == t.cut \cup {l \in links : l[2] \in t.doomed}
<1>1. Alone(w) /\ t \in Tx /\ TypeOK /\ InHandOf(w) /\ CutsOf(w)
  BY DropDoes DEF WholeInv, HandsInv, Typed
<1>2. tx'[w] = [t EXCEPT !.stage = "ready", !.dropped = t.doomed \cap Stored, !.cut = cut]
  BY DropDoes DEF WholeInv, HandsInv
<1>3. /\ tx'[w].stage = "ready" /\ tx'[w].dropped = t.doomed \cap Stored
      /\ tx'[w].cut = cut /\ tx'[w].new = t.new /\ tx'[w].add = t.add
      /\ tx'[w].taken = t.taken /\ tx'[w].doomed = t.doomed
  BY <1>1, <1>2 DEF Tx
<1>4. /\ UNCHANGED <<name, links, raced, lost>> /\ t.stage = "drop"
      /\ file' = [n \in Name |-> IF n \in FilesOf(t) THEN None ELSE file[n]]
  BY DEF Drop
<1>5. Stored' = Stored
  BY <1>4, StoredIs
<1>6. \A v \in Process \ {w} : tx'[v] = tx[v]
  BY <1>1 DEF Alone
<1>7. /\ \A v \in Process : tx'[v].new = tx[v].new /\ tx'[v].add = tx[v].add
      /\ \A v \in Process : tx'[v].doomed = tx[v].doomed /\ tx'[v].taken = tx[v].taken
  BY <1>3, <1>6
<1>8. \A v \in Process : Taken(tx'[v]) = Taken(tx[v])
  BY <1>7 DEF Taken
<1>9. FilesOf(t) = {name[x] : x \in t.doomed \cap Stored}
  BY DEF FilesOf
<1>10. /\ file \in [Name -> Attachment \cup {None}]
       /\ \A y \in Stored : name[y] \in Name
  BY <1>1 DEF TypeOK, Stored
<1> HIDE DEF t, cut
<1>11. IsWhole'
  <2>1. NoOrphan'
    BY <1>4, <1>5 DEF WholeInv, IsWhole, NoOrphan
  <2>2. FilesKept'
    <3> SUFFICES ASSUME NEW x \in Stored \ lost, \A v \in Process : x \notin tx'[v].dropped
                 PROVE  file'[name[x]] = x
      BY <1>4, <1>5 DEF FilesKept
    <3>1. t.dropped = {}
      BY <1>1, <1>4 DEF InHandOf, t
    <3>2. \A v \in Process : x \notin tx[v].dropped
      BY <1>6, <3>1 DEF t
    <3>3. file[name[x]] = x
      BY <3>2 DEF WholeInv, IsWhole, FilesKept
    <3>4. x \notin t.doomed
      BY <1>3
    <3>5. name[x] \notin FilesOf(t)
      BY <1>9, <3>4 DEF WholeInv, NewInv, NamesApart
    <3> QED
      BY <1>4, <1>10, <3>3, <3>5
  <2> QED
    BY <2>1, <2>2 DEF IsWhole
<1>12. NewInv'
  <2>1. DOMAIN tx'[Celery].new = {}
    BY <1>7 DEF WholeInv, NewInv, Process
  <2>2. NamesApart'
    BY <1>4, <1>5 DEF WholeInv, NewInv, NamesApart
  <2>3. ASSUME NEW v \in Process PROVE NewOf(v)'
    <3> SUFFICES ASSUME NEW z \in DOMAIN tx[v].new
                 PROVE  /\ z \notin Stored /\ \E l \in tx[v].add : l[2] = z
                        /\ file'[tx[v].new[z]] = z
                        /\ \A y \in Stored : name[y] # tx[v].new[z]
                        /\ \A u \in Process : z \notin Taken(tx'[u]) /\ z \notin tx'[u].doomed
      BY <1>4, <1>5, <1>7 DEF NewOf
    <3>1. NewOf(v) /\ tx[v] \in Tx
      BY DEF WholeInv, NewInv, HandsInv, Typed
    <3>2. tx[v].new[z] \in Name
      BY <3>1 DEF Tx, Named
    <3>3. tx[v].new[z] \notin FilesOf(t)
      BY <1>9, <3>1 DEF NewOf
    <3>4. file'[tx[v].new[z]] = z
      BY <1>4, <3>1, <3>2, <3>3 DEF NewOf
    <3> QED
      BY <1>7, <1>8, <3>1, <3>4 DEF NewOf
  <2>4. ASSUME NEW v \in Process, NEW u \in Process PROVE Apart(v, u)'
    BY <1>7 DEF WholeInv, NewInv, Apart
  <2> QED
    BY <2>1, <2>2, <2>3, <2>4 DEF NewInv
<1>13. ASSUME NEW v \in Process PROVE CutsOf(v)'
  <2>1. CASE v = w
    <3>1. \A l \in links : l[2] \in Stored
      BY <1>1 DEF TypeOK
    <3>2. \A l \in cut \ t.taken : l[2] \in t.doomed \cap Stored
      <4>1. t.dropped = {}
        BY <1>1, <1>4 DEF InHandOf, t
      <4> QED
        BY <1>1, <3>1, <4>1 DEF CutsOf, t, cut
    <3>3. ASSUME NEW x \in (Taken(t) \cap Stored) \ (raced \cup t.doomed)
          PROVE  \E l \in (links \ cut) \cup t.add : l[2] = x
      <4>1. PICK l \in (links \ t.cut) \cup t.add : l[2] = x
        BY <1>1, <1>4 DEF CutsOf, LinksSeen, t
      <4>2. l \notin {k \in links : k[2] \in t.doomed}
        BY <4>1
      <4> QED
        BY <4>1, <4>2 DEF cut
    <3> QED
      BY <1>3, <1>4, <1>5, <1>8, <2>1, <3>2, <3>3 DEF CutsOf, LinksSeen, t
  <2>2. CASE v # w
    <3>1. tx'[v] = tx[v] /\ CutsOf(v)
      BY <1>6, <2>2 DEF WholeInv
    <3> QED
      BY <1>4, <1>5, <3>1 DEF CutsOf, LinksSeen
  <2> QED
    BY <2>1, <2>2
<1> QED
  BY <1>11, <1>12, <1>13 DEF WholeInv

LEMMA WholeCommit ==
  ASSUME WholeInv, HandsInv', NEW w \in Process, Commit(w)
  PROVE  WholeInv'
<1> DEFINE t == tx[w]
           both == {x \in Taken(t) : \E v \in Process \ {w} : x \in Taken(tx[v])}
<1>1. t \in Tx /\ TypeOK /\ InHandOf(w) /\ CutsOf(w) /\ NewOf(w) /\ t.stage = "ready"
  BY DEF WholeInv, HandsInv, Typed, NewInv, Commit
<1>2. /\ tx'[w] = Resting
      /\ \A v \in Process \ {w} :
           /\ tx'[v].stage = tx[v].stage /\ tx'[v].new = tx[v].new
           /\ tx'[v].add = tx[v].add /\ tx'[v].cut = tx[v].cut
           /\ tx'[v].taken = tx[v].taken
           /\ tx'[v].doomed = tx[v].doomed /\ tx'[v].dropped = tx[v].dropped
  BY CommitDoes DEF WholeInv, HandsInv
<1>3. /\ links' = (links \ t.cut) \cup t.add
      /\ name' = [x \in Attachment |-> IF x \in DOMAIN t.new THEN t.new[x]
                                       ELSE IF x \in t.dropped THEN Absent ELSE name[x]]
      /\ raced' = (raced \cup both) \ t.dropped
      /\ lost' = lost \ t.dropped /\ file' = file
  BY DEF Commit, LinksSeen
<1>4. t.new \in [DOMAIN t.new -> Name] /\ DOMAIN t.new \subseteq Attachment
  BY <1>1 DEF Tx, Named
<1>5. Stored' = (Stored \ t.dropped) \cup DOMAIN t.new
  <2>1. \A x \in DOMAIN t.new : t.new[x] # Absent
    BY <1>4, AttachmentsAssumption
  <2>2. Stored' = {x \in Attachment : name'[x] # Absent}
    BY DEF Stored
  <2> QED
    BY <1>3, <1>4, <2>1, <2>2 DEF Stored
<1>6. /\ \A x \in DOMAIN t.new : name'[x] = t.new[x]
      /\ \A x \in (Stored \ t.dropped) \ DOMAIN t.new : name'[x] = name[x]
  BY <1>3, <1>4 DEF Stored
<1>7. \A v \in Process \ {w} : Taken(tx'[v]) = Taken(tx[v])
  BY <1>2 DEF Taken
<1>8. Taken(tx'[w]) = {} /\ tx'[w].doomed = {} /\ DOMAIN tx'[w].new = {}
  BY <1>2, RestingIs DEF Taken
<1> HIDE DEF t, both
<1>9. ASSUME NEW x \in Stored \ t.dropped, x \notin raced', NEW l \in links, l[2] = x
      PROVE  l \in t.cut => x \in Taken(t) /\ x \notin both /\ x \notin t.doomed
  <2>1. l \in t.cut => l \in t.taken
    BY <1>1, <1>9 DEF CutsOf, t
  <2>2. x \notin both
    BY <1>3, <1>9
  <2>3. x \notin t.doomed
    BY <1>1, <1>9 DEF CutsOf, t
  <2>4. l \in t.taken => x \in Taken(t)
    BY <1>9, TakenIs
  <2> QED
    BY <2>1, <2>2, <2>3, <2>4
<1>10. IsWhole'
  <2>1. ASSUME NEW x \in Stored' \ raced' PROVE \E l \in links' : l[2] = x
    <3>1. CASE x \in DOMAIN t.new
      <4>1. \E l \in t.add : l[2] = x
        BY <1>1, <3>1 DEF NewOf, t
      <4> QED
        BY <1>3, <4>1
    <3>2. CASE x \in Stored \ t.dropped
      <4>1. x \notin raced
        BY <1>3, <2>1, <3>2
      <4>2. PICK l \in links : l[2] = x
        BY <3>2, <4>1 DEF WholeInv, IsWhole, NoOrphan
      <4>3. CASE l \notin t.cut
        BY <1>3, <4>2, <4>3
      <4>4. CASE l \in t.cut
        <5>1. x \in Taken(t) /\ x \notin t.doomed
          BY <1>9, <2>1, <3>2, <4>2, <4>4
        <5>2. \E k \in (links \ t.cut) \cup t.add : k[2] = x
          BY <1>1, <3>2, <4>1, <5>1 DEF CutsOf, LinksSeen, t
        <5> QED
          BY <1>3, <5>2
      <4> QED
        BY <4>3, <4>4
    <3> QED
      BY <1>5, <2>1, <3>1, <3>2
  <2>2. ASSUME NEW x \in Stored' \ lost', \A v \in Process : x \notin tx'[v].dropped
        PROVE  file'[name'[x]] = x
    <3>1. CASE x \in DOMAIN t.new
      BY <1>1, <1>3, <1>6, <3>1 DEF NewOf, t
    <3>2. CASE x \in (Stored \ t.dropped) \ DOMAIN t.new
      <4>1. \A v \in Process : x \notin tx[v].dropped
        BY <1>2, <2>2, <3>2 DEF t
      <4>2. x \notin lost
        BY <1>3, <2>2, <3>2
      <4>3. file[name[x]] = x
        BY <3>2, <4>1, <4>2 DEF WholeInv, IsWhole, FilesKept
      <4> QED
        BY <1>3, <1>6, <3>2, <4>3
    <3> QED
      BY <1>5, <2>2, <3>1, <3>2
  <2> QED
    BY <2>1, <2>2 DEF IsWhole, NoOrphan, FilesKept
<1>11. NewInv'
  <2>1. DOMAIN tx'[Celery].new = {}
    <3>1. Celery \in Process /\ DOMAIN tx[Celery].new = {}
      BY DEF Process, WholeInv, NewInv
    <3> QED
      BY <1>2, <1>8, <3>1
  <2>2. NamesApart'
    <3> SUFFICES ASSUME NEW x \in Stored', NEW y \in Stored', name'[x] = name'[y]
                 PROVE  x = y
      BY DEF NamesApart
    <3>1. Apart(w, w) /\ NamesApart
      BY DEF WholeInv, NewInv
    <3>2. \A u \in DOMAIN t.new : \A z \in Stored : name[z] # t.new[u]
      BY <1>1 DEF NewOf, t
    <3>3. CASE x \in DOMAIN t.new /\ y \in DOMAIN t.new
      BY <1>6, <3>1, <3>3 DEF Apart, t
    <3>4. CASE x \in DOMAIN t.new /\ y \notin DOMAIN t.new
      BY <1>5, <1>6, <3>2, <3>4
    <3>5. CASE x \notin DOMAIN t.new /\ y \in DOMAIN t.new
      BY <1>5, <1>6, <3>2, <3>5
    <3>6. CASE x \notin DOMAIN t.new /\ y \notin DOMAIN t.new
      BY <1>5, <1>6, <3>1, <3>6 DEF NamesApart
    <3> QED
      BY <3>3, <3>4, <3>5, <3>6
  <2>3. ASSUME NEW v \in Process PROVE NewOf(v)'
    <3>1. CASE v = w
      BY <1>8, <3>1 DEF NewOf
    <3>2. CASE v # w
      <4> SUFFICES ASSUME NEW z \in DOMAIN tx[v].new
                   PROVE  /\ z \notin Stored' /\ \E l \in tx[v].add : l[2] = z
                          /\ file[tx[v].new[z]] = z
                          /\ \A y \in Stored' : name'[y] # tx[v].new[z]
                          /\ \A u \in Process : z \notin Taken(tx'[u])
                                                /\ z \notin tx'[u].doomed
        BY <1>2, <1>3, <3>2 DEF NewOf
      <4>1. NewOf(v) /\ Apart(v, w)
        BY DEF WholeInv, NewInv
      <4>2. \A y \in DOMAIN t.new : z # y /\ tx[v].new[z] # t.new[y]
        BY <3>2, <4>1 DEF Apart, t
      <4>3. z \notin Stored'
        BY <1>5, <4>1, <4>2 DEF NewOf
      <4>4. \A y \in Stored' : name'[y] # tx[v].new[z]
        BY <1>5, <1>6, <4>1, <4>2 DEF NewOf
      <4>5. \A u \in Process : z \notin Taken(tx'[u]) /\ z \notin tx'[u].doomed
        BY <1>2, <1>7, <1>8, <4>1 DEF NewOf
      <4> QED
        BY <4>1, <4>3, <4>4, <4>5 DEF NewOf
    <3> QED
      BY <3>1, <3>2
  <2>4. ASSUME NEW v \in Process, NEW u \in Process PROVE Apart(v, u)'
    <3>1. CASE v = w \/ u = w
      BY <1>8, <3>1 DEF Apart
    <3>2. CASE v # w /\ u # w
      BY <1>2, <3>2 DEF WholeInv, NewInv, Apart
    <3> QED
      BY <3>1, <3>2
  <2> QED
    BY <2>1, <2>2, <2>3, <2>4 DEF NewInv
<1>12. ASSUME NEW v \in Process PROVE CutsOf(v)'
  <2>1. CASE v = w
    BY <1>2, <2>1, <1>8, RestingIs DEF CutsOf
  <2>2. CASE v # w
    <3> DEFINE u == tx[v]
    <3>1. CutsOf(v)
      BY DEF WholeInv
    <3>2. /\ tx'[v].stage = u.stage /\ tx'[v].add = u.add /\ tx'[v].cut = u.cut
          /\ tx'[v].taken = u.taken /\ tx'[v].doomed = u.doomed
          /\ tx'[v].dropped = u.dropped /\ Taken(tx'[v]) = Taken(u)
      BY <1>2, <1>7, <2>2
    <3>3. \A x \in DOMAIN t.new : x \notin Taken(u) /\ x \notin u.doomed
      BY <1>1 DEF NewOf, t
    <3>4. u.stage = "ready" => u.doomed \cap Stored' \subseteq u.dropped
      BY <1>5, <3>1, <3>3 DEF CutsOf
    <3>5. ASSUME u.stage \in {"drop", "ready"},
                 NEW x \in (Taken(u) \cap Stored') \ (raced' \cup u.doomed)
          PROVE  \E l \in (links' \ u.cut) \cup u.add : l[2] = x
      <4>1. x \in Stored \ t.dropped
        BY <1>5, <3>3, <3>5
      <4>2. x \notin raced /\ x \notin Taken(t)
        <5>1. x \notin raced /\ x \notin both
          BY <1>3, <3>5, <4>1
        <5> QED
          BY <2>2, <3>5, <5>1 DEF both
      <4>3. PICK l \in (links \ u.cut) \cup u.add : l[2] = x
        BY <3>1, <3>5, <4>1, <4>2 DEF CutsOf, LinksSeen
      <4>4. l \in links => l \notin t.cut
        BY <1>9, <3>5, <4>1, <4>2, <4>3
      <4> QED
        BY <1>3, <4>3, <4>4
    <3> HIDE DEF u
    <3>6. \A l \in u.cut \ u.taken : l[2] \in u.dropped
      BY <3>1 DEF CutsOf, u
    <3> QED
      BY <3>2, <3>4, <3>5, <3>6 DEF CutsOf, LinksSeen
  <2> QED
    BY <2>1, <2>2
<1> QED
  BY <1>10, <1>11, <1>12 DEF WholeInv

LEMMA WholeInit == Init => WholeInv
<1> SUFFICES ASSUME Init PROVE WholeInv
  OBVIOUS
<1>1. HandsInv /\ Stored = {} /\ \A w \in Process : tx[w] = Resting
  BY HandsInit DEF Init, Stored
<1>2. Taken(Resting) = {}
  BY RestingIs DEF Taken
<1>3. IsWhole
  BY <1>1 DEF IsWhole, FilesKept, NoOrphan
<1>4. NewInv
  <2>1. Celery \in Process
    BY DEF Process
  <2> QED
    BY <1>1, <2>1, RestingIs DEF NewInv, NamesApart, NewOf, Apart
<1>5. \A w \in Process : CutsOf(w)
  BY <1>1, <1>2, RestingIs DEF CutsOf
<1> QED
  BY <1>1, <1>3, <1>4, <1>5 DEF WholeInv

LEMMA WholeStep ==
  ASSUME Situations \subseteq Avoided, WholeInv, [Next]_vars
  PROVE  WholeInv'
<1>1. Typed /\ HandsInv'
  BY HandsStep DEF WholeInv, HandsInv
<1>2. Worker \subseteq Process /\ Celery \in Process
  BY DEF Process
<1>3. \A w \in Process : CutsOf(w) /\ InHandOf(w) /\ tx[w] \in Tx
  BY DEF WholeInv, HandsInv, Typed
<1>4. \A l \in links : l[2] \in Stored
  BY <1>1 DEF Typed, TypeOK
<1>5. Taken(Resting) = {}
  BY RestingIs DEF Taken
<1>6. ASSUME NEW w \in Process, tx' = tx, UNCHANGED <<name, links, file, raced, lost>>
      PROVE  WholeInv'
  <2>1. Alone(w)
    BY <1>1, <1>6 DEF Alone, Typed
  <2>2. CutsOf(w)'
    <3>1. Stored' = Stored
      BY <1>6, StoredIs
    <3> QED
      BY <1>3, <1>6, <3>1 DEF CutsOf, LinksSeen
  <2>3. Taken(tx'[w]) = Taken(tx[w])
    BY <1>6
  <2> QED
    BY <1>1, <1>6, <2>1, <2>2, <2>3, WholeQuiet
<1>7. ASSUME NEW w \in Worker, NEW r \in Row, NEW S \in SUBSET Attachment,
             SetAttachments(w, r, S)
      PROVE  WholeInv'
  <2>1. PICK had, gets \in SUBSET Link :
           /\ Alone(w) /\ tx[w] = Resting /\ tx'[w] = Assigning(had, gets)
           /\ \A l \in had \cup gets : l[2] \in Stored
    BY <1>1, <1>7, SetAttachmentsDoes
  <2>2. /\ tx'[w].cut = had /\ tx'[w].taken = had
        /\ tx'[w].dropped = {} /\ tx'[w].doomed = {} /\ DOMAIN tx'[w].new = {}
        /\ tx'[w].stage \in {"drop", "ready"} => had = {}
    BY <2>1, RestingIs DEF Assigning
  <2>3. \A x : x \in Taken(tx'[w]) => \E l \in had : l[2] = x
    BY <2>2 DEF Taken
  <2>4. CutsOf(w)'
    BY <2>2, <2>3 DEF CutsOf
  <2>5. UNCHANGED <<name, links, file, raced, lost>>
    BY <1>7 DEF SetAttachments
  <2> QED
    BY <1>1, <1>2, <2>1, <2>2, <2>3, <2>4, <2>5, RestingIs, WholeQuiet
<1>8. ASSUME NEW w \in Process, AttachmentsChanged(w) PROVE WholeInv'
  <2> DEFINE t == tx[w]
  <2>1. Alone(w) /\ tx'[w] = [t EXCEPT !.stage = "drop", !.doomed = Empty(t)]
    BY <1>1, <1>8, AttachmentsChangedDoes
  <2>2. t.stage = "look" /\ UNCHANGED <<name, links, file, raced, lost>>
    BY <1>8 DEF AttachmentsChanged
  <2>3. /\ tx'[w].stage = "drop" /\ tx'[w].doomed = Empty(t) /\ tx'[w].new = t.new
        /\ tx'[w].add = t.add /\ tx'[w].cut = t.cut /\ tx'[w].taken = t.taken
        /\ tx'[w].dropped = t.dropped
    BY <1>3, <2>1 DEF Tx
  <2>4. Taken(tx'[w]) = Taken(t) /\ Stored' = Stored
    BY <2>2, <2>3, StoredIs DEF Taken
  <2>5. CutsOf(w)'
    BY <1>3, <2>2, <2>3, <2>4 DEF CutsOf, LinksSeen, Empty
  <2>6. Empty(t) \subseteq Stored
    BY DEF Empty
  <2> QED
    BY <1>1, <2>1, <2>2, <2>3, <2>4, <2>5, <2>6, WholeQuiet
<1>9. ASSUME NEW w \in Worker, NEW r \in Row, NEW x \in Attachment,
             DeleteAttachment(w, r, x)
      PROVE  WholeInv'
  <2>1. /\ Alone(w) /\ tx[w] = Resting /\ x \in Stored
        /\ tx'[w] = [Resting EXCEPT !.stage = "drop", !.doomed = {x}, !.asked = {x}]
    BY <1>1, <1>9, DeleteAttachmentDoes
  <2>2. /\ tx'[w].stage = "drop" /\ tx'[w].cut = {} /\ tx'[w].taken = {}
        /\ tx'[w].dropped = {} /\ tx'[w].doomed = {x} /\ DOMAIN tx'[w].new = {}
    BY <2>1, RestingIs
  <2>3. Taken(tx'[w]) = {}
    BY <2>2 DEF Taken
  <2>4. CutsOf(w)'
    BY <2>2, <2>3 DEF CutsOf
  <2>5. UNCHANGED <<name, links, file, raced, lost>>
    BY <1>9 DEF DeleteAttachment
  <2> QED
    BY <1>1, <1>2, <2>1, <2>2, <2>3, <2>4, <2>5, RestingIs, WholeQuiet
<1>10. ASSUME NEW w \in Worker, NEW r \in Row, DeleteRow(w, r) PROVE WholeInv'
  <2>1. /\ Alone(w) /\ tx[w] = Resting
        /\ tx'[w] = [Resting EXCEPT !.stage = "ready", !.gone = {r},
                                    !.cut = {l \in links : l[1] = r}]
    BY <1>1, <1>10, DeleteRowDoes
  <2>2. {l \in links : l[1] = r} = {} /\ UNCHANGED <<name, links, file, raced, lost>>
    BY <1>10 DEF DeleteRow, Avoids, Situations
  <2>3. /\ tx'[w].cut = {} /\ tx'[w].taken = {} /\ tx'[w].dropped = {}
        /\ tx'[w].doomed = {} /\ DOMAIN tx'[w].new = {}
    BY <2>1, <2>2, RestingIs
  <2>4. Taken(tx'[w]) = {}
    BY <2>3 DEF Taken
  <2>5. CutsOf(w)'
    BY <2>3, <2>4 DEF CutsOf
  <2> QED
    BY <1>1, <1>2, <2>1, <2>2, <2>3, <2>4, <2>5, RestingIs, WholeQuiet
<1>11. ASSUME FindEmptyAttachments PROVE WholeInv'
  <2>1. /\ Alone(Celery) /\ tx[Celery] = Resting
        /\ tx'[Celery] = [Resting EXCEPT !.stage = "drop", !.doomed = Lingering]
    BY <1>1, <1>11, FindDoes
  <2>2. UNCHANGED <<name, links, file, raced, lost>>
    BY <1>11 DEF FindEmptyAttachments
  <2>3. /\ tx'[Celery].stage = "drop" /\ tx'[Celery].cut = {} /\ tx'[Celery].taken = {}
        /\ tx'[Celery].dropped = {} /\ tx'[Celery].doomed = Lingering
        /\ DOMAIN tx'[Celery].new = {}
    BY <2>1, RestingIs
  <2>4. Taken(tx'[Celery]) = {} /\ Lingering \subseteq Stored
    BY <2>3 DEF Taken, Lingering
  <2>5. CutsOf(Celery)'
    BY <2>3, <2>4 DEF CutsOf
  <2> QED
    BY <1>1, <1>2, <2>1, <2>2, <2>3, <2>4, <2>5, RestingIs, WholeQuiet
<1>12. ASSUME NEW w \in Process, RollBack(w) PROVE WholeInv'
  <2>1. Alone(w) /\ tx'[w] = Resting
    BY <1>1, <1>12, RollBackDoes
  <2>2. /\ UNCHANGED <<name, links, file, raced>>
        /\ lost' = lost \cup (tx[w].dropped \cap Stored)
    BY <1>12 DEF RollBack
  <2>3. CutsOf(w)'
    BY <1>5, <2>1, RestingIs DEF CutsOf
  <2> QED
    BY <1>1, <1>5, <2>1, <2>2, <2>3, RestingIs, WholeQuiet
<1>13. ASSUME NEW w \in Worker, NEW r \in Row, NEW x \in Attachment, NEW n \in Name,
              Upload(w, r, x, n)
       PROVE  WholeInv'
  BY <1>1, <1>13, WholeUpload
<1>14. ASSUME NEW w \in Process, Drop(w) \/ Commit(w) PROVE WholeInv'
  BY <1>1, <1>14, WholeDrop, WholeCommit
<1>15. ASSUME NEW w \in Worker, NEW r \in Row, CreateRow(w, r) PROVE WholeInv'
  BY <1>2, <1>6, <1>15 DEF CreateRow
<1>16. ASSUME NEW x \in Attachment, Age(x) PROVE WholeInv'
  BY <1>2, <1>6, <1>16 DEF Age
<1>17. CASE UNCHANGED vars
  BY <1>2, <1>6, <1>17 DEF vars
<1> QED
  BY <1>7, <1>8, <1>9, <1>10, <1>11, <1>12, <1>13, <1>14, <1>15, <1>16, <1>17
     DEF Next, Request, Progress

(* Every attachment has its own file and belongs to a row, however uploads,  *)
(* assignments, deletes and the periodic task overlap and fail, unless a     *)
(* request removed the file and failed, or two overlapping requests took the *)
(* attachment from its last rows: as long as no upload takes a name in use,  *)
(* and no row is deleted while it has attachments.                           *)
THEOREM IsWholeCorrect ==
  ASSUME Situations \subseteq Avoided
  PROVE  Spec => []IsWhole
<1>1. WholeInv /\ [Next]_vars => WholeInv'
  BY WholeStep
<1>2. WholeInv => IsWhole
  BY DEF WholeInv
<1> QED
  BY <1>1, <1>2, WholeInit, PTL DEF Spec

================================================================================
