---------------------------- MODULE RollUpProofs ----------------------------
(* Theorems about RollUp, for any set of rows, of values and of fringes:   *)
(* what its variables hold, and that the roll-up leaves no figure stale as *)
(* long as requests avoid the situations of Situations.                    *)
(*                                                                         *)
(* The argument: Done says that every row that is not Pending would be     *)
(* saved with the figures an estimation gives it.  A request breaks this   *)
(* only for rows above the sub-accounts it hands to the routine, which are *)
(* pending; a pass of the routine estimates the pending rows of one level, *)
(* from figures that Fresh says will be saved, and leaves pending only the *)
(* rows above them; at the save nothing is pending.                        *)
EXTENDS RollUp, TLAPS

(* What a job holds, field by field.                                       *)
LEMMA BeginShape ==
  ASSUME NEW S, NEW dying
  PROVE  /\ DOMAIN Begin(S, dying) = DOMAIN NoJob
         /\ Begin(S, dying).stage = "estimate"
         /\ Begin(S, dying).todo = S
         /\ Begin(S, dying).alias = {}
         /\ Begin(S, dying).unsaved = Unwritten
         /\ Begin(S, dying).tree = Unwritten
         /\ Begin(S, dying).gone = {}
         /\ Begin(S, dying).dying = dying
BY DEF Begin, NoJob

LEMMA UnwrittenEmpty == DOMAIN Unwritten = {}
BY DEF Unwritten

LEMMA BeginAtShape ==
  ASSUME NEW n, NEW gone
  PROVE  /\ DOMAIN BeginAt(n, gone) = DOMAIN NoJob
         /\ BeginAt(n, gone).stage = "estimate"
         /\ BeginAt(n, gone).todo = (IF n \in Subs THEN {n} ELSE {})
         /\ BeginAt(n, gone).alias = {}
         /\ BeginAt(n, gone).unsaved = Unwritten
BY DEF BeginAt, NoJob

LEMMA BeginAtTree ==
  ASSUME NEW n, NEW gone
  PROVE  /\ n \in Subs => DOMAIN BeginAt(n, gone).tree = {}
         /\ n \notin Subs => DOMAIN BeginAt(n, gone).tree = {n}
         /\ n \notin Subs => BeginAt(n, gone).tree[n] = rec[n]
<1>1. CASE n \in Subs
  BY <1>1, UnwrittenEmpty DEF BeginAt, NoJob
<1>2. CASE n \notin Subs
  <2>1. BeginAt(n, gone) = [stage |-> "estimate", todo |-> {}, alias |-> {},
                            unsaved |-> Unwritten, tree |-> [m \in {n} |-> rec[m]],
                            gone |-> gone, dying |-> {}]
    BY <1>2 DEF BeginAt, NoJob
  <2> QED
    BY <1>2, <2>1
<1> QED
  BY <1>1, <1>2

LEMMA BeginAtGone ==
  ASSUME NEW n, NEW gone
  PROVE  BeginAt(n, gone).gone = gone /\ BeginAt(n, gone).dying = {}
BY DEF BeginAt, NoJob

LEMMA NoJobShape ==
  /\ NoJob.stage = "idle"
  /\ NoJob.todo = {} /\ NoJob.alias = {}
  /\ NoJob.unsaved = Unwritten /\ NoJob.tree = Unwritten
  /\ NoJob.gone = {} /\ NoJob.dying = {}
BY DEF NoJob

-----------------------------------------------------------------------------
(* Rows below a set of rows.                                               *)

LEMMA BelowItself ==
  ASSUME NEW up, NEW S
  PROVE  S \subseteq Below(up, S) /\ Below(up, S) \subseteq S \cup Subs
BY DEF Below

(* What hangs from a row below S is below S.                               *)
LEMMA BelowDown ==
  ASSUME NEW up, NEW S, NEW c \in Subs, up[c] \in Below(up, S)
  PROVE  c \in Below(up, S)
<1>1. ASSUME NEW K \in SUBSET Subs, \A d \in Subs : up[d] \in K \cup S => d \in K
      PROVE  c \in K
  BY <1>1 DEF Below
<1> QED
  BY <1>1 DEF Below

(* What is below S without being in S hangs from a row below S.            *)
LEMMA BelowUp ==
  ASSUME NEW up, NEW S, NEW d \in Below(up, S), d \notin S
  PROVE  d \in Subs /\ up[d] \in Below(up, S)
<1> DEFINE K == {c \in Subs : c \in Below(up, S) /\ up[c] \in Below(up, S)}
<1>1. \A c \in Subs : up[c] \in K \cup S => c \in K
  BY BelowDown, BelowItself
<1>2. K \in SUBSET Subs
  OBVIOUS
<1>3. d \in Subs /\ (\A L \in SUBSET Subs :
                     (\A c \in Subs : up[c] \in L \cup S => c \in L) => d \in L)
  BY DEF Below
<1>4. d \in K
  BY <1>1, <1>2, <1>3
<1> QED
  BY <1>4

-----------------------------------------------------------------------------
(* The shape of the rows and of the job, whatever requests may do.         *)

Structure == TypeOK /\ TreeShape

LEMMA RowFacts ==
  ASSUME RowsOK
  PROVE  /\ None \notin Subs /\ None \notin Accounts /\ Budget \notin Subs
         /\ Subs \cap Accounts = {} /\ Budget \notin Accounts
         /\ Existing \subseteq Nodes
         /\ live \subseteq Accounts
BY TreeAssumption DEF RowsOK, Existing, Nodes, Parents

(* Nothing is below itself: rows below S, which hang from q, are on lower  *)
(* levels than q.                                                          *)
LEMMA ParentNotBelow ==
  ASSUME RowsOK, TreeShape, NEW q \in Parents, NEW S \in SUBSET Subs,
         \A s \in S : parent[s] = q
  PROVE  q \notin Cascade(S)
<1>1. CASE q \in Accounts
  BY <1>1, RowFacts, BelowItself DEF Cascade
<1>2. CASE q \in Subs
  <2> DEFINE K == {c \in Subs : parent[c] # None /\ level[c] > level[q]}
  <2>1. q \notin S /\ q \notin K
    BY <1>2, RowFacts DEF RowsOK, TreeShape
  <2>2. ASSUME NEW c \in Subs, parent[c] \in K \cup S
        PROVE  c \in K
    <3>1. parent[c] \in Subs /\ parent[c] # None
      BY <2>2, RowFacts
    <3>2. level[c] = level[parent[c]] + 1
      BY <3>1 DEF TreeShape
    <3>3. level[parent[c]] >= level[q]
      <4>1. CASE parent[c] \in K
        BY <4>1, <1>2, <3>1 DEF RowsOK
      <4>2. CASE parent[c] \in S
        <5>1. level[parent[c]] = level[q] + 1
          BY <4>2, <1>2, RowFacts, <3>1 DEF TreeShape
        <5> QED
          BY <5>1, <1>2, <3>1 DEF RowsOK
      <4> QED
        BY <2>2, <4>1, <4>2
    <3> QED
      BY <1>2, <3>1, <3>2, <3>3 DEF RowsOK
  <2>3. K \in SUBSET Subs
    OBVIOUS
  <2> QED
    BY <1>2, <2>1, <2>2, <2>3 DEF Cascade, Below
<1> QED
  BY <1>1, <1>2 DEF Parents

(* Creating rows under an existing one keeps the tree a tree.              *)
LEMMA RowsAdded ==
  ASSUME RowsOK, TreeShape, NEW q, NEW S, NEW value \in [S -> Raws],
         AddRows(q, S, value)
  PROVE  RowsOK' /\ TreeShape'
<1> USE DEF AddRows
<1>1. q \in Parents /\ q # None /\ S \subseteq Subs /\ q \notin S
  BY RowFacts DEF Existing, Parents
<1>2. RowsOK'
  <2>1. parent' \in [Subs -> Parents \cup {None}]
    BY <1>1 DEF RowsOK
  <2>2. level' \in [Subs -> Nat]
    BY <1>1 DEF RowsOK
  <2>3. raw' \in [Subs -> Raws]
    BY <1>1 DEF RowsOK
  <2> QED
    BY <2>1, <2>2, <2>3 DEF RowsOK
<1>3. ASSUME NEW s \in Subs, parent'[s] # None
      PROVE  /\ parent'[s] \in live' \/ (parent'[s] \in Subs /\ parent'[parent'[s]] # None)
             /\ level'[s] = IF parent'[s] \in Subs THEN level'[parent'[s]] + 1 ELSE 0
  <2>1. CASE s \in S
    BY <1>1, <2>1, RowFacts DEF Existing, RowsOK
  <2>2. CASE s \notin S
    <3>1. parent'[s] = parent[s] /\ level'[s] = level[s]
      BY <2>2
    <3>2. parent[s] \notin S
      BY <1>3, <3>1, RowFacts DEF TreeShape, RowsOK
    <3> QED
      BY <1>3, <3>1, <3>2 DEF TreeShape
  <2> QED
    BY <2>1, <2>2
<1>4. ASSUME NEW s \in Subs, parent'[s] = None
      PROVE  raw'[s] = 0 /\ fringed'[s] = {} /\ rec'[s] = Zero
  <2>1. s \notin S /\ parent[s] = None
    BY <1>1, <1>4
  <2> QED
    BY <2>1 DEF TreeShape
<1> QED
  BY <1>2, <1>3, <1>4 DEF TreeShape

(* So does deleting rows with all that is below them.                      *)
LEMMA RowsRemoved ==
  ASSUME RowsOK, TreeShape, NEW S \in SUBSET Parents, NEW dying,
         RemoveRows(Cascade(S), dying),
         DOMAIN rec' = Nodes,
         \A n \in Nodes : n \in Cascade(S) \/ n \notin Existing => rec'[n] = Zero
  PROVE  RowsOK' /\ TreeShape'
<1> DEFINE G == Cascade(S)
<1> USE DEF RemoveRows
<1>1. RowsOK'
  <2>1. raw' \in [Subs -> Raws]
    BY TreeAssumption DEF RowsOK
  <2>2. fringed' \in [Subs -> SUBSET Fringes]
    BY DEF RowsOK
  <2>3. parent' \in [Subs -> Parents \cup {None}] /\ level' \in [Subs -> Nat]
    BY DEF RowsOK
  <2> QED
    BY <2>1, <2>2, <2>3 DEF RowsOK
<1>2. ASSUME NEW s \in Subs, parent'[s] # None
      PROVE  /\ parent'[s] \in live' \/ (parent'[s] \in Subs /\ parent'[parent'[s]] # None)
             /\ level'[s] = IF parent'[s] \in Subs THEN level'[parent'[s]] + 1 ELSE 0
  <2>1. s \notin G /\ parent'[s] = parent[s] /\ level'[s] = level[s]
    BY <1>2
  <2>2. parent[s] \notin G
    BY <2>1, BelowDown DEF Cascade
  <2> QED
    BY <1>2, <2>1, <2>2 DEF TreeShape
<1>3. ASSUME NEW s \in Subs, parent'[s] = None
      PROVE  raw'[s] = 0 /\ fringed'[s] = {} /\ rec'[s] = Zero
  <2>1. s \in Nodes /\ (s \in G \/ parent[s] = None)
    BY <1>3 DEF Nodes, Parents
  <2>2. s \in G \/ s \notin Existing
    BY <2>1, RowFacts DEF Existing
  <2> QED
    BY <2>1, <2>2 DEF TreeShape
<1>4. ASSUME NEW a \in Accounts \ live'
      PROVE  rec'[a] = Zero
  BY RowFacts DEF Existing, Nodes, Parents
<1> QED
  BY <1>1, <1>2, <1>3, <1>4 DEF TreeShape

LEMMA IdleJobOK ==
  ASSUME job' = NoJob
  PROVE  JobOK'
BY NoJobShape, UnwrittenEmpty DEF JobOK

LEMMA BeginJobOK ==
  ASSUME NEW S \in SUBSET {s \in Subs : parent'[s] # None},
         NEW dying \in SUBSET Fringes,
         job' = Begin(S, dying)
  PROVE  JobOK'
BY BeginShape, UnwrittenEmpty DEF JobOK

LEMMA BeginAtJobOK ==
  ASSUME RowsOK', NEW n \in Existing', NEW gone \in SUBSET Parents,
         job' = BeginAt(n, gone)
  PROVE  JobOK'
<1>1. n \in Subs => parent'[n] # None
  BY TreeAssumption DEF Existing, RowsOK, Parents
<1>2. job'.gone \subseteq Parents /\ job'.dying \subseteq Fringes
  BY BeginAtGone
<1>3. DOMAIN job'.tree \subseteq Existing'
  BY BeginAtTree
<1>4. /\ DOMAIN job' = DOMAIN NoJob /\ job'.stage = "estimate"
      /\ job'.alias = {} /\ DOMAIN job'.unsaved = {}
  BY BeginAtShape, UnwrittenEmpty
<1>5. job'.todo \subseteq {s \in Subs : parent'[s] # None}
  BY <1>1, BeginAtShape
<1> QED
  BY <1>2, <1>3, <1>4, <1>5 DEF JobOK

(* No step of any request or of the routine breaks the shape.              *)
LEMMA StructureStep ==
  ASSUME Structure, [Next]_vars
  PROVE  Structure'
<1> USE DEF Structure, TypeOK
<1>1. ASSUME NEW q \in Parents, NEW s \in Subs, NEW v \in Raws,
             CreateSubAccount(q, s, v)
      PROVE  Structure'
  <2>1. RowsOK' /\ TreeShape'
    BY <1>1, RowsAdded DEF CreateSubAccount
  <2>2. parent'[s] # None
    BY <1>1, RowFacts DEF CreateSubAccount, AddRows, Existing, Parents
  <2>3. CASE v # 0
    <3>1. job' = Begin({s}, {})
      BY <1>1, <2>3 DEF CreateSubAccount
    <3> QED
      BY <2>1, <2>2, <3>1, BeginJobOK
  <2>4. CASE v = 0
    BY <1>1, <2>1, <2>4, IdleJobOK DEF CreateSubAccount
  <2> QED
    BY <2>3, <2>4
<1>2. ASSUME NEW q \in Parents, NEW S \in SUBSET Subs, NEW value \in [S -> Raws],
             BulkAdd(q, S, value)
      PROVE  Structure'
  <2> DEFINE valued == {s \in S : value[s] # 0}
  <2>1. RowsOK' /\ TreeShape'
    BY <1>2, RowsAdded DEF BulkAdd
  <2>2. valued \in SUBSET {s \in Subs : parent'[s] # None}
    BY <1>2, RowFacts DEF BulkAdd, AddRows, Existing, Parents
  <2>3. CASE valued # {}
    <3>1. job' = Begin(valued, {})
      BY <1>2, <2>3 DEF BulkAdd
    <3> HIDE DEF valued
    <3> QED
      BY <2>1, <2>2, <3>1, BeginJobOK
  <2>4. CASE valued = {}
    BY <1>2, <2>1, <2>4, IdleJobOK DEF BulkAdd
  <2> QED
    BY <2>3, <2>4
<1>3. ASSUME NEW s \in Subs, NEW v \in Raws, UpdateSubAccount(s, v)
      PROVE  Structure'
  <2>1. RowsOK' /\ TreeShape'
    BY <1>3 DEF UpdateSubAccount, RowsOK, TreeShape
  <2>2. CASE Children(s) = {}
    BY <1>3, <2>1, <2>2, BeginJobOK DEF UpdateSubAccount
  <2>3. CASE Children(s) # {}
    BY <1>3, <2>1, <2>3, IdleJobOK DEF UpdateSubAccount
  <2> QED
    BY <2>2, <2>3
<1>4. ASSUME NEW q \in Parents, NEW S \in SUBSET Subs, NEW value \in [S -> Raws],
             BulkSave(q, S, value)
      PROVE  Structure'
  <2> DEFINE changed == {s \in S : Children(s) = {} /\ value[s] # raw[s]}
  <2>1. RowsOK'
    BY <1>4 DEF BulkSave, RowsOK
  <2>2. TreeShape'
    BY <1>4, <2>1 DEF BulkSave, RowsOK, TreeShape
  <2>3. changed \in SUBSET {s \in Subs : parent'[s] # None}
    BY <1>4 DEF BulkSave
  <2>4. CASE changed # {}
    <3>1. job' = Begin(changed, {})
      BY <1>4, <2>4 DEF BulkSave
    <3> HIDE DEF changed
    <3> QED
      BY <2>1, <2>2, <2>3, <3>1, BeginJobOK
  <2>5. CASE changed = {}
    BY <1>4, <2>1, <2>2, <2>5, IdleJobOK DEF BulkSave
  <2> QED
    BY <2>4, <2>5
<1>5. ASSUME NEW s \in Subs, DeleteSubAccount(s)
      PROVE  Structure'
  <2>1. RowsOK' /\ TreeShape'
    BY <1>5 DEF DeleteSubAccount, rows, RowsOK, TreeShape
  <2>2. parent[s] \in Existing'
    BY <1>5 DEF DeleteSubAccount, rows, TreeShape, Existing
  <2>3. {s} \in SUBSET Parents
    BY DEF Parents
  <2> QED
    BY <1>5, <2>1, <2>2, <2>3, BeginAtJobOK DEF DeleteSubAccount
<1>6. ASSUME NEW q \in Parents, NEW S \in SUBSET Subs, BulkDelete(q, S)
      PROVE  Structure'
  <2>1. \A n \in Nodes : n \in Cascade(S) \/ n \notin Existing => rec'[n] = Zero
    BY <1>6 DEF BulkDelete, TreeShape, Existing, Nodes, Parents
  <2>2. RowsOK' /\ TreeShape'
    <3>1. S \in SUBSET Parents /\ DOMAIN rec' = Nodes /\ RemoveRows(Cascade(S), {})
      BY <1>6 DEF BulkDelete, Parents
    <3> QED
      BY <2>1, <3>1, RowsRemoved
  <2>3. q \notin Cascade(S)
    BY <1>6, ParentNotBelow DEF BulkDelete
  <2>4. q \in Existing'
    <3>1. PICK s \in Subs : parent[s] = q /\ q # None
      BY <1>6 DEF BulkDelete
    <3>2. q \in live \/ (q \in Subs /\ parent[q] # None)
      BY <3>1 DEF TreeShape
    <3>3. q \in Existing
      BY <3>2 DEF Existing
    <3> QED
      BY <1>6, <2>3, <3>3, RowFacts DEF BulkDelete, RemoveRows, Existing, Parents
  <2>5. CASE \E s \in S : raw[s] # 0
    <3>1. job' = BeginAt(q, {})
      BY <1>6, <2>5 DEF BulkDelete
    <3> QED
      BY <2>2, <2>4, <3>1, BeginAtJobOK
  <2>6. CASE ~\E s \in S : raw[s] # 0
    BY <1>6, <2>2, <2>6, IdleJobOK DEF BulkDelete
  <2> QED
    BY <2>5, <2>6
<1>7. ASSUME NEW a \in Accounts, CreateAccount(a)
      PROVE  Structure'
  <2>1. RowsOK' /\ TreeShape'
    BY <1>7 DEF CreateAccount, RowsOK, TreeShape
  <2>2. a \in Existing'
    BY <1>7 DEF CreateAccount, Existing
  <2> QED
    BY <1>7, <2>1, <2>2, BeginAtJobOK DEF CreateAccount
<1>8. ASSUME NEW a \in Accounts, DeleteAccount(a)
      PROVE  Structure'
  <2>1. RowsOK' /\ TreeShape'
    BY <1>8 DEF DeleteAccount, rows, RowsOK, TreeShape
  <2>2. Budget \in Existing' /\ {a} \in SUBSET Parents
    BY DEF Existing, Parents
  <2> QED
    BY <1>8, <2>1, <2>2, BeginAtJobOK DEF DeleteAccount
<1>9. ASSUME NEW S \in SUBSET Accounts, BulkDeleteAccounts(S)
      PROVE  Structure'
  <2>1. \A n \in Nodes : n \in Cascade(S) \/ n \notin Existing => rec'[n] = Zero
    BY <1>9 DEF BulkDeleteAccounts, TreeShape, Existing, Nodes, Parents
  <2>2. RowsOK' /\ TreeShape'
    <3>1. S \in SUBSET Parents /\ DOMAIN rec' = Nodes /\ RemoveRows(Cascade(S), {})
      BY <1>9 DEF BulkDeleteAccounts, Parents
    <3> QED
      BY <2>1, <3>1, RowsRemoved
  <2>3. Budget \in Existing'
    BY DEF Existing
  <2> QED
    BY <1>9, <2>2, <2>3, BeginAtJobOK DEF BulkDeleteAccounts
<1>10. ASSUME NEW s \in Subs, NEW fs \in SUBSET Fringes, FringesChanged(s, fs)
       PROVE  Structure'
  <2>1. RowsOK' /\ TreeShape'
    BY <1>10 DEF FringesChanged, RowsOK, TreeShape
  <2> QED
    BY <1>10, <2>1, BeginJobOK DEF FringesChanged
<1>11. ASSUME NEW F \in SUBSET Fringes, NEW saying \in [F -> Terms],
              SaveFringes(F, saying)
       PROVE  Structure'
  <2>1. RowsOK' /\ TreeShape'
    BY <1>11 DEF SaveFringes, RowsOK, TreeShape
  <2>2. Bearing(F) \in SUBSET {s \in Subs : parent'[s] # None}
    BY <1>11 DEF SaveFringes, Bearing, TreeShape
  <2>3. CASE Bearing(F) # {}
    <3>1. job' = Begin(Bearing(F), {})
      BY <1>11, <2>3 DEF SaveFringes
    <3> QED
      BY <2>1, <2>2, <3>1, BeginJobOK
  <2>4. CASE Bearing(F) = {}
    BY <1>11, <2>1, <2>4, IdleJobOK DEF SaveFringes
  <2> QED
    BY <2>3, <2>4
<1>12. ASSUME NEW F \in SUBSET Fringes, DeleteFringes(F)
       PROVE  Structure'
  <2>1. RowsOK' /\ TreeShape'
    BY <1>12 DEF DeleteFringes, rows, RowsOK, TreeShape
  <2>2. Bearing(F) \in SUBSET {s \in Subs : parent'[s] # None}
    BY <1>12 DEF DeleteFringes, rows, Bearing, TreeShape
  <2> QED
    BY <1>12, <2>1, <2>2, BeginJobOK DEF DeleteFringes
<1>13. CASE EstimateSubAccounts
  <2>1. RowsOK' /\ TreeShape' /\ Existing' = Existing
    BY <1>13 DEF EstimateSubAccounts, rows, RowsOK, TreeShape, Existing
  <2>2. ParentsOf(job.todo) \subseteq Existing /\ job.todo \subseteq Existing
    BY DEF ParentsOf, JobOK, TreeShape, Existing
  <2>3. DOMAIN job' = DOMAIN NoJob /\ job'.stage = job.stage
        /\ job'.gone = job.gone /\ job'.dying = job.dying
    BY <1>13 DEF EstimateSubAccounts, JobOK, NoJob
  <2>4. job'.todo = (ParentsOf(job.todo) \cap Subs) \ job.todo
        /\ job'.alias = job'.todo \ DOMAIN job.tree
    BY <1>13 DEF EstimateSubAccounts, JobOK, NoJob
  <2>5. DOMAIN job'.tree = DOMAIN job.tree \cup job.todo \cup ParentsOf(job.todo)
        /\ DOMAIN job'.unsaved = Highest(job.todo)
    BY <1>13 DEF EstimateSubAccounts, JobOK, NoJob
  <2>6. job'.todo \subseteq {s \in Subs : parent'[s] # None}
    BY <1>13, <2>2, <2>4, RowFacts DEF Existing, EstimateSubAccounts, rows
  <2> QED
    BY <2>1, <2>2, <2>3, <2>4, <2>5, <2>6 DEF JobOK, Highest
<1>14. CASE EstimateAccounts
  <2>1. RowsOK' /\ TreeShape' /\ Existing' = Existing /\ parent' = parent
    BY <1>14 DEF EstimateAccounts, rows, RowsOK, TreeShape, Existing
  <2>2. DOMAIN job' = DOMAIN NoJob /\ job'.stage = "save" /\ job'.todo = job.todo
        /\ job'.gone = job.gone /\ job'.dying = job.dying
        /\ job'.alias = job.alias /\ job'.unsaved = job.unsaved
    BY <1>14 DEF EstimateAccounts, JobOK, NoJob
  <2>3. DOMAIN job'.tree \subseteq DOMAIN job.tree \cup {Budget}
    BY <1>14 DEF EstimateAccounts, JobOK, NoJob
  <2>4. Budget \in Existing
    BY DEF Existing
  <2> QED
    BY <2>1, <2>2, <2>3, <2>4 DEF JobOK
<1>15. CASE Save
  <2>1. \A n \in Nodes : n \in Cascade(job.gone) \/ n \notin Existing => rec'[n] = Zero
    BY <1>15 DEF Save, TreeShape, JobOK, Existing, Nodes, Parents
  <2>2. RowsOK' /\ TreeShape'
    <3>1. job.gone \in SUBSET Parents /\ DOMAIN rec' = Nodes
          /\ RemoveRows(Cascade(job.gone), job.dying)
      BY <1>15 DEF Save, JobOK
    <3> QED
      BY <2>1, <3>1, RowsRemoved
  <2> QED
    BY <1>15, <2>2, IdleJobOK DEF Save
<1>16. CASE UNCHANGED vars
  BY <1>16 DEF vars, RowsOK, JobOK, TreeShape, Existing
<1> QED
  BY <1>1, <1>2, <1>3, <1>4, <1>5, <1>6, <1>7, <1>8, <1>9, <1>10, <1>11, <1>12,
     <1>13, <1>14, <1>15, <1>16 DEF Next, Request, Routine

LEMMA StructureInit ==
  ASSUME Init
  PROVE  Structure
<1>1. RowsOK
  BY TreeAssumption DEF Init, RowsOK
<1>2. JobOK
  BY NoJobShape, UnwrittenEmpty DEF Init, JobOK
<1>3. TreeShape
  BY DEF Init, TreeShape, Nodes, Parents
<1> QED
  BY <1>1, <1>2, <1>3 DEF Structure, TypeOK

(* Rows and job keep their shape and the rows remain a tree, whatever      *)
(* requests are made: the situations that leave figures stale included.    *)
THEOREM StructureCorrect == Spec => []Structure
<1>1. Init => Structure
  BY StructureInit
<1>2. Structure /\ [Next]_vars => Structure'
  BY StructureStep
<1> QED
  BY <1>1, <1>2, PTL DEF Spec

(* Type correctness of the roll-up.                                        *)
THEOREM TypeCorrect == Spec => []TypeOK
<1>1. Structure => TypeOK
  BY DEF Structure
<1> QED
  BY <1>1, StructureCorrect, PTL

-----------------------------------------------------------------------------
(* Arithmetic.                                                             *)

(* Totals agree when the entries they do not share are zero.               *)
LEMMA TotalSame ==
  ASSUME NEW f, NEW g,
         \A x \in DOMAIN f \cap DOMAIN g : f[x] = g[x],
         \A x \in DOMAIN f \ DOMAIN g : f[x] = 0,
         \A x \in DOMAIN g \ DOMAIN f : g[x] = 0
  PROVE  Total(f) = Total(g)
<1>1. Counting(f) = Counting(g)
  BY DEF Counting
<1> QED
  BY <1>1 DEF Total

LEMMA TotalZero ==
  ASSUME NEW f, \A x \in DOMAIN f : f[x] = 0
  PROVE  Total(f) = 0
BY DEF Total, Counting

(* Fringes contribute the same as long as those counted say the same.      *)
LEMMA ContributionSame ==
  ASSUME NEW fs, NEW t, NEW u, NEW value, \A f \in fs : t[f] = u[f]
  PROVE  ContributionFromFringes(value, fs, t) = ContributionFromFringes(value, fs, u)
<1> DEFINE share(w) == [f \in {g \in fs : w[g].rate # None /\ w[g].unit # None} |->
                          FringeShare(w[f], value)]
<1>1. share(t) = share(u)
  OBVIOUS
<1> QED
  BY <1>1 DEF ContributionFromFringes

LEMMA NoContribution ==
  ASSUME NEW t, NEW value
  PROVE  ContributionFromFringes(value, {}, t) = 0
<1> DEFINE f == [g \in {h \in {} : t[h].rate # None /\ t[h].unit # None} |->
                    FringeShare(t[g], value)]
<1>1. DOMAIN f = {}
  OBVIOUS
<1>2. Total(f) = 0
  BY <1>1, TotalZero
<1> QED
  BY <1>2 DEF ContributionFromFringes

-----------------------------------------------------------------------------
(* Estimation before and after a step.                                     *)

(* What a child counts for, by nominal value and by fringes, and what the  *)
(* row's own fringes are.                                                  *)
Counts(c, val) == NominalValue(c, val[c].accumulated)
Brings(c, val) == val[c].fringe + val[c].accumulatedFringe
Effective(n, dying) == [f \in fringed[n] \ dying |-> terms[f]]

LEMMA EffectiveSame ==
  ASSUME NEW n, NEW d, NEW e, Effective(n, d) = Effective(n, e)', NEW x
  PROVE  ContributionFromFringes(x, fringed[n] \ d, terms)
           = ContributionFromFringes(x, fringed'[n] \ e, terms')
<1>1. /\ fringed[n] \ d = fringed'[n] \ e
      /\ \A f \in fringed[n] \ d : terms[f] = terms'[f]
  BY DEF Effective
<1> QED
  BY <1>1, ContributionSame

(* What a row is estimated to is a matter of what its children count for   *)
(* and, for one without children, of what it counts for itself.            *)
LEMMA EstimateKept ==
  ASSUME NEW n, NEW C, NEW D, NEW val, NEW wal, NEW d, NEW e,
         \A c \in C \cap D : Counts(c, val) = Counts(c, wal)'
                              /\ Brings(c, val) = Brings(c, wal),
         \A c \in C \ D : Counts(c, val) = 0 /\ Brings(c, val) = 0,
         \A c \in D \ C : Counts(c, wal)' = 0 /\ Brings(c, wal) = 0,
         n \in Subs => (C = {} <=> D = {}),
         n \in Subs /\ C = {} =>
           /\ NominalValue(n, 0) = NominalValue(n, 0)'
           /\ Effective(n, d) = Effective(n, e)'
  PROVE  Estimate(n, C, val, d) = Estimate(n, D, wal, e)'
<1>1. Total(Nominals(C, val)) = Total(Nominals(D, wal)')
  <2> DEFINE f == Nominals(C, val)
             g == Nominals(D, wal)'
  <2>1. /\ DOMAIN f = C /\ DOMAIN g = D
        /\ \A c \in C : f[c] = Counts(c, val)
        /\ \A c \in D : g[c] = Counts(c, wal)'
    BY DEF Nominals, Counts
  <2> HIDE DEF f, g
  <2>2. Total(f) = Total(g)
    BY <2>1, TotalSame
  <2> QED
    BY <2>2 DEF f, g
<1>2. Total(FromFringes(C, val)) = Total(FromFringes(D, wal))
  <2> DEFINE f == FromFringes(C, val)
             g == FromFringes(D, wal)
  <2>1. /\ DOMAIN f = C /\ DOMAIN g = D
        /\ \A c \in C : f[c] = Brings(c, val)
        /\ \A c \in D : g[c] = Brings(c, wal)
    BY DEF FromFringes, Brings
  <2> HIDE DEF f, g
  <2>2. Total(f) = Total(g)
    BY <2>1, TotalSame
  <2> QED
    BY <2>2 DEF f, g
<1>3. OwnFringes(n, C, val, d) = OwnFringes(n, D, wal, e)'
  <2>1. CASE n \in Subs /\ C = {}
    <3>1. Total(Nominals(C, val)) = 0
      BY <2>1, TotalZero DEF Nominals
    <3>2. \A x : ContributionFromFringes(x, fringed[n] \ d, terms)
                   = ContributionFromFringes(x, fringed'[n] \ e, terms')
      BY <2>1, EffectiveSame
    <3> QED
      BY <1>1, <1>2, <2>1, <3>1, <3>2 DEF OwnFringes
  <2>2. CASE ~(n \in Subs /\ C = {})
    BY <2>2 DEF OwnFringes
  <2> QED
    BY <2>1, <2>2
<1> QED
  BY <1>1, <1>2, <1>3 DEF Estimate, Figures

LEMMA CountsKept ==
  ASSUME NEW c, NEW val, NEW wal, val[c] = wal[c],
         c \in Subs => /\ Children(c) = {} <=> Children(c)' = {}
                       /\ Children(c) = {} => raw'[c] = raw[c]
  PROVE  Counts(c, val) = Counts(c, wal)' /\ Brings(c, val) = Brings(c, wal)
BY DEF NominalValue, Counts, Brings

(* The same children, which count for the same.                            *)
LEMMA RowKept ==
  ASSUME NEW n, NEW C, NEW D, C = D, NEW val, NEW wal, NEW d, NEW e,
         \A c \in C : Counts(c, val) = Counts(c, wal)' /\ Brings(c, val) = Brings(c, wal),
         n \in Subs /\ C = {} =>
           NominalValue(n, 0) = NominalValue(n, 0)' /\ Effective(n, d) = Effective(n, e)'
  PROVE  Estimate(n, C, val, d) = Estimate(n, D, wal, e)'
BY EstimateKept

-----------------------------------------------------------------------------
(* The invariant, and what it says while no routine is under way.          *)

RollUpInv == PassShape /\ GoneShape /\ Fresh /\ Done

LEMMA BelowNothing ==
  ASSUME NEW up
  PROVE  Below(up, {}) = {}
<1>1. \A c \in Subs : up[c] \in {} \cup {} => c \in {}
  OBVIOUS
<1> QED
  BY <1>1 DEF Below

LEMMA IdleFacts ==
  ASSUME Structure, RollUpInv, Idle
  PROVE  /\ job = NoJob
         /\ job.gone = {} /\ job.dying = {} /\ job.todo = {}
         /\ \A n \in Nodes : WillBe[n] = rec[n]
         /\ \A n \in Existing : WillBe[n] = Estimate(n, Children(n), WillBe, {})
<1>1. job = NoJob
  BY DEF RollUpInv, PassShape
<1>2. job.gone = {} /\ job.dying = {} /\ job.todo = {} /\ DOMAIN job.tree = {}
  BY <1>1, NoJobShape, UnwrittenEmpty
<1>3. \A n \in Nodes : WillBe[n] = rec[n]
  BY <1>2 DEF WillBe
<1>4. ASSUME NEW n \in Existing
      PROVE  WillBe[n] = Estimate(n, Children(n), WillBe, {})
  <2>1. n \notin Cascade(job.gone) /\ ~Pending(n)
    BY <1>2, BelowNothing DEF Cascade, Pending, Idle
  <2>2. Children(n) \ job.gone = Children(n)
    BY <1>2
  <2> QED
    BY <1>2, <2>1, <2>2 DEF RollUpInv, Done
<1> QED
  BY <1>1, <1>2, <1>3, <1>4

LEMMA ChildrenTyped ==
  ASSUME RowsOK, NEW n \in Nodes
  PROVE  Children(n) \subseteq Nodes /\ (n # Budget => Children(n) \subseteq Subs)
BY DEF Children, RowsOK, Nodes, Parents

(* What is not pending is neither handed to the routine nor one or two     *)
(* rows above something that is.                                           *)
LEMMA NotPending ==
  ASSUME NEW n \in Nodes, ~Pending(n)', job'.stage = "estimate", job'.todo \subseteq Subs
  PROVE  /\ n # Budget /\ n \notin job'.todo
         /\ \A t \in job'.todo :
              /\ parent'[t] # n
              /\ parent'[t] \in Subs => parent'[parent'[t]] # n
         /\ n \in Accounts => n \notin DOMAIN job'.tree
<1>1. n # Budget /\ job'.todo \cap Below(parent', {n}) = {}
      /\ (n \in Accounts => n \notin DOMAIN job'.tree)
  BY DEF Pending, Cascade
<1>2. n \in Below(parent', {n})
  BY BelowItself
<1>3. ASSUME NEW t \in Subs, parent'[t] = n
      PROVE  t \in Below(parent', {n})
  BY <1>2, <1>3, BelowDown
<1>4. ASSUME NEW t \in Subs, parent'[t] \in Subs, parent'[parent'[t]] = n
      PROVE  t \in Below(parent', {n})
  <2>1. parent'[t] \in Below(parent', {n})
    BY <1>3, <1>4
  <2> QED
    BY <2>1, BelowDown
<1> QED
  BY <1>1, <1>2, <1>3, <1>4

(* A routine that has just been set up fits the invariant.                 *)
LEMMA IdleShape ==
  ASSUME job' = NoJob
  PROVE  /\ PassShape' /\ GoneShape' /\ Fresh'
         /\ job'.stage = "idle" /\ job'.gone = {} /\ job'.dying = {}
         /\ \A n \in Nodes : WillBe'[n] = rec'[n]
BY NoJobShape, UnwrittenEmpty DEF PassShape, GoneShape, Fresh, WillBe, Idle, SameLevel

LEMMA BeginsFits ==
  ASSUME RowsOK', NEW S, S # {}, S \subseteq Subs, NEW dying,
         job' = Begin(S, dying), SameLevel(S)'
  PROVE  /\ PassShape' /\ GoneShape' /\ Fresh'
         /\ job'.stage = "estimate" /\ job'.gone = {} /\ job'.dying = dying
         /\ job'.todo = S
         /\ \A n \in Nodes : WillBe'[n] = rec'[n]
<1>1. /\ job'.stage = "estimate" /\ job'.gone = {} /\ job'.dying = dying
      /\ job'.todo = S /\ DOMAIN job'.tree = {} /\ DOMAIN job'.unsaved = {}
  BY BeginShape, UnwrittenEmpty
<1>2. \A n \in Nodes : WillBe'[n] = rec'[n] /\ Seen'[n] = rec'[n]
  BY <1>1 DEF WillBe, Seen
<1>3. PassShape'
  BY <1>1 DEF PassShape, Idle
<1>4. GoneShape'
  BY <1>1 DEF GoneShape
<1>5. Fresh'
  BY <1>1, <1>2 DEF Fresh, Children, Nodes, Parents, RowsOK
<1> QED
  BY <1>1, <1>2, <1>3, <1>4, <1>5

LEMMA BeginsAtFits ==
  ASSUME RowsOK', NEW n \in Nodes, NEW gone, job' = BeginAt(n, gone),
         rec'[n] = rec[n]
  PROVE  /\ PassShape' /\ Fresh'
         /\ job'.stage = "estimate" /\ job'.gone = gone /\ job'.dying = {}
         /\ job'.todo = (IF n \in Subs THEN {n} ELSE {})
         /\ n \notin Subs => n \in DOMAIN job'.tree
         /\ \A m \in Nodes : WillBe'[m] = rec'[m]
<1>1. /\ job'.stage = "estimate" /\ job'.gone = gone /\ job'.dying = {}
      /\ job'.todo = (IF n \in Subs THEN {n} ELSE {})
      /\ DOMAIN job'.unsaved = {}
  <2>1. job'.gone = gone /\ job'.dying = {}
    BY BeginAtGone
  <2> QED
    BY <2>1, BeginAtShape, UnwrittenEmpty
<1>2. /\ n \in Subs => DOMAIN job'.tree = {}
      /\ n \notin Subs => DOMAIN job'.tree = {n} /\ job'.tree[n] = rec[n]
  BY BeginAtTree
<1>3. \A m \in Nodes : WillBe'[m] = rec'[m] /\ Seen'[m] = rec'[m]
  BY <1>1, <1>2 DEF WillBe, Seen
<1>4. PassShape'
  BY <1>1, <1>2, TreeAssumption DEF PassShape, Idle, SameLevel, Nodes, Parents
<1>5. Fresh'
  BY <1>1, <1>2, <1>3 DEF Fresh, Children, Nodes, Parents, RowsOK
<1> QED
  BY <1>1, <1>2, <1>3, <1>4, <1>5

(* Without a delete in progress nothing is gone.                           *)
LEMMA NothingGone ==
  ASSUME job'.gone = {}
  PROVE  /\ GoneShape' /\ Cascade(job.gone)' = {}
         /\ \A n : (Children(n) \ job.gone)' = Children(n)'
BY BelowNothing DEF GoneShape, Cascade

-----------------------------------------------------------------------------
(* Requests.                                                               *)

(* Done, once nothing is gone and the figures are those of the database.   *)
LEMMA DoneFrom ==
  ASSUME job'.gone = {},
         \A n \in Existing' : \/ Pending(n)'
                              \/ WillBe'[n] = Estimate(n, Children(n), WillBe, job.dying)'
  PROVE  Done'
BY NothingGone DEF Done

(* A row that an edit leaves as it was, and so its children.               *)
LEMMA Untouched ==
  ASSUME Structure, RollUpInv, Idle, NEW n \in Existing,
         (Children(n) \ job.gone)' = Children(n),
         \A m \in Children(n) \cup {n} : WillBe'[m] = WillBe[m],
         \A c \in Children(n) : Counts(c, WillBe) = Counts(c, WillBe)',
         n \in Subs /\ Children(n) = {} =>
           NominalValue(n, 0) = NominalValue(n, 0)'
             /\ Effective(n, {}) = Effective(n, job.dying)'
  PROVE  WillBe'[n] = Estimate(n, Children(n) \ job.gone, WillBe, job.dying)'
<1>1. n \in Nodes /\ Children(n) \subseteq Nodes
  BY RowFacts, ChildrenTyped DEF Structure, TypeOK
<1>2. WillBe[n] = Estimate(n, Children(n), WillBe, {})
  BY IdleFacts
<1>3. \A c \in Children(n) : Brings(c, WillBe) = Brings(c, WillBe')
  BY DEF Brings
<1>4. Estimate(n, Children(n), WillBe, {})
        = Estimate(n, Children(n) \ job.gone, WillBe, job.dying)'
  BY <1>3, RowKept
<1> QED
  BY <1>1, <1>2, <1>4

LEMMA AddRowsStep ==
  ASSUME Structure, Structure', RollUpInv, Idle,
         NEW q, NEW S \in SUBSET Subs, NEW value \in [S -> Raws],
         AddRows(q, S, value), ~FirstChildWithoutValue(q, S, value),
         NEW valued, valued = {s \in S : value[s] # 0},
         job' = IF valued = {} THEN NoJob ELSE Begin(valued, {})
  PROVE  RollUpInv'
<1> USE DEF Structure, TypeOK
<1>1. /\ q \in Parents /\ q \in Existing /\ q # None /\ q # Budget /\ q \notin S
      /\ \A s \in S : parent[s] = None /\ parent'[s] = q
      /\ \A s \in Subs \ S : parent'[s] = parent[s]
      /\ rec' = rec /\ fringed' = fringed /\ terms' = terms /\ live' = live
      /\ \A s \in Subs : raw'[s] = IF s \in S THEN value[s] ELSE raw[s]
  BY RowFacts DEF AddRows, Existing, Parents, RowsOK
<1>2. /\ PassShape' /\ GoneShape' /\ Fresh' /\ job'.gone = {} /\ job'.dying = {}
      /\ \A n \in Nodes : WillBe'[n] = rec[n]
      /\ valued # {} => job'.stage = "estimate" /\ job'.todo = valued
  <2>1. CASE valued = {}
    BY <1>1, <2>1, IdleShape
  <2>2. CASE valued # {}
    <3>1. SameLevel(valued)'
      BY DEF AddRows, SameLevel
    <3>2. valued \subseteq Subs /\ job' = Begin(valued, {})
      BY <2>2
    <3> QED
      BY <1>1, <2>2, <3>1, <3>2, BeginsFits
  <2> QED
    BY <2>1, <2>2
<1>3. \A n \in Nodes : WillBe'[n] = WillBe[n] /\ WillBe[n] = rec[n]
  BY <1>2, IdleFacts
<1>4. /\ \A n \in Nodes : n # q => Children(n)' = Children(n)
      /\ Children(q)' = Children(q) \cup S
      /\ \A s \in S : Children(s) = {} /\ Children(s)' = {}
      /\ \A n \in Nodes : Children(n) \cap S = {}
  <2>1. \A s \in S, c \in Subs : parent[c] # s
    BY <1>1, RowFacts DEF TreeShape, RowsOK
  <2>2. \A n \in Nodes : Children(n) \cap S = {}
    BY <1>1, RowFacts, TreeAssumption DEF Children, RowsOK, Nodes, Parents
  <2>3. ASSUME NEW n \in Nodes, n # q
        PROVE  Children(n)' = Children(n)
    <3>1. \A s \in Subs : parent'[s] = n <=> parent[s] = n
      BY <1>1, <2>3, TreeAssumption
    <3> QED
      BY <1>1, <3>1 DEF Children
  <2>4. Children(q)' = Children(q) \cup S
    <3>1. \A s \in Subs : parent'[s] = q <=> parent[s] = q \/ s \in S
      BY <1>1
    <3> QED
      BY <1>1, <3>1 DEF Children
  <2>5. ASSUME NEW s \in S
        PROVE  Children(s) = {} /\ Children(s)' = {}
    <3>1. s \in Nodes /\ s # q /\ s # Budget
      BY <1>1, TreeAssumption DEF Nodes, Parents
    <3>2. Children(s) = {}
      BY <2>1, <3>1 DEF Children
    <3> QED
      BY <2>3, <3>1, <3>2
  <2> QED
    BY <2>2, <2>3, <2>4, <2>5
<1>5. ASSUME NEW n \in S, value[n] = 0
      PROVE  WillBe'[n] = Estimate(n, Children(n), WillBe, job.dying)'
  <2>1. rec[n] = Zero /\ fringed[n] = {} /\ n \in Nodes
    BY <1>1 DEF TreeShape, Nodes, Parents
  <2>2. Total(Nominals({}, WillBe)') = 0 /\ Total(FromFringes({}, WillBe')) = 0
    BY TotalZero DEF Nominals, FromFringes
  <2>3. OwnFringes(n, {}, WillBe, {})' = 0
    BY <1>1, <2>1, NoContribution DEF OwnFringes
  <2> QED
    BY <1>2, <1>4, <2>1, <2>2, <2>3 DEF Estimate, Figures, Zero
<1>6. ASSUME NEW n \in Existing, n # q, ~Pending(n)'
      PROVE  WillBe'[n] = Estimate(n, Children(n), WillBe, job.dying)'
  <2>1. n \in Nodes /\ n \notin S
    BY <1>1, RowFacts DEF Existing
  <2>2. ASSUME NEW c \in Children(n)
        PROVE  Counts(c, WillBe) = Counts(c, WillBe)'
    <3>1. c \in Nodes /\ c \notin S
      BY <1>4, <2>1, ChildrenTyped
    <3>2. CASE c # q \/ c \notin Subs
      BY <1>1, <1>3, <1>4, <3>1, <3>2, CountsKept
    <3>3. CASE c = q /\ c \in Subs
      <4>1. valued = {}
        <5>1. parent'[q] = n
          BY <1>1, <2>2, <3>3, TreeAssumption DEF Children, RowsOK, Nodes, Parents
        <5>2. SUFFICES ASSUME valued # {} PROVE FALSE
          OBVIOUS
        <5>3. PICK t \in valued : t \in Subs /\ parent'[t] = q
          BY <1>1, <5>2
        <5>4. job'.stage = "estimate" /\ job'.todo = valued /\ valued \subseteq Subs
          BY <1>2, <5>2
        <5> QED
          BY <1>6, <2>1, <3>3, <5>1, <5>3, <5>4, NotPending
      <4>2. CASE Children(q) # {}
        BY <1>3, <1>4, <3>1, <3>3, <4>2, CountsKept
      <4>3. CASE Children(q) = {}
        <5>1. raw[q] = 0
          BY <3>3, <4>1, <4>3 DEF FirstChildWithoutValue
        <5>2. rec[q].accumulated = 0
          <6>1. WillBe[q] = Estimate(q, {}, WillBe, {})
            BY <1>1, <4>3, IdleFacts
          <6>2. Total(Nominals({}, WillBe)) = 0
            BY TotalZero DEF Nominals
          <6> QED
            BY <1>3, <3>1, <3>3, <6>1, <6>2 DEF Estimate, Figures
        <5> QED
          BY <1>1, <1>3, <3>1, <3>3, <4>3, <5>1, <5>2 DEF NominalValue, Counts
      <4> QED
        BY <4>2, <4>3
    <3> QED
      BY <3>2, <3>3
  <2>3. n \in Subs => NominalValue(n, 0) = NominalValue(n, 0)'
    BY <1>1, <1>4, <1>6, <2>1 DEF NominalValue
  <2>4. Effective(n, {}) = Effective(n, job.dying)'
    BY <1>1, <1>2 DEF Effective
  <2>5. (Children(n) \ job.gone)' = Children(n) /\ Children(n)' = Children(n)
    BY <1>2, <1>4, <1>6, <2>1
  <2>6. \A m \in Children(n) \cup {n} : WillBe'[m] = WillBe[m]
    BY <1>3, <2>1, ChildrenTyped
  <2>7. WillBe'[n] = Estimate(n, Children(n) \ job.gone, WillBe, job.dying)'
    BY <1>6, <2>2, <2>3, <2>4, <2>5, <2>6, Untouched
  <2> QED
    BY <2>5, <2>7
<1>7. ASSUME valued = {}
      PROVE  WillBe'[q] = Estimate(q, Children(q), WillBe, job.dying)'
  <2>1. q \in Nodes /\ WillBe[q] = Estimate(q, Children(q), WillBe, {})
    BY <1>1, IdleFacts DEF Nodes
  <2>2. ASSUME NEW c \in Children(q)
        PROVE  Counts(c, WillBe) = Counts(c, WillBe)' /\ Brings(c, WillBe) = Brings(c, WillBe')
    <3>1. c \in Nodes /\ c \notin S /\ c \in Subs /\ c # q
      <4>1. c \in Subs /\ parent[c] = q
        BY <1>1, <2>2 DEF Children
      <4>2. c # q
        BY <4>1, <1>1 DEF TreeShape, RowsOK
      <4> QED
        BY <1>4, <2>1, <2>2, <4>1, <4>2 DEF Nodes, Parents
    <3>2. WillBe[c] = WillBe'[c] /\ Children(c)' = Children(c) /\ raw'[c] = raw[c]
      BY <1>1, <1>3, <1>4, <3>1
    <3> QED
      BY <3>2, CountsKept
  <2>3. ASSUME NEW c \in S
        PROVE  Counts(c, WillBe)' = 0 /\ Brings(c, WillBe') = 0
    <3>1. rec[c] = Zero /\ raw'[c] = 0 /\ c \in Nodes
      BY <1>1, <1>7, <2>3 DEF TreeShape, Nodes, Parents
    <3> QED
      BY <1>2, <1>4, <2>3, <3>1 DEF NominalValue, Zero, Counts, Brings
  <2>4. CASE Children(q) # {} \/ q \notin Subs
    <3>1. Estimate(q, Children(q), WillBe, {}) = Estimate(q, Children(q), WillBe, job.dying)'
      <4>0. PICK C, D : C = Children(q) /\ D = Children(q)'
        OBVIOUS
      <4>1. D = C \cup S /\ C \cap S = {}
        BY <1>4, <2>1, <4>0
      <4>2. \A c \in C \cap D :
               Counts(c, WillBe) = Counts(c, WillBe)' /\ Brings(c, WillBe) = Brings(c, WillBe')
        BY <2>2, <4>0
      <4>3. \A c \in D \ C :
               Counts(c, WillBe)' = 0 /\ Brings(c, WillBe') = 0
        BY <2>3, <4>1
      <4>4. /\ C \ D = {}
            /\ q \in Subs => (C = {} <=> D = {})
            /\ ~(q \in Subs /\ C = {})
        BY <2>4, <4>0, <4>1, <1>4, <2>1
      <4>5. Estimate(q, C, WillBe, {}) = Estimate(q, D, WillBe, job.dying)'
        BY <4>2, <4>3, <4>4, EstimateKept
      <4> QED
        BY <4>0, <4>5
    <3> QED
      BY <1>3, <2>1, <3>1
  <2>5. CASE Children(q) = {} /\ q \in Subs
    <3>1. rec[q].fringe = 0
      BY <1>7, <2>5 DEF FirstChildWithoutValue
    <3>2. Total(Nominals({}, WillBe)) = 0 /\ Total(FromFringes({}, WillBe)) = 0
      BY TotalZero DEF Nominals, FromFringes
    <3>3. WillBe[q] = Zero
      BY <1>3, <2>1, <2>5, <3>1, <3>2 DEF Estimate, Figures, Zero
    <3>4. Children(q)' = S /\ S # {}
      BY <1>4, <2>5 DEF AddRows
    <3>5. Total(Nominals(S, WillBe)') = 0 /\ Total(FromFringes(S, WillBe')) = 0
      BY <2>3, TotalZero DEF Nominals, FromFringes, Counts, Brings
    <3>6. OwnFringes(q, S, WillBe, job.dying)' = 0
      BY <3>4 DEF OwnFringes
    <3> QED
      BY <1>3, <2>1, <3>3, <3>4, <3>5, <3>6 DEF Estimate, Figures, Zero
  <2> QED
    BY <2>4, <2>5
<1>8. ASSUME NEW n \in Existing'
      PROVE  Pending(n)' \/ WillBe'[n] = Estimate(n, Children(n), WillBe, job.dying)'
  <2>1. n \in S \/ n \in Existing
    BY <1>1 DEF Existing
  <2>2. CASE n \in S /\ value[n] # 0
    <3>1. valued # {} /\ n \in Subs /\ n \in valued
      BY <2>2
    <3>2. n \in Nodes
      BY <3>1 DEF Nodes, Parents
    <3> QED
      BY <1>2, <3>1, <3>2, NotPending
  <2>3. CASE n = q /\ valued # {}
    <3>1. PICK s \in valued : s \in Subs /\ parent'[s] = q
      BY <1>1, <2>3
    <3>2. q \in Nodes
      BY <1>1 DEF Nodes
    <3> QED
      BY <1>2, <2>3, <3>1, <3>2, NotPending
  <2> QED
    BY <1>5, <1>6, <1>7, <2>1, <2>2, <2>3
<1> QED
  BY <1>2, <1>8, DoneFrom DEF RollUpInv

(* An edit that leaves the tree alone: what a leaf counts for by itself    *)
(* changes for rows of T only, and T is handed to the routine.             *)
LEMMA EditStep ==
  ASSUME Structure, Structure', RollUpInv, Idle,
         UNCHANGED <<live, parent, level, rec>>,
         NEW T \in SUBSET Subs, SameLevel(T), NEW dying,
         \A s \in Subs \ T : /\ Children(s) = {} => raw'[s] = raw[s]
                             /\ Effective(s, {}) = [f \in fringed'[s] \ dying |-> terms'[f]],
         job' = IF T = {} THEN NoJob ELSE Begin(T, dying),
         T = {} => dying = {}
  PROVE  RollUpInv'
<1> USE DEF Structure, TypeOK
<1>1. /\ PassShape' /\ GoneShape' /\ Fresh' /\ job'.gone = {} /\ job'.dying = dying
      /\ \A n \in Nodes : WillBe'[n] = rec[n]
      /\ T # {} => job'.stage = "estimate" /\ job'.todo = T
  <2>1. CASE T = {}
    BY <2>1, IdleShape
  <2>2. CASE T # {}
    <3>1. SameLevel(T)'
      BY DEF SameLevel
    <3>2. job' = Begin(T, dying)
      BY <2>2
    <3> QED
      BY <2>2, <3>1, <3>2, BeginsFits
  <2> QED
    BY <2>1, <2>2
<1>2. \A n \in Nodes : WillBe'[n] = WillBe[n]
  BY <1>1, IdleFacts
<1>3. \A n : Children(n)' = Children(n)
  BY DEF Children
<1>4. ASSUME NEW n \in Existing, ~Pending(n)'
      PROVE  WillBe'[n] = Estimate(n, Children(n), WillBe, job.dying)'
  <2>1. n \in Nodes /\ Children(n) \subseteq Nodes
    BY RowFacts, ChildrenTyped
  <2>2. /\ n \notin T
        /\ \A t \in T : parent[t] # n
        /\ T # {} => n # Budget
    BY <1>1, <1>4, <2>1, NotPending
  <2>3. ASSUME NEW c \in Children(n)
        PROVE  Counts(c, WillBe) = Counts(c, WillBe)'
    <3>1. c \in Subs => c \notin T
      BY <2>2, <2>3, TreeAssumption DEF Children, RowsOK, Nodes, Parents
    <3>2. c \in Subs => (Children(c) = {} => raw'[c] = raw[c])
      BY <3>1
    <3>3. WillBe[c] = WillBe'[c] /\ Children(c)' = Children(c)
      BY <1>2, <1>3, <2>1
    <3> QED
      BY <3>2, <3>3, CountsKept
  <2>4. ASSUME n \in Subs, Children(n) = {}
        PROVE  /\ NominalValue(n, 0) = NominalValue(n, 0)'
               /\ Effective(n, {}) = Effective(n, job.dying)'
    <3>1. raw'[n] = raw[n] /\ Children(n)' = Children(n)
      BY <1>3, <2>2, <2>4
    <3>2. Effective(n, {}) = [f \in fringed'[n] \ dying |-> terms'[f]]
      BY <2>2, <2>4
    <3>3. Effective(n, job.dying)' = [f \in fringed'[n] \ dying |-> terms'[f]]
      BY <1>1 DEF Effective
    <3> QED
      BY <3>1, <3>2, <3>3 DEF NominalValue
  <2>5. (Children(n) \ job.gone)' = Children(n) /\ Children(n)' = Children(n)
    BY <1>1, <1>3
  <2>6. \A m \in Children(n) \cup {n} : WillBe'[m] = WillBe[m]
    BY <1>2, <2>1
  <2>7. WillBe'[n] = Estimate(n, Children(n) \ job.gone, WillBe, job.dying)'
    BY <2>3, <2>4, <2>5, <2>6, Untouched
  <2> QED
    BY <2>5, <2>7
<1>5. Existing' = Existing
  BY DEF Existing
<1> QED
  BY <1>1, <1>4, <1>5, DoneFrom DEF RollUpInv

LEMMA FieldsStep ==
  ASSUME Structure, Structure', RollUpInv, Avoided = Situations,
         \/ \E s \in Subs, v \in Raws : UpdateSubAccount(s, v)
         \/ \E q \in Parents, S \in SUBSET Subs : \E value \in [S -> Raws] : BulkSave(q, S, value)
         \/ \E s \in Subs, fs \in SUBSET Fringes : FringesChanged(s, fs)
  PROVE  RollUpInv'
<1> USE DEF Structure, TypeOK
<1>1. ASSUME NEW s \in Subs, NEW v \in Raws, UpdateSubAccount(s, v)
      PROVE  RollUpInv'
  <2> DEFINE T == IF Children(s) = {} THEN {s} ELSE {}
  <2>1. job' = IF T = {} THEN NoJob ELSE Begin(T, {})
    BY <1>1 DEF UpdateSubAccount
  <2>2. \A t \in Subs \ T : /\ Children(t) = {} => raw'[t] = raw[t]
                            /\ Effective(t, {}) = [f \in fringed'[t] \ {} |-> terms'[f]]
    BY <1>1 DEF UpdateSubAccount, Effective, RowsOK
  <2>3. SameLevel(T) /\ T \in SUBSET Subs
    BY DEF SameLevel
  <2>4. Idle /\ UNCHANGED <<live, parent, level, rec>>
    BY <1>1 DEF UpdateSubAccount
  <2> HIDE DEF T
  <2> QED
    BY <2>1, <2>2, <2>3, <2>4, EditStep
<1>2. ASSUME NEW q \in Parents, NEW S \in SUBSET Subs, NEW value \in [S -> Raws],
             BulkSave(q, S, value)
      PROVE  RollUpInv'
  <2> DEFINE T == {s \in S : Children(s) = {} /\ value[s] # raw[s]}
  <2>1. job' = IF T = {} THEN NoJob ELSE Begin(T, {})
    BY <1>2 DEF BulkSave
  <2>2. \A t \in Subs \ T : /\ Children(t) = {} => raw'[t] = raw[t]
                            /\ Effective(t, {}) = [f \in fringed'[t] \ {} |-> terms'[f]]
    BY <1>2 DEF BulkSave, Effective
  <2>3. SameLevel(T) /\ T \in SUBSET Subs
    BY <1>2 DEF SameLevel, BulkSave, TreeShape
  <2>4. Idle /\ UNCHANGED <<live, parent, level, rec>>
    BY <1>2 DEF BulkSave
  <2> HIDE DEF T
  <2> QED
    BY <2>1, <2>2, <2>3, <2>4, EditStep
<1>3. ASSUME NEW s \in Subs, NEW fs \in SUBSET Fringes, FringesChanged(s, fs)
      PROVE  RollUpInv'
  <2> DEFINE T == {s}
  <2>1. job' = IF T = {} THEN NoJob ELSE Begin(T, {})
    BY <1>3 DEF FringesChanged
  <2>2. \A t \in Subs \ T : /\ Children(t) = {} => raw'[t] = raw[t]
                            /\ Effective(t, {}) = [f \in fringed'[t] \ {} |-> terms'[f]]
    BY <1>3 DEF FringesChanged, Effective, RowsOK
  <2>3. SameLevel(T) /\ T \in SUBSET Subs
    BY DEF SameLevel
  <2>4. Idle /\ UNCHANGED <<live, parent, level, rec>>
    BY <1>3 DEF FringesChanged
  <2> HIDE DEF T
  <2> QED
    BY <2>1, <2>2, <2>3, <2>4, EditStep
<1> QED
  BY <1>1, <1>2, <1>3

LEMMA FringesStep ==
  ASSUME Structure, Structure', RollUpInv, Avoided = Situations,
         NEW F \in SUBSET Fringes,
         (\E saying \in [F -> Terms] : SaveFringes(F, saying)) \/ DeleteFringes(F)
  PROVE  RollUpInv'
<1> USE DEF Structure, TypeOK
<1>0. "mixed levels" \in Avoided /\ Bearing(F) \in SUBSET Subs
  BY DEF Situations, Bearing
<1>1. ASSUME NEW saying \in [F -> Terms], SaveFringes(F, saying)
      PROVE  RollUpInv'
  <2>1. job' = IF Bearing(F) = {} THEN NoJob ELSE Begin(Bearing(F), {})
    BY <1>1 DEF SaveFringes
  <2>2. ASSUME NEW t \in Subs \ Bearing(F)
        PROVE  /\ Children(t) = {} => raw'[t] = raw[t]
               /\ Effective(t, {}) = [f \in fringed'[t] \ {} |-> terms'[f]]
    <3>1. \A f \in fringed[t] : f \in Fringes \ F
      BY DEF Bearing, RowsOK
    <3> QED
      BY <1>1, <3>1 DEF SaveFringes, Effective
  <2>3. SameLevel(Bearing(F)) /\ Idle /\ UNCHANGED <<live, parent, level, rec>>
    BY <1>0, <1>1 DEF SaveFringes, Avoids
  <2> QED
    BY <1>0, <2>1, <2>2, <2>3, EditStep
<1>2. ASSUME DeleteFringes(F)
      PROVE  RollUpInv'
  <2>1. job' = IF Bearing(F) = {} THEN NoJob ELSE Begin(Bearing(F), F)
    BY <1>2 DEF DeleteFringes
  <2>2. ASSUME NEW t \in Subs \ Bearing(F)
        PROVE  /\ Children(t) = {} => raw'[t] = raw[t]
               /\ Effective(t, {}) = [f \in fringed'[t] \ F |-> terms'[f]]
    <3>1. fringed'[t] \ F = fringed[t] \ {}
      BY <1>2 DEF Bearing, RowsOK, DeleteFringes, rows
    <3> QED
      BY <1>2, <3>1 DEF DeleteFringes, Effective, rows
  <2>3. SameLevel(Bearing(F)) /\ Idle /\ UNCHANGED <<live, parent, level, rec>>
        /\ Bearing(F) # {}
    BY <1>0, <1>2 DEF DeleteFringes, Avoids, rows
  <2> QED
    BY <1>0, <2>1, <2>2, <2>3, EditStep
<1> QED
  BY <1>1, <1>2


(* A recalculation of p starts, before anything is deleted: every other    *)
(* row, the budget aside, has the children it had.                         *)
LEMMA BeginAtStep ==
  ASSUME Structure, Structure', RollUpInv, Idle,
         UNCHANGED <<parent, raw, fringed, terms, rec>>,
         NEW p \in Nodes, NEW gone, job' = BeginAt(p, gone),
         \A n \in Existing' : n # Budget /\ n # p =>
           n \in Existing /\ Children(n) \cap gone = {},
         GoneShape'
  PROVE  RollUpInv'
<1> USE DEF Structure, TypeOK
<1>1. rec'[p] = rec[p]
  OBVIOUS
<1>2. /\ PassShape' /\ Fresh'
      /\ job'.stage = "estimate" /\ job'.gone = gone /\ job'.dying = {}
      /\ job'.todo = (IF p \in Subs THEN {p} ELSE {})
      /\ p \notin Subs => p \in DOMAIN job'.tree
      /\ \A m \in Nodes : WillBe'[m] = rec'[m]
  BY <1>1, BeginsAtFits
<1>3. \A m \in Nodes : WillBe'[m] = WillBe[m]
  BY <1>2, IdleFacts
<1>4. ASSUME NEW n \in Existing', ~Pending(n)'
      PROVE  WillBe'[n] = Estimate(n, Children(n) \ job.gone, WillBe, job.dying)'
  <2>1. n \in Nodes /\ job'.todo \subseteq Subs
    BY <1>2, TreeAssumption DEF Existing, RowsOK, Nodes, Parents
  <2>2. n # Budget /\ n # p /\ (p \in Subs => parent[p] # n)
    BY <1>2, <1>4, <2>1, NotPending, TreeAssumption DEF Nodes, Parents
  <2>3. n \in Existing /\ (Children(n) \ job.gone)' = Children(n)
        /\ Children(n)' = Children(n)
    BY <1>2, <2>2 DEF Children
  <2>4. Children(n) \subseteq Subs /\ Children(n) \subseteq Nodes /\ p \notin Children(n)
    BY <2>1, <2>2, ChildrenTyped, TreeAssumption DEF Children, Nodes, Parents
  <2>5. ASSUME NEW c \in Children(n)
        PROVE  Counts(c, WillBe) = Counts(c, WillBe)'
    <3>1. c \in Subs /\ c # Budget
      BY <2>4, TreeAssumption DEF Parents
    <3>2. WillBe[c] = WillBe'[c] /\ Children(c)' = Children(c) /\ raw'[c] = raw[c]
      BY <1>3, <2>4, <3>1 DEF Children
    <3> QED
      BY <3>2, CountsKept
  <2>6. /\ n \in Subs /\ Children(n) = {} => NominalValue(n, 0) = NominalValue(n, 0)'
        /\ Effective(n, {}) = Effective(n, job.dying)'
    BY <1>2, <2>3 DEF NominalValue, Effective
  <2>7. \A m \in Children(n) \cup {n} : WillBe'[m] = WillBe[m]
    BY <1>3, <2>1, <2>4
  <2> QED
    BY <2>3, <2>5, <2>6, <2>7, Untouched
<1> QED
  BY <1>2, <1>4 DEF RollUpInv, Done

LEMMA SingleRowsStep ==
  ASSUME Structure, Structure', RollUpInv, Avoided = Situations,
         \/ \E s \in Subs : DeleteSubAccount(s)
         \/ \E a \in Accounts : CreateAccount(a) \/ DeleteAccount(a)
  PROVE  RollUpInv'
<1> USE DEF Structure, TypeOK
<1>1. ASSUME NEW s \in Subs, DeleteSubAccount(s)
      PROVE  RollUpInv'
  <2>1. /\ Idle /\ UNCHANGED <<rows, rec>> /\ job' = BeginAt(parent[s], {s})
        /\ parent[s] # None
    BY <1>1 DEF DeleteSubAccount
  <2>2. /\ parent[s] \in Subs
        /\ Children(parent[s]) = {s} => raw[parent[s]] = 0
    BY <1>1, <2>1 DEF DeleteSubAccount, Avoids, Situations, RowsOK, Parents
  <2>3. \A n : Children(n)' = Children(n)
    BY <2>1 DEF rows, Children
  <2>4. GoneShape'
    <3>1. job'.gone = {s}
      BY <2>1, BeginAtGone
    <3>2. \A t \in Subs : Children(t) # {} /\ Children(t) \subseteq {s} => raw[t] = 0
      BY <2>2, TreeAssumption DEF Children, Parents
    <3> QED
      BY <2>1, <2>2, <2>3, <3>1, <3>2 DEF GoneShape, rows
  <2>5. \A n \in Existing' : n # Budget /\ n # parent[s] =>
           n \in Existing /\ Children(n) \cap {s} = {}
    BY <2>1 DEF rows, Existing, Children
  <2> QED
    BY <2>1, <2>2, <2>4, <2>5, BeginAtStep DEF rows, Nodes, Parents
<1>2. ASSUME NEW a \in Accounts, CreateAccount(a)
      PROVE  RollUpInv'
  <2>1. /\ Idle /\ UNCHANGED <<parent, raw, fringed, terms, rec>>
        /\ job' = BeginAt(a, {}) /\ live' = live \cup {a}
    BY <1>2 DEF CreateAccount
  <2>2. GoneShape'
    BY <2>1, BeginAtGone DEF GoneShape
  <2>3. \A n \in Existing' : n # Budget /\ n # a =>
           n \in Existing /\ Children(n) \cap {} = {}
    BY <2>1 DEF Existing
  <2> QED
    BY <2>1, <2>2, <2>3, BeginAtStep DEF Nodes, Parents
<1>3. ASSUME NEW a \in Accounts, DeleteAccount(a)
      PROVE  RollUpInv'
  <2>1. /\ Idle /\ UNCHANGED <<rows, rec>> /\ job' = BeginAt(Budget, {a})
    BY <1>3 DEF DeleteAccount
  <2>2. \A n \in Nodes : n # Budget => a \notin Children(n)
    BY TreeAssumption DEF Children
  <2>3. GoneShape'
    <3>1. job'.gone = {a} /\ a \notin Subs
      BY <2>1, BeginAtGone, TreeAssumption
    <3>2. \A t \in Subs : a \notin Children(t)'
      BY <3>1, TreeAssumption DEF Children, Parents
    <3> QED
      BY <3>1, <3>2 DEF GoneShape
  <2>4. \A n \in Existing' : n # Budget /\ n # Budget =>
           n \in Existing /\ Children(n) \cap {a} = {}
    BY <2>1, <2>2, RowFacts DEF rows, Existing
  <2> QED
    BY <2>1, <2>3, <2>4, BeginAtStep DEF rows, Nodes
<1> QED
  BY <1>1, <1>2, <1>3


LEMMA BeginAtIsJob ==
  ASSUME NEW n, NEW gone
  PROVE  BeginAt(n, gone) # NoJob
<1>1. BeginAt(n, gone).stage = "estimate"
  BY DEF BeginAt, NoJob
<1>2. NoJob.stage = "idle"
  BY DEF NoJob
<1> QED
  BY <1>1, <1>2

(* What rows keep as children when S and all below it is deleted.          *)
LEMMA ChildrenCut ==
  ASSUME RowsOK, NEW S \in SUBSET Parents, NEW dying,
         RemoveRows(Cascade(S), dying), NEW n \in Nodes, n \notin Cascade(S)
  PROVE  Children(n)' = Children(n) \ S
<1>1. CASE n = Budget
  <2>1. live \cap Cascade(S) = live \cap S
    BY RowFacts, BelowItself DEF Cascade
  <2> QED
    BY <1>1, <2>1 DEF Children, RemoveRows
<1>2. CASE n # Budget
  <2>1. \A c \in Subs : parent[c] = n => (c \in Cascade(S) <=> c \in S)
    BY BelowUp, BelowItself DEF Cascade
  <2>2. n # None
    BY TreeAssumption
  <2>3. \A c \in Subs : parent'[c] = n <=> (parent[c] = n /\ c \notin Cascade(S))
    BY <2>2 DEF RemoveRows
  <2> QED
    BY <1>2, <2>1, <2>3 DEF Children
<1> QED
  BY <1>1, <1>2

(* The children S of q are gone, and q is recalculated next, unless it     *)
(* did not count them and does not change by their absence.                *)
LEMMA CutStep ==
  ASSUME Structure, Structure', RollUpInv, Idle,
         NEW q \in Nodes, NEW S \in SUBSET Parents, S # {}, S \subseteq Children(q),
         q \notin Cascade(S), RemoveRows(Cascade(S), {}),
         rec' = [n \in Nodes |-> IF n \in Cascade(S) THEN Zero ELSE rec[n]],
         \/ job' = BeginAt(q, {})
         \/ /\ job' = NoJob
            /\ q \in Parents
            /\ \A s \in S : raw[s] = 0 /\ rec[s] = Zero
            /\ q \in Subs /\ Children(q) = S => raw[q] = 0 /\ fringed[q] = {}
  PROVE  RollUpInv'
<1> USE DEF Structure, TypeOK
<1>1. /\ \A n \in Nodes \ Cascade(S) : rec'[n] = rec[n] /\ Children(n)' = Children(n) \ S
      /\ \A s \in Subs \ Cascade(S) : /\ raw'[s] = raw[s] /\ fringed'[s] = fringed[s]
                                      /\ parent'[s] = parent[s]
      /\ terms' = terms
  BY ChildrenCut DEF RemoveRows, RowsOK
<1>2. /\ PassShape' /\ GoneShape' /\ Fresh' /\ job'.gone = {} /\ job'.dying = {}
      /\ \A m \in Nodes : WillBe'[m] = rec'[m]
      /\ job' = NoJob \/ (/\ job'.stage = "estimate"
                          /\ job'.todo = (IF q \in Subs THEN {q} ELSE {})
                          /\ q \notin Subs => q \in DOMAIN job'.tree)
  <2>1. CASE job' = NoJob
    BY <2>1, IdleShape
  <2>2. CASE job' = BeginAt(q, {})
    <3>1. rec'[q] = rec[q]
      BY <1>1
    <3>2. job'.gone = {}
      BY <2>2, BeginAtGone
    <3> QED
      BY <2>2, <3>1, <3>2, BeginsAtFits, NothingGone
  <2> QED
    BY <2>1, <2>2
<1>3. \A m \in Nodes \ Cascade(S) : WillBe'[m] = WillBe[m]
  BY <1>1, <1>2, IdleFacts
<1>4. \A n \in Nodes : n # q => Children(n) \cap S = {}
  BY TreeAssumption, RowFacts DEF Children, Nodes, Parents
<1>5. ASSUME NEW n \in Existing'
      PROVE  n \in Existing /\ n \in Nodes /\ n \notin Cascade(S)
  BY <1>5, RowFacts, BelowItself DEF Existing, RemoveRows, Cascade, Parents
<1>6. ASSUME NEW n \in Existing', n # q, ~Pending(n)'
      PROVE  WillBe'[n] = Estimate(n, Children(n), WillBe, job.dying)'
  <2>1. (Children(n) \ job.gone)' = Children(n) /\ Children(n)' = Children(n)
    <3>1. Children(n)' = Children(n) \ S /\ Children(n) \cap S = {}
      BY <1>1, <1>4, <1>5, <1>6
    <3>2. Children(n)' = Children(n)
      BY <3>1
    <3> QED
      BY <1>2, <3>2
  <2>2. \A c \in Children(n) : c \in Nodes /\ c \notin Cascade(S)
    <3>1. Children(n)' \cap Cascade(S) = {}
      BY RowFacts, <1>5, TreeAssumption DEF Children, RemoveRows, Nodes
    <3> QED
      BY <1>5, <2>1, <3>1, ChildrenTyped
  <2>3. ASSUME NEW c \in Children(n)
        PROVE  Counts(c, WillBe) = Counts(c, WillBe)'
    <3>1. CASE c # q \/ c \notin Subs
      <4>1. c \in Nodes /\ WillBe'[c] = WillBe[c]
        BY <1>3, <2>2
      <4>2. c \in Subs => Children(c) = Children(c)' /\ raw'[c] = raw[c]
        BY <1>1, <1>4, <2>2, <3>1
      <4> QED
        BY <4>1, <4>2, CountsKept
    <3>2. CASE c = q /\ c \in Subs
      <4>1. n # Budget /\ parent[q] = n /\ parent'[q] = n
        BY <1>1, <1>5, <2>2, <3>2, RowFacts DEF Children
      <4>2. job' = NoJob
        <5>1. SUFFICES ASSUME job' # NoJob PROVE FALSE
          OBVIOUS
        <5>2. job'.stage = "estimate" /\ job'.todo = {q} /\ {q} \subseteq Subs
          BY <1>2, <3>2, <5>1
        <5> QED
          BY <1>5, <1>6, <4>1, <5>2, NotPending
      <4>3. job' # BeginAt(q, {})
        BY <4>2, BeginAtIsJob
      <4>4. CASE Children(q) # S
        <5>1. WillBe[c] = WillBe'[c] /\ Children(c) # {} /\ Children(c)' # {}
          BY <1>1, <1>3, <2>2, <3>2, <4>4
        <5> QED
          BY <5>1, CountsKept
      <4>5. CASE Children(q) = S
        <5>1. raw[q] = 0 /\ raw'[q] = 0
          BY <1>1, <2>2, <3>2, <4>3, <4>5
        <5>2. WillBe[q] = Estimate(q, Children(q), WillBe, {})
          <6>1. q \in Existing
            BY <1>5, <3>2, <4>1, TreeAssumption DEF Existing
          <6> QED
            BY <6>1, IdleFacts
        <5>3. Total(Nominals(S, WillBe)) = 0
          <6>1. \A s \in S : NominalValue(s, WillBe[s].accumulated) = 0
            BY <4>3, IdleFacts DEF NominalValue, Zero, Nodes
          <6> QED
            BY <6>1, TotalZero DEF Nominals
        <5>4. WillBe[q].accumulated = 0 /\ WillBe'[q] = WillBe[q]
          BY <1>3, <2>2, <3>2, <4>5, <5>2, <5>3 DEF Estimate, Figures
        <5> QED
          BY <3>2, <5>1, <5>4 DEF Counts, NominalValue
      <4> QED
        BY <4>4, <4>5
    <3> QED
      BY <3>1, <3>2
  <2>4. ASSUME n \in Subs
        PROVE  NominalValue(n, 0) = NominalValue(n, 0)' /\ Effective(n, {}) = Effective(n, job.dying)'
    BY <1>1, <1>2, <1>5, <2>1, <2>4 DEF NominalValue, Effective
  <2>5. \A m \in Children(n) \cup {n} : WillBe'[m] = WillBe[m]
    BY <1>3, <1>5, <2>2
  <2>6. WillBe'[n] = Estimate(n, Children(n) \ job.gone, WillBe, job.dying)'
    BY <1>5, <2>1, <2>3, <2>4, <2>5, Untouched
  <2> QED
    BY <2>1, <2>6
<1>7. ASSUME q \in Existing', ~Pending(q)'
      PROVE  WillBe'[q] = Estimate(q, Children(q), WillBe, job.dying)'
  <2>1. job' = NoJob
    <3>1. SUFFICES ASSUME job' # NoJob PROVE FALSE
      OBVIOUS
    <3>2. job'.stage = "estimate" /\ job'.todo = (IF q \in Subs THEN {q} ELSE {})
          /\ job'.todo \subseteq Subs
          /\ (q \notin Subs => q \in DOMAIN job'.tree)
      BY <1>2, <3>1
    <3> QED
      BY <1>7, <3>2, NotPending DEF Nodes, Parents
  <2>2. job' # BeginAt(q, {})
    BY <2>1, BeginAtIsJob
  <2>3. /\ q \in Parents
        /\ \A s \in S : raw[s] = 0 /\ rec[s] = Zero
        /\ q \in Subs /\ Children(q) = S => raw[q] = 0 /\ fringed[q] = {}
    BY <2>2
  <2>4. /\ WillBe[q] = Estimate(q, Children(q), WillBe, {})
        /\ WillBe'[q] = WillBe[q] /\ Children(q)' = Children(q) \ S
    BY <1>1, <1>3, <1>5, <1>7, IdleFacts
  <2>5. \A s \in S : Counts(s, WillBe) = 0 /\ Brings(s, WillBe) = 0
    BY <2>3, IdleFacts DEF Counts, Brings, NominalValue, Zero, Nodes
  <2>6. CASE q \in Subs /\ Children(q) = S
    <3>1. Total(Nominals(S, WillBe)) = 0 /\ Total(FromFringes(S, WillBe)) = 0
      BY <2>5, TotalZero DEF Nominals, FromFringes, Counts, Brings
    <3>2. WillBe[q] = Zero
      BY <2>4, <2>6, <3>1 DEF Estimate, Figures, OwnFringes, Zero
    <3>3. Total(Nominals({}, WillBe)') = 0 /\ Total(FromFringes({}, WillBe')) = 0
      BY TotalZero DEF Nominals, FromFringes
    <3>4. fringed'[q] = {} /\ Children(q)' = {}
      BY <1>1, <2>3, <2>4, <2>6
    <3>5. OwnFringes(q, {}, WillBe, job.dying)' = 0
      BY <1>2, <3>4, NoContribution DEF OwnFringes
    <3> QED
      BY <2>4, <3>2, <3>3, <3>4, <3>5 DEF Estimate, Figures, Zero
  <2>7. CASE ~(q \in Subs /\ Children(q) = S)
    <3>0. PICK C, D : C = Children(q) /\ D = Children(q)'
      OBVIOUS
    <3>1. ASSUME NEW c \in C \cap D
          PROVE  Counts(c, WillBe) = Counts(c, WillBe)' /\ Brings(c, WillBe) = Brings(c, WillBe')
      <4>1. c \in Subs /\ c \in Nodes /\ c \notin Cascade(S) /\ c # q
        <5>1. c \in Subs /\ parent[c] = q /\ parent'[c] = q /\ q # None
          BY <2>3, <3>0, TreeAssumption DEF Children, Nodes, Parents
        <5> QED
          BY <5>1 DEF RemoveRows, TreeShape, Nodes, Parents, RowsOK
      <4>2. WillBe[c] = WillBe'[c] /\ Children(c)' = Children(c) /\ raw'[c] = raw[c]
        <5>1. Children(c)' = Children(c) \ S /\ Children(c) \cap S = {}
          BY <1>1, <1>4, <4>1
        <5>2. WillBe[c] = WillBe'[c] /\ raw'[c] = raw[c]
          BY <1>1, <1>3, <4>1
        <5> QED
          BY <5>1, <5>2
      <4> QED
        BY <4>2, CountsKept
    <3>2. \A c \in C \ D : Counts(c, WillBe) = 0 /\ Brings(c, WillBe) = 0
      BY <2>4, <2>5, <3>0
    <3>3. /\ D \ C = {}
          /\ q \in Subs => (C = {} <=> D = {})
          /\ C # {}
      BY <2>4, <2>7, <3>0
    <3>4. Estimate(q, C, WillBe, {}) = Estimate(q, D, WillBe, job.dying)'
      BY <3>1, <3>2, <3>3, EstimateKept
    <3> QED
      BY <2>4, <3>0, <3>4
  <2> QED
    BY <2>6, <2>7
<1> QED
  BY <1>2, <1>6, <1>7, DoneFrom DEF RollUpInv

LEMMA BulkDeletesStep ==
  ASSUME Structure, Structure', RollUpInv, Avoided = Situations,
         \/ \E q \in Parents, S \in SUBSET Subs : BulkDelete(q, S)
         \/ \E S \in SUBSET Accounts : BulkDeleteAccounts(S)
  PROVE  RollUpInv'
<1> USE DEF Structure, TypeOK
<1>1. ASSUME NEW q \in Parents, NEW S \in SUBSET Subs, BulkDelete(q, S)
      PROVE  RollUpInv'
  <2>1. /\ Idle /\ S # {} /\ S \subseteq Children(q) /\ \A s \in S : parent[s] = q
        /\ RemoveRows(Cascade(S), {})
        /\ rec' = [n \in Nodes |-> IF n \in Cascade(S) THEN Zero ELSE rec[n]]
        /\ ~Uncounted(q, S)
    BY <1>1, TreeAssumption DEF BulkDelete, Avoids, Situations, Children
  <2>2. q \notin Cascade(S) /\ q \in Nodes /\ S \in SUBSET Parents
    BY <2>1, ParentNotBelow DEF Nodes, Parents
  <2>3. \/ job' = BeginAt(q, {})
        \/ job' = NoJob /\ \A s \in S : raw[s] = 0
    BY <1>1 DEF BulkDelete
  <2>4. \/ job' = BeginAt(q, {})
        \/ /\ job' = NoJob
           /\ q \in Parents
           /\ \A s \in S : raw[s] = 0 /\ rec[s] = Zero
           /\ q \in Subs /\ Children(q) = S => raw[q] = 0 /\ fringed[q] = {}
    BY <2>1, <2>3 DEF Uncounted
  <2> QED
    BY <2>1, <2>2, <2>4, CutStep
<1>2. ASSUME NEW S \in SUBSET Accounts, BulkDeleteAccounts(S)
      PROVE  RollUpInv'
  <2>1. /\ Idle /\ S # {} /\ S \subseteq Children(Budget)
        /\ RemoveRows(Cascade(S), {})
        /\ rec' = [n \in Nodes |-> IF n \in Cascade(S) THEN Zero ELSE rec[n]]
        /\ job' = BeginAt(Budget, {})
    BY <1>2 DEF BulkDeleteAccounts, Children
  <2>2. Budget \notin Cascade(S) /\ Budget \in Nodes /\ S \in SUBSET Parents
    BY BelowItself, TreeAssumption DEF Cascade, Nodes, Parents
  <2> QED
    BY <2>1, <2>2, CutStep
<1> QED
  BY <1>1, <1>2

-----------------------------------------------------------------------------
(* The routine.                                                            *)

(* What a pass leaves behind: its rows are altered, their parents are in   *)
(* the tree, and the sub-accounts among these come next.                   *)
LEMMA PassResult ==
  ASSUME Structure, RollUpInv, EstimateSubAccounts
  PROVE  /\ job'.stage = "estimate" /\ job'.gone = job.gone /\ job'.dying = job.dying
         /\ job'.todo = ParentsOf(job.todo) \cap Subs
         /\ DOMAIN job'.tree = DOMAIN job.tree \cup job.todo \cup ParentsOf(job.todo)
         /\ \A n \in Nodes \ job.todo : WillBe'[n] = WillBe[n]
         /\ \A s \in job.todo :
              WillBe'[s] = Estimate(s, Children(s) \ job.gone, Seen, job.dying)
<1> USE DEF Structure, TypeOK
<1> DEFINE T == job.todo
           above == ParentsOf(T)
           held == DOMAIN job.tree
<1>1. /\ T \subseteq Subs /\ SameLevel(T)
      /\ \A s \in held \cap T : s \in job.alias /\ job.tree[s] = rec[s]
  BY DEF RollUpInv, PassShape, JobOK
<1>2. above \cap T = {}
  BY <1>1 DEF ParentsOf, SameLevel, TreeShape, RowsOK, JobOK
<1>3. Highest(T) = T
  BY <1>1 DEF Highest, SameLevel, RowsOK
<1>4. job'.stage = "estimate" /\ job'.gone = job.gone /\ job'.dying = job.dying
  BY DEF EstimateSubAccounts, JobOK, NoJob
<1>5. job'.todo = (above \cap Subs) \ T
  BY DEF EstimateSubAccounts, JobOK, NoJob
<1>6. DEFINE new == [s \in T |-> Estimate(s, Counted(s), Seen, job.dying)]
             same == {s \in T : IF s \in held THEN s \in job.alias ELSE s \notin above}
<1>7. job'.tree = [n \in held \cup T \cup above |->
                     IF n \in same THEN new[n]
                     ELSE IF n \in held THEN job.tree[n] ELSE rec[n]]
  BY DEF EstimateSubAccounts, JobOK, NoJob
<1>8. same = T
  BY <1>1, <1>2
<1>9. \A s \in T : new[s] = Estimate(s, Children(s) \ job.gone, Seen, job.dying)
  BY <1>1, TreeAssumption DEF Counted
<1> HIDE DEF new, same
<1>10. /\ DOMAIN job'.tree = held \cup T \cup above
       /\ \A n \in held \cup T \cup above :
            job'.tree[n] = IF n \in T THEN new[n]
                           ELSE IF n \in held THEN job.tree[n] ELSE rec[n]
  BY <1>7, <1>8
<1>11. rec' = rec
  BY DEF EstimateSubAccounts
<1>12. ASSUME NEW n \in Nodes \ T
       PROVE  WillBe'[n] = WillBe[n]
  BY <1>10, <1>11 DEF WillBe
<1>13. ASSUME NEW s \in T
       PROVE  WillBe'[s] = Estimate(s, Children(s) \ job.gone, Seen, job.dying)
  <2>1. s \in Nodes
    BY <1>1 DEF Nodes, Parents
  <2>2. WillBe'[s] = new[s]
    BY <1>10, <2>1 DEF WillBe
  <2> QED
    BY <1>9, <2>2
<1> QED
  BY <1>2, <1>4, <1>5, <1>10, <1>12, <1>13

(* A pass ends on one level; the next one starts on the level above it, or *)
(* the accounts are reached.                                               *)
LEMMA PassLevels ==
  ASSUME Structure, RollUpInv, EstimateSubAccounts
  PROVE  PassShape'
<1> USE DEF Structure, TypeOK
<1> DEFINE T == job.todo
           above == ParentsOf(T)
           held == DOMAIN job.tree
<1>1. /\ T \subseteq Subs /\ SameLevel(T) /\ T # {} /\ held \subseteq Subs
      /\ \A s \in held, t \in T : s \in T \/ level[s] > level[t]
      /\ \A t \in T : parent[t] # None
  BY DEF RollUpInv, PassShape, JobOK, EstimateSubAccounts
<1>2. /\ UNCHANGED <<parent, level, rec, live>>
      /\ job'.stage = "estimate" /\ job'.todo = above \cap Subs
      /\ DOMAIN job'.tree = held \cup T \cup above
  BY PassResult DEF EstimateSubAccounts, rows
<1>3. job'.alias = (above \cap Subs) \ (T \cup held)
  BY DEF EstimateSubAccounts, JobOK, NoJob
<1>4. \A t \in T : parent[t] \in Subs => level[t] = level[parent[t]] + 1
  BY <1>1 DEF TreeShape
<1>5. \A p \in above \cap Subs, t \in T : level[t] = level[p] + 1
  BY <1>1, <1>4 DEF ParentsOf, SameLevel, RowsOK
<1>6. SameLevel(job.todo)'
  <2>1. \A p, q \in above \cap Subs : level[p] = level[q]
    BY <1>1, <1>5 DEF RowsOK
  <2> QED
    BY <1>2, <2>1 DEF SameLevel
<1>7. job'.todo # {} => DOMAIN job'.tree \subseteq Subs
  <2>1. SUFFICES ASSUME NEW p \in above \cap Subs PROVE above \subseteq Subs
    BY <1>1, <1>2
  <2>2. \A t \in T : level[t] # 0
    BY <1>5 DEF RowsOK
  <2>3. \A t \in T : parent[t] \in Subs
    BY <1>1, <2>2 DEF TreeShape
  <2> QED
    BY <2>3 DEF ParentsOf
<1>8. job'.todo = {} => DOMAIN job'.tree \cap (Accounts \cup {Budget}) # {}
  BY <1>1, <1>2 DEF ParentsOf, RowsOK, Parents
<1>9. \A p \in above \cap Subs : p \notin held /\ p \notin T
  BY <1>1, <1>5 DEF RowsOK
<1>10. \A s \in DOMAIN job'.tree \cap Subs, t \in job'.todo :
          s \in job'.todo \/ level[s] > level[t]
  <2>1. PICK t \in T : TRUE
    BY <1>1
  <2>2. \A s \in held \cup T : level[s] >= level[t]
    BY <1>1, <2>1 DEF SameLevel, RowsOK
  <2>3. \A p \in above \cap Subs : level[t] = level[p] + 1
    BY <1>5, <2>1
  <2> QED
    BY <1>1, <1>2, <2>2, <2>3 DEF RowsOK
<1>11. \A s \in DOMAIN job'.tree \cap job'.todo : s \in job'.alias /\ job'.tree[s] = rec[s]
  <2> SUFFICES ASSUME NEW s \in above \cap Subs
               PROVE  s \in job'.alias /\ job'.tree[s] = rec[s]
    BY <1>2
  <2>1. s \notin held /\ s \notin T /\ s \in Nodes
    BY <1>9 DEF Nodes, Parents
  <2>2. WillBe'[s] = WillBe[s]
    BY <2>1, PassResult
  <2>3. WillBe[s] = rec[s] /\ WillBe'[s] = job'.tree[s]
    BY <1>2, <2>1 DEF WillBe
  <2> QED
    BY <1>3, <2>1, <2>2, <2>3
<1> QED
  BY <1>2, <1>6, <1>7, <1>8, <1>10, <1>11 DEF PassShape, Idle


LEMMA PassSeen ==
  ASSUME Structure, RollUpInv, EstimateSubAccounts
  PROVE  /\ \A s \in job.todo : Seen'[s] = WillBe'[s]
         /\ \A n \in Nodes \ job.todo : Seen'[n] = rec[n]
<1> USE DEF Structure, TypeOK
<1> DEFINE T == job.todo
           new == [s \in T |-> Estimate(s, Counted(s), Seen, job.dying)]
<1>1. T \subseteq Subs /\ SameLevel(T)
  BY DEF RollUpInv, PassShape, JobOK
<1>2. Highest(T) = T
  BY <1>1 DEF Highest, SameLevel, RowsOK
<1>3. job'.unsaved = [s \in Highest(T) |-> new[s]]
  BY DEF EstimateSubAccounts, JobOK, NoJob
<1>4. \A s \in T : new[s] = Estimate(s, Children(s) \ job.gone, Seen, job.dying)
  BY <1>1, TreeAssumption DEF Counted
<1> HIDE DEF new
<1>5. DOMAIN job'.unsaved = T /\ \A s \in T : job'.unsaved[s] = new[s]
  BY <1>2, <1>3
<1>6. rec' = rec /\ T \subseteq Nodes
  BY <1>1 DEF EstimateSubAccounts, Nodes, Parents
<1> QED
  BY <1>4, <1>5, <1>6, PassResult DEF Seen

LEMMA PassStep ==
  ASSUME Structure, Structure', RollUpInv, EstimateSubAccounts
  PROVE  RollUpInv'
<1> USE DEF Structure, TypeOK
<1> DEFINE T == job.todo
           above == ParentsOf(T)
           held == DOMAIN job.tree
<1>1. /\ T \subseteq Subs /\ SameLevel(T) /\ T # {} /\ held \subseteq Subs
      /\ \A s \in held, t \in T : s \in T \/ level[s] > level[t]
      /\ \A t \in T : parent[t] # None
  BY DEF RollUpInv, PassShape, JobOK, EstimateSubAccounts
<1>2. /\ UNCHANGED <<live, parent, level, raw, fringed, terms, rec>>
      /\ job'.stage = "estimate" /\ job'.todo = above \cap Subs
      /\ job'.gone = job.gone /\ job'.dying = job.dying
      /\ DOMAIN job'.tree = held \cup T \cup above
      /\ \A n \in Nodes \ T : WillBe'[n] = WillBe[n]
  BY PassResult DEF EstimateSubAccounts, rows
<1>3. \A n : Children(n)' = Children(n)
  BY <1>2 DEF Children
<1>4. \A n \in above : \A c \in Children(n), t \in T :
         c \in Subs /\ c \in Nodes /\ level[c] = level[t]
  <2> SUFFICES ASSUME NEW x \in T, NEW t \in T, NEW c \in Children(parent[x])
               PROVE  c \in Subs /\ c \in Nodes /\ level[c] = level[t]
    BY DEF ParentsOf
  <2>1. parent[x] # Budget /\ parent[x] \in Parents
    BY <1>1, TreeAssumption DEF RowsOK
  <2>2. c \in Subs /\ parent[c] = parent[x]
    BY <2>1 DEF Children
  <2>3. level[c] = level[x]
    BY <1>1, <2>2 DEF TreeShape
  <2>4. level[x] = level[t]
    BY <1>1 DEF SameLevel
  <2> QED
    BY <2>2, <2>3, <2>4 DEF Nodes, Parents
<1>5. Fresh'
  <2>1. ASSUME NEW n \in above, NEW c \in Children(n)
        PROVE  Seen'[c] = WillBe'[c]
    <3>1. c \in Subs /\ c \in Nodes /\ (c \in held => c \in T)
      BY <1>1, <1>4 DEF RowsOK
    <3>2. CASE c \in T
      BY <3>2, PassSeen
    <3>3. CASE c \notin T
      <4>1. Seen'[c] = rec[c] /\ WillBe'[c] = WillBe[c]
        BY <1>2, <3>1, <3>3, PassSeen
      <4> QED
        BY <3>1, <3>3, <4>1 DEF WillBe
    <3> QED
      BY <3>2, <3>3
  <2>2. job'.todo \cup (DOMAIN job'.tree \cap Accounts) \subseteq above
    BY <1>1, <1>2, TreeAssumption
  <2> QED
    BY <1>3, <2>1, <2>2 DEF Fresh
<1>6. GoneShape'
  BY <1>2, <1>3 DEF GoneShape, RollUpInv
<1>7. ASSUME NEW n \in Existing, n \notin Cascade(job.gone), ~Pending(n)'
      PROVE  WillBe'[n] = Estimate(n, Children(n) \ job.gone, WillBe, job.dying)'
  <2>1. n \in Nodes /\ Children(n) \subseteq Nodes
    BY RowFacts, ChildrenTyped
  <2>2. n # Budget /\ n \notin above /\ above \cap Cascade({n}) \subseteq Accounts
        /\ n \notin above \cap Accounts
    <3>1. n # Budget /\ above \cap Subs \cap Cascade({n}) = {} /\ n \notin above \cap Accounts
      BY <1>2, <1>7 DEF Pending, Cascade
    <3>2. above \subseteq Subs \cup Accounts
      BY <1>1 DEF ParentsOf, RowsOK, Parents
    <3>3. n \in Cascade({n})
      BY BelowItself DEF Cascade
    <3> QED
      BY <3>1, <3>2, <3>3
  <2>3. Children(n) \cap T = {}
    BY <2>2, TreeAssumption DEF Children, ParentsOf, Parents
  <2>4. \A c \in Children(n) : Counts(c, WillBe) = Counts(c, WillBe)'
                               /\ Brings(c, WillBe) = Brings(c, WillBe')
    <3> TAKE c \in Children(n)
    <3>1. WillBe[c] = WillBe'[c] /\ Children(c)' = Children(c) /\ raw'[c] = raw[c]
      BY <1>2, <1>3, <2>1, <2>3
    <3> QED
      BY <3>1, CountsKept
  <2>5. /\ NominalValue(n, 0) = NominalValue(n, 0)'
        /\ Effective(n, job.dying) = Effective(n, job.dying)'
        /\ (Children(n) \ job.gone)' = Children(n) \ job.gone
    BY <1>2, <1>3 DEF NominalValue, Effective
  <2>6. CASE n \in T
    <3>1. WillBe'[n] = Estimate(n, Children(n) \ job.gone, Seen, job.dying)
      BY <2>6, PassResult
    <3>2. \A c \in Children(n) : Seen[c] = WillBe[c]
      BY <2>6 DEF RollUpInv, Fresh, EstimateSubAccounts
    <3>3. \A c \in Children(n) \ job.gone : Counts(c, Seen) = Counts(c, WillBe)'
                               /\ Brings(c, Seen) = Brings(c, WillBe')
      BY <2>4, <3>2 DEF Counts, Brings
    <3>4. Estimate(n, Children(n) \ job.gone, Seen, job.dying)
            = Estimate(n, Children(n) \ job.gone, WillBe, job.dying)'
      BY <2>5, <3>3, RowKept
    <3> QED
      BY <3>1, <3>4
  <2>7. CASE n \notin T
    <3>1. T \cap Cascade({n}) = {}
      <4> SUFFICES ASSUME NEW t \in T, t \in Cascade({n}) PROVE FALSE
        OBVIOUS
      <4>1. parent[t] \in Cascade({n}) /\ parent[t] \in above
        BY <2>7, BelowUp DEF Cascade, ParentsOf
      <4>2. parent[t] \in Accounts
        BY <2>2, <4>1
      <4>3. parent[t] = n
        BY <4>1, <4>2, BelowItself, TreeAssumption DEF Cascade
      <4> QED
        BY <2>2, <4>1, <4>3
    <3>2. ~Pending(n)
      BY <1>1, <2>2, <3>1, TreeAssumption DEF Pending
    <3>3. WillBe[n] = Estimate(n, Children(n) \ job.gone, WillBe, job.dying)
      BY <1>7, <3>2 DEF RollUpInv, Done
    <3>4. Estimate(n, Children(n) \ job.gone, WillBe, job.dying)
            = Estimate(n, Children(n) \ job.gone, WillBe, job.dying)'
      BY <2>4, <2>5, RowKept
    <3> QED
      BY <1>2, <2>1, <2>7, <3>3, <3>4
  <2> QED
    BY <2>6, <2>7
<1>8. Done'
  <2>1. Existing' = Existing /\ Cascade(job.gone)' = Cascade(job.gone)
    BY <1>2 DEF Existing, Cascade
  <2> QED
    BY <1>7, <2>1 DEF Done
<1> QED
  BY <1>5, <1>6, <1>8, PassLevels DEF RollUpInv


(* With no sub-account left, the accounts reached and the budget are       *)
(* estimated, and nothing is pending any more.                             *)
LEMMA AccountsResult ==
  ASSUME Structure, RollUpInv, EstimateAccounts
  PROVE  /\ UNCHANGED <<live, parent, raw, fringed, terms, rec>>
         /\ job'.stage = "save" /\ job'.todo = {}
         /\ job'.gone = job.gone /\ job'.dying = job.dying
         /\ \A n \in Nodes : n \notin DOMAIN job.tree \cap Accounts /\ n # Budget =>
              WillBe'[n] = WillBe[n]
         /\ \A a \in DOMAIN job.tree \cap Accounts :
              WillBe'[a] = Estimate(a, Children(a), Seen, job.dying)
         /\ \E val : /\ \A a \in Accounts : val[a] = WillBe'[a]
                     /\ WillBe'[Budget] = Estimate(Budget, Children(Budget) \ job.gone,
                                                   val, job.dying)
<1> USE DEF Structure, TypeOK
<1> DEFINE held == DOMAIN job.tree
           reached == held \cap Accounts
           new == [a \in reached |-> Estimate(a, Counted(a), Seen, job.dying)]
           val == [a \in Accounts |-> IF a \in reached THEN new[a] ELSE rec[a]]
           top == IF reached # {} THEN {Budget} ELSE held \cap {Budget}
           sum == Estimate(Budget, Counted(Budget), val, job.dying)
<1>1. UNCHANGED <<live, parent, raw, fringed, terms, rec>> /\ job.stage = "estimate"
      /\ job.todo = {}
  BY DEF EstimateAccounts, rows
<1>2. job'.stage = "save" /\ job'.todo = {} /\ job'.gone = job.gone /\ job'.dying = job.dying
  BY <1>1 DEF EstimateAccounts, JobOK, NoJob
<1>3. job'.tree = [n \in held \cup top |->
                     IF n \in reached THEN new[n]
                     ELSE IF n \in top THEN sum ELSE job.tree[n]]
  BY DEF EstimateAccounts, JobOK, NoJob
<1>4. top = {Budget}
  BY <1>1 DEF RollUpInv, PassShape
<1>5. \A a \in reached : new[a] = Estimate(a, Children(a), Seen, job.dying)
  BY DEF Counted
<1>6. sum = Estimate(Budget, Children(Budget) \ job.gone, val, job.dying)
  BY TreeAssumption DEF Counted, Parents
<1>7. \A a \in Accounts : val[a] = IF a \in reached THEN new[a] ELSE rec[a]
  OBVIOUS
<1> HIDE DEF new, val, top, sum
<1>8. /\ DOMAIN job'.tree = held \cup {Budget}
      /\ \A n \in held \cup {Budget} :
           job'.tree[n] = IF n \in reached THEN new[n]
                          ELSE IF n = Budget THEN sum ELSE job.tree[n]
  BY <1>3, <1>4
<1>9. \A n \in Nodes : n \notin reached /\ n # Budget => WillBe'[n] = WillBe[n]
  BY <1>1, <1>8 DEF WillBe
<1>10. \A a \in reached : WillBe'[a] = new[a]
  BY <1>8 DEF WillBe, Nodes, Parents
<1>11. WillBe'[Budget] = sum
  BY <1>8, TreeAssumption DEF WillBe, Nodes, Parents
<1>12. \A a \in Accounts : val[a] = WillBe'[a]
  <2> TAKE a \in Accounts
  <2>1. a \in Nodes /\ a # Budget
    BY TreeAssumption DEF Nodes, Parents
  <2>2. CASE a \in reached
    BY <1>7, <1>10, <2>2
  <2>3. CASE a \notin reached
    <3>1. WillBe[a] = rec[a]
      BY <2>1, <2>3 DEF WillBe
    <3> QED
      BY <1>7, <1>9, <2>1, <2>3, <3>1
  <2> QED
    BY <2>2, <2>3
<1>13. \E v : /\ \A a \in Accounts : v[a] = WillBe'[a]
              /\ WillBe'[Budget] = Estimate(Budget, Children(Budget) \ job.gone,
                                            v, job.dying)
  BY <1>6, <1>11, <1>12
<1> QED
  BY <1>1, <1>2, <1>5, <1>9, <1>10, <1>13

LEMMA AccountsStep ==
  ASSUME Structure, Structure', RollUpInv, EstimateAccounts
  PROVE  RollUpInv'
<1> USE DEF Structure, TypeOK
<1> DEFINE reached == DOMAIN job.tree \cap Accounts
<1>1. /\ UNCHANGED <<live, parent, raw, fringed, terms, rec>>
      /\ job'.stage = "save" /\ job'.todo = {}
      /\ job'.gone = job.gone /\ job'.dying = job.dying
  BY AccountsResult
<1>2. \A n : Children(n)' = Children(n)
  BY <1>1 DEF Children
<1>3. PassShape' /\ Fresh' /\ GoneShape'
  <2>1. PassShape'
    BY <1>1 DEF PassShape, Idle, SameLevel
  <2>2. Fresh'
    BY <1>1 DEF Fresh
  <2>3. GoneShape'
    BY <1>1, <1>2 DEF GoneShape, RollUpInv
  <2> QED
    BY <2>1, <2>2, <2>3
<1>4. ASSUME NEW n \in Nodes
      PROVE  /\ NominalValue(n, 0) = NominalValue(n, 0)'
             /\ Effective(n, job.dying) = Effective(n, job.dying)'
             /\ (Children(n) \ job.gone)' = Children(n) \ job.gone
  BY <1>1, <1>2 DEF NominalValue, Effective
<1>5. ASSUME NEW n \in Existing, n \notin Cascade(job.gone)
      PROVE  WillBe'[n] = Estimate(n, Children(n) \ job.gone, WillBe, job.dying)'
  <2>1. n \in Nodes /\ Children(n) \subseteq Nodes /\ (n # Budget => Children(n) \subseteq Subs)
    BY RowFacts, ChildrenTyped
  <2>2. \A c \in Subs : WillBe'[c] = WillBe[c]
    BY AccountsResult, TreeAssumption DEF Nodes, Parents
  <2>3. /\ NominalValue(n, 0) = NominalValue(n, 0)'
        /\ Effective(n, job.dying) = Effective(n, job.dying)'
        /\ (Children(n) \ job.gone)' = Children(n) \ job.gone
    BY <1>4, <2>1
  <2>4. CASE n \in reached
    <3>1. WillBe'[n] = Estimate(n, Children(n), Seen, job.dying)
      BY <2>4, AccountsResult
    <3>2. n # Budget /\ n \notin Subs
      BY <2>4, TreeAssumption DEF Parents
    <3>3. Children(n) \ job.gone = Children(n)
      BY <2>4, <3>2, TreeAssumption DEF RollUpInv, GoneShape, Children
    <3>4. \A c \in Children(n) : Seen[c] = WillBe'[c]
      BY <2>1, <2>2, <2>4, <3>2 DEF RollUpInv, Fresh, EstimateAccounts
    <3>5. \A c \in Children(n) : Counts(c, Seen) = Counts(c, WillBe)'
                                 /\ Brings(c, Seen) = Brings(c, WillBe')
      <4> TAKE c \in Children(n)
      <4>1. Seen[c] = WillBe'[c] /\ Children(c)' = Children(c) /\ raw'[c] = raw[c]
        BY <1>1, <1>2, <3>4
      <4> QED
        BY <4>1, CountsKept
    <3>6. Estimate(n, Children(n), Seen, job.dying)
            = Estimate(n, Children(n) \ job.gone, WillBe, job.dying)'
      BY <2>3, <3>3, <3>5, RowKept
    <3> QED
      BY <3>1, <3>6
  <2>5. CASE n = Budget
    <3>1. PICK val : /\ \A a \in Accounts : val[a] = WillBe'[a]
                     /\ WillBe'[Budget] = Estimate(Budget, Children(Budget) \ job.gone,
                                                   val, job.dying)
      BY AccountsResult
    <3>2. n \notin Subs /\ Children(n) \subseteq Accounts
      BY <2>5, RowFacts DEF Children
    <3>3. \A c \in Children(n) \ job.gone :
             Counts(c, val) = Counts(c, WillBe)' /\ Brings(c, val) = Brings(c, WillBe')
      <4> TAKE c \in Children(n) \ job.gone
      <4>1. val[c] = WillBe'[c] /\ c \notin Subs
        BY <3>1, <3>2, TreeAssumption
      <4> QED
        BY <4>1, CountsKept
    <3>4. Estimate(n, Children(n) \ job.gone, val, job.dying)
            = Estimate(n, Children(n) \ job.gone, WillBe, job.dying)'
      BY <2>3, <3>3, RowKept
    <3> QED
      BY <2>5, <3>1, <3>4
  <2>6. CASE n \notin reached /\ n # Budget
    <3>1. WillBe'[n] = WillBe[n]
      BY <2>1, <2>6, AccountsResult
    <3>2. ~Pending(n)
      BY <2>6 DEF Pending, EstimateAccounts
    <3>3. WillBe[n] = Estimate(n, Children(n) \ job.gone, WillBe, job.dying)
      BY <1>5, <3>2 DEF RollUpInv, Done
    <3>4. \A c \in Children(n) \ job.gone :
             Counts(c, WillBe) = Counts(c, WillBe)' /\ Brings(c, WillBe) = Brings(c, WillBe')
      <4> TAKE c \in Children(n) \ job.gone
      <4>1. WillBe[c] = WillBe'[c] /\ Children(c)' = Children(c) /\ raw'[c] = raw[c]
        BY <1>1, <1>2, <2>1, <2>2, <2>6
      <4> QED
        BY <4>1, CountsKept
    <3>5. Estimate(n, Children(n) \ job.gone, WillBe, job.dying)
            = Estimate(n, Children(n) \ job.gone, WillBe, job.dying)'
      BY <2>3, <3>4, RowKept
    <3> QED
      BY <3>1, <3>3, <3>5
  <2> QED
    BY <2>4, <2>5, <2>6
<1>6. Done'
  <2>1. Existing' = Existing /\ Cascade(job.gone)' = Cascade(job.gone)
    BY <1>1 DEF Existing, Cascade
  <2> QED
    BY <1>5, <2>1 DEF Done
<1> QED
  BY <1>3, <1>6 DEF RollUpInv

(* What is saved is what was estimated, and the deleted rows were not      *)
(* counted.                                                                *)
LEMMA SaveStep ==
  ASSUME Structure, Structure', RollUpInv, Save
  PROVE  RollUpInv'
<1> USE DEF Structure, TypeOK
<1> DEFINE G == Cascade(job.gone)
<1>1. /\ job.stage = "save" /\ job' = NoJob /\ job.gone \in SUBSET Parents
      /\ RemoveRows(G, job.dying)
      /\ \A n \in Nodes \ G : rec'[n] = WillBe[n]
  BY DEF Save, JobOK, WillBe
<1>2. /\ PassShape' /\ GoneShape' /\ Fresh' /\ job'.gone = {} /\ job'.dying = {}
      /\ \A n \in Nodes \ G : WillBe'[n] = WillBe[n]
  BY <1>1, IdleShape
<1>3. \A n \in Nodes \ G : Children(n)' = Children(n) \ job.gone
  BY <1>1, ChildrenCut
<1>4. \A s \in Subs \ G : raw'[s] = raw[s] /\ fringed'[s] = fringed[s] \ job.dying
  BY <1>1 DEF RemoveRows
<1>5. \A n \in Existing \ G :
         WillBe[n] = Estimate(n, Children(n) \ job.gone, WillBe, job.dying)
  BY <1>1 DEF RollUpInv, Done, Pending
<1>6. ASSUME NEW n \in Existing'
      PROVE  n \in Existing \ G /\ n \in Nodes
  BY <1>1, <1>6, RowFacts, BelowItself DEF Existing, RemoveRows, Cascade, Parents
<1>7. ASSUME NEW n \in Existing'
      PROVE  WillBe'[n] = Estimate(n, Children(n), WillBe, job.dying)'
  <2>1. n \in Existing \ G /\ n \in Nodes /\ Children(n)' = Children(n) \ job.gone
    BY <1>3, <1>6
  <2>2. ASSUME NEW c \in Children(n) \ job.gone
        PROVE  Counts(c, WillBe) = Counts(c, WillBe)' /\ Brings(c, WillBe) = Brings(c, WillBe')
    <3>1. c \in Existing' /\ (c \in Subs \/ c \in Accounts)
      BY <2>1, <2>2, TreeAssumption, RowFacts DEF Children, Existing, Nodes
    <3>2. c \in Existing \ G /\ c \in Nodes /\ WillBe'[c] = WillBe[c]
          /\ Children(c)' = Children(c) \ job.gone
      BY <1>2, <1>3, <1>6, <3>1
    <3>3. CASE c \in Subs => (Children(c) = {} <=> Children(c)' = {})
      BY <1>4, <3>2, <3>3, CountsKept
    <3>4. CASE c \in Subs /\ Children(c) # {} /\ Children(c)' = {}
      <4>1. raw[c] = 0 /\ raw'[c] = 0
        BY <1>4, <3>2, <3>4 DEF RollUpInv, GoneShape
      <4>2. WillBe[c].accumulated = 0
        <5>1. Total(Nominals({}, WillBe)) = 0
          BY TotalZero DEF Nominals
        <5>2. WillBe[c] = Estimate(c, {}, WillBe, job.dying)
          BY <1>5, <3>2, <3>4
        <5> QED
          BY <5>1, <5>2 DEF Estimate, Figures
      <4> QED
        BY <3>2, <3>4, <4>1, <4>2 DEF Counts, Brings, NominalValue
    <3> QED
      BY <3>2, <3>3, <3>4
  <2>3. ASSUME n \in Subs, Children(n) \ job.gone = {}
        PROVE  NominalValue(n, 0) = NominalValue(n, 0)'
               /\ Effective(n, job.dying) = Effective(n, job.dying)'
    <3>1. raw'[n] = raw[n] /\ (Children(n) # {} => raw[n] = 0) /\ Children(n)' = {}
      BY <1>4, <2>1, <2>3 DEF RollUpInv, GoneShape
    <3>2. NominalValue(n, 0) = NominalValue(n, 0)'
      BY <3>1 DEF NominalValue
    <3>3. fringed'[n] \ job'.dying = fringed[n] \ job.dying /\ terms' = terms
      BY <1>1, <1>2, <1>4, <2>1, <2>3 DEF RemoveRows
    <3> QED
      BY <3>2, <3>3 DEF Effective
  <2>4. Estimate(n, Children(n) \ job.gone, WillBe, job.dying)
          = Estimate(n, Children(n), WillBe, job.dying)'
    BY <2>1, <2>2, <2>3, RowKept
  <2> QED
    BY <1>2, <1>5, <2>1, <2>4
<1> QED
  BY <1>2, <1>7, DoneFrom DEF RollUpInv


-----------------------------------------------------------------------------
(* All steps together.                                                     *)

LEMMA AddsStep ==
  ASSUME Structure, Structure', RollUpInv, Avoided = Situations,
         \/ \E q \in Parents, s \in Subs, v \in Raws : CreateSubAccount(q, s, v)
         \/ \E q \in Parents, S \in SUBSET Subs : \E value \in [S -> Raws] : BulkAdd(q, S, value)
  PROVE  RollUpInv'
<1>1. ASSUME NEW q \in Parents, NEW s \in Subs, NEW v \in Raws,
             CreateSubAccount(q, s, v)
      PROVE  RollUpInv'
  <2> DEFINE value == [t \in {s} |-> v]
             valued == {t \in {s} : value[t] # 0}
  <2>1. valued = IF v # 0 THEN {s} ELSE {}
    OBVIOUS
  <2>2. /\ Idle /\ AddRows(q, {s}, value) /\ ~FirstChildWithoutValue(q, {s}, value)
        /\ job' = IF v # 0 THEN Begin({s}, {}) ELSE NoJob
    BY <1>1 DEF CreateSubAccount, Avoids, Situations
  <2>3. job' = IF valued = {} THEN NoJob ELSE Begin(valued, {})
    <3>1. CASE v # 0
      BY <2>1, <2>2, <3>1
    <3>2. CASE v = 0
      BY <2>1, <2>2, <3>2
    <3> QED
      BY <3>1, <3>2
  <2>4. {s} \in SUBSET Subs /\ value \in [{s} -> Raws]
    OBVIOUS
  <2>5. valued = {t \in {s} : value[t] # 0}
    OBVIOUS
  <2> HIDE DEF value, valued
  <2> QED
    BY <2>2, <2>3, <2>4, <2>5, AddRowsStep
<1>2. ASSUME NEW q \in Parents, NEW S \in SUBSET Subs, NEW value \in [S -> Raws],
             BulkAdd(q, S, value)
      PROVE  RollUpInv'
  <2> DEFINE valued == {t \in S : value[t] # 0}
  <2>1. Idle /\ AddRows(q, S, value) /\ ~FirstChildWithoutValue(q, S, value)
    BY <1>2 DEF BulkAdd, Avoids, Situations
  <2>2. job' = IF valued = {} THEN NoJob ELSE Begin(valued, {})
    BY <1>2 DEF BulkAdd
  <2>3. valued = {t \in S : value[t] # 0}
    OBVIOUS
  <2> HIDE DEF valued
  <2> QED
    BY <2>1, <2>2, <2>3, AddRowsStep
<1> QED
  BY <1>1, <1>2

LEMMA RollUpStep ==
  ASSUME Structure, Structure', RollUpInv, Avoided = Situations, [Next]_vars
  PROVE  RollUpInv'
<1>1. CASE Request
  <2>1. CASE \E q \in Parents, s \in Subs, v \in Raws : CreateSubAccount(q, s, v)
    BY <2>1, AddsStep
  <2>2. CASE \E q \in Parents, S \in SUBSET Subs : \E value \in [S -> Raws] :
               BulkAdd(q, S, value) \/ BulkSave(q, S, value)
    <3>1. PICK q \in Parents, S \in SUBSET Subs :
            \E value \in [S -> Raws] : BulkAdd(q, S, value) \/ BulkSave(q, S, value)
      BY <2>2
    <3>2. PICK value \in [S -> Raws] : BulkAdd(q, S, value) \/ BulkSave(q, S, value)
      BY <3>1
    <3> QED
      BY <3>2, AddsStep, FieldsStep
  <2>3. CASE \E s \in Subs, v \in Raws : UpdateSubAccount(s, v)
    BY <2>3, FieldsStep
  <2>4. CASE \E s \in Subs : DeleteSubAccount(s)
    BY <2>4, SingleRowsStep
  <2>5. CASE \E q \in Parents, S \in SUBSET Subs : BulkDelete(q, S)
    BY <2>5, BulkDeletesStep
  <2>6. CASE \E a \in Accounts : CreateAccount(a) \/ DeleteAccount(a)
    BY <2>6, SingleRowsStep
  <2>7. CASE \E S \in SUBSET Accounts : BulkDeleteAccounts(S)
    BY <2>7, BulkDeletesStep
  <2>8. CASE \E s \in Subs, fs \in SUBSET Fringes : FringesChanged(s, fs)
    BY <2>8, FieldsStep
  <2>9. CASE \E F \in SUBSET Fringes :
               \/ \E saying \in [F -> Terms] : SaveFringes(F, saying)
               \/ DeleteFringes(F)
    BY <2>9, FringesStep
  <2> QED
    BY <1>1, <2>1, <2>2, <2>3, <2>4, <2>5, <2>6, <2>7, <2>8, <2>9 DEF Request
<1>2. CASE Routine
  BY <1>2, PassStep, AccountsStep, SaveStep DEF Routine
<1>3. CASE UNCHANGED vars
  <2>1. UNCHANGED <<live, parent, level, raw, fringed, terms, rec, job>>
    BY <1>3 DEF vars
  <2>2. /\ \A n : Children(n)' = Children(n)
        /\ Existing' = Existing /\ WillBe' = WillBe /\ Seen' = Seen
        /\ Cascade(job.gone)' = Cascade(job.gone)
        /\ \A n : Pending(n)' <=> Pending(n)
    BY <2>1 DEF Children, Existing, WillBe, Seen, Cascade, Pending
  <2>3. PassShape' /\ GoneShape' /\ Fresh'
    BY <2>1, <2>2 DEF RollUpInv, PassShape, GoneShape, Fresh, Idle, SameLevel
  <2>4. ASSUME NEW n
        PROVE  Estimate(n, Children(n) \ job.gone, WillBe, job.dying)
                 = Estimate(n, Children(n) \ job.gone, WillBe, job.dying)'
    <3>1. /\ NominalValue(n, 0) = NominalValue(n, 0)'
          /\ Effective(n, job.dying) = Effective(n, job.dying)'
          /\ (Children(n) \ job.gone)' = Children(n) \ job.gone
      BY <2>1, <2>2 DEF NominalValue, Effective
    <3>2. \A c \in Children(n) \ job.gone :
             Counts(c, WillBe) = Counts(c, WillBe)' /\ Brings(c, WillBe) = Brings(c, WillBe')
      BY <2>1, <2>2, CountsKept
    <3> QED
      BY <3>1, <3>2, RowKept
  <2>5. Done'
    BY <2>1, <2>2, <2>4 DEF RollUpInv, Done
  <2> QED
    BY <2>3, <2>5 DEF RollUpInv
<1> QED
  BY <1>1, <1>2, <1>3 DEF Next

LEMMA RollUpInit ==
  ASSUME Init
  PROVE  RollUpInv
<1>1. /\ live = {} /\ job = NoJob /\ \A s \in Subs : parent[s] = None
      /\ \A n \in Nodes : rec[n] = Zero
  BY DEF Init
<1>2. job.gone = {} /\ job.stage = "idle" /\ DOMAIN job.tree = {} /\ job.todo = {}
  BY <1>1, NoJobShape, UnwrittenEmpty
<1>3. Existing = {Budget} /\ Children(Budget) = {}
  BY <1>1 DEF Existing, Children
<1>4. PassShape
  BY <1>1, <1>2 DEF PassShape, Idle, SameLevel
<1>5. GoneShape
  BY <1>2 DEF GoneShape
<1>6. Fresh
  BY <1>2 DEF Fresh
<1>7. WillBe[Budget] = Estimate(Budget, {}, WillBe, job.dying)
  <2>1. Total(Nominals({}, WillBe)) = 0 /\ Total(FromFringes({}, WillBe)) = 0
    BY TotalZero DEF Nominals, FromFringes
  <2>2. WillBe[Budget] = Zero
    BY <1>1, <1>2 DEF WillBe, Nodes
  <2>3. OwnFringes(Budget, {}, WillBe, job.dying) = 0
    BY TreeAssumption DEF OwnFringes, Parents
  <2> QED
    BY <2>1, <2>2, <2>3 DEF Estimate, Figures, Zero
<1>8. Done
  BY <1>2, <1>3, <1>7 DEF Done
<1> QED
  BY <1>4, <1>5, <1>6, <1>8 DEF RollUpInv

(* The invariant of the routine, for any set of rows and any request that  *)
(* avoids the situations of Situations.                                    *)
THEOREM RoutineCorrect ==
  ASSUME Avoided = Situations
  PROVE  Spec => []RoutineInv
<1>1. Init => Structure /\ RollUpInv
  BY StructureInit, RollUpInit
<1>2. Structure /\ RollUpInv /\ [Next]_vars => (Structure /\ RollUpInv)'
  BY StructureStep, RollUpStep
<1>3. Structure /\ RollUpInv => RoutineInv
  BY DEF Structure, RollUpInv, RoutineInv
<1> QED
  BY <1>1, <1>2, <1>3, PTL DEF Spec

(* No figure is stale once a request has been served.                      *)
THEOREM SettledCorrect ==
  ASSUME Avoided = Situations
  PROVE  Spec => []Settled
<1>1. RoutineInv => Settled
  <2> SUFFICES ASSUME RoutineInv, Idle, NEW n \in Existing
               PROVE  Estimated(n)
    BY DEF Settled
  <2>1. Structure /\ RollUpInv
    BY DEF RoutineInv, Structure, RollUpInv
  <2>2. n \in Nodes /\ Children(n) \subseteq Nodes
    BY <2>1, RowFacts, ChildrenTyped DEF Structure, TypeOK
  <2>3. /\ \A m \in Nodes : WillBe[m] = rec[m]
        /\ WillBe[n] = Estimate(n, Children(n), WillBe, {})
    BY <2>1, IdleFacts
  <2>4. Estimate(n, Children(n), WillBe, {}) = Estimate(n, Children(n), rec, {})
    <3>1. /\ Nominals(Children(n), WillBe) = Nominals(Children(n), rec)
          /\ FromFringes(Children(n), WillBe) = FromFringes(Children(n), rec)
      BY <2>2, <2>3 DEF Nominals, FromFringes
    <3> QED
      BY <3>1 DEF Estimate, OwnFringes
  <2> QED
    BY <2>2, <2>3, <2>4 DEF Estimated
<1> QED
  BY <1>1, RoutineCorrect, PTL


(* What is below a sub-account is on a lower level.                        *)
LEMMA BelowLower ==
  ASSUME RowsOK, TreeShape, NEW s \in Subs, NEW t \in Cascade({s}), t # s
  PROVE  level[t] > level[s]
<1> DEFINE K == {c \in Subs : level[c] > level[s]}
<1>1. ASSUME NEW c \in Subs, parent[c] \in K \cup {s}
      PROVE  c \in K
  <2>1. parent[c] \in Subs /\ parent[c] # None
    BY <1>1, RowFacts
  <2>2. level[c] = level[parent[c]] + 1 /\ level[parent[c]] >= level[s]
    BY <1>1, <2>1 DEF TreeShape, RowsOK
  <2> QED
    BY <2>1, <2>2 DEF RowsOK
<1>2. K \in SUBSET Subs
  OBVIOUS
<1>3. t \in Subs /\ \A L \in SUBSET Subs :
        (\A c \in Subs : parent[c] \in L \cup {s} => c \in L) => t \in L
  BY DEF Cascade, Below
<1>4. t \in K
  BY <1>1, <1>2, <1>3
<1> QED
  BY <1>4

(* The routine never estimates a row before what is below it.              *)
THEOREM BottomUpCorrect ==
  ASSUME Avoided = Situations
  PROVE  Spec => []BottomUp
<1>1. RoutineInv => BottomUp
  <2> SUFFICES ASSUME RoutineInv PROVE BottomUp
    OBVIOUS
  <2> USE DEF RoutineInv, TypeOK
  <2>1. ASSUME NEW s \in job.todo, NEW t \in job.todo, t \in Cascade({s}), t # s
        PROVE  FALSE
    <3>1. s \in Subs /\ t \in Subs /\ level[s] = level[t]
      BY DEF PassShape, SameLevel, JobOK
    <3>2. level[t] > level[s]
      BY <2>1, <3>1, BelowLower
    <3> QED
      BY <3>1, <3>2 DEF RowsOK
  <2>2. job.todo \cap DOMAIN job.tree \subseteq job.alias
    BY DEF PassShape, JobOK
  <2> QED
    BY <2>1, <2>2 DEF BottomUp
<1> QED
  BY <1>1, RoutineCorrect, PTL


=============================================================================
