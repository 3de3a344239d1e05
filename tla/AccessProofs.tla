----------------------------- MODULE AccessProofs -----------------------------
(* Theorems about who may do what, for any users, budgets and templates.     *)
EXTENDS Access, SequenceTheorems, TLAPS

-------------------------------------------------------------------------------
(* What permissions say, alone and composed. *)

Verdicts == {Granted, Denied, Crash}
Perms == [verdict : Verdicts, after : {"checked", "skipped"}]
Stops(p) == p.verdict = Denied /\ p.after = "skipped"

LEMMA SaysIs ==
  ASSUME NEW v \in Verdicts
  PROVE  Says(v) \in Perms /\ Says(v).verdict = v /\ Says(v).after = "checked"
BY DEF Says, Perms

(* AND of one, two or three permissions: it grants when all do, and fails    *)
(* when one is reached that fails.                                           *)
LEMMA AllOfOne ==
  ASSUME NEW p \in Perms
  PROVE  /\ AllOf(<<p>>) \in Perms /\ AllOf(<<p>>).after = "checked"
         /\ AllOf(<<p>>).verdict = p.verdict
<1> DEFINE ps == <<p>>
<1>1. DOMAIN ps = {1} /\ ps[1] = p
  OBVIOUS
<1> HIDE DEF ps
<1>2. Reached(ps) = {1}
  BY <1>1 DEF Reached
<1>3. p.verdict \in Verdicts
  BY DEF Perms
<1>4. AllOf(ps) = Says(p.verdict)
  BY <1>1, <1>2, <1>3 DEF AllOf, Verdicts, Granted, Denied, Crash
<1> QED
  BY <1>3, <1>4, SaysIs DEF ps

LEMMA AllOfTwo ==
  ASSUME NEW p \in Perms, NEW q \in Perms
  PROVE  /\ AllOf(<<p, q>>) \in Perms /\ AllOf(<<p, q>>).after = "checked"
         /\ AllOf(<<p, q>>).verdict = Granted <=> p.verdict = Granted /\ q.verdict = Granted
         /\ AllOf(<<p, q>>).verdict = Crash <=>
              \/ p.verdict = Crash
              \/ ~ Stops(p) /\ q.verdict = Crash
<1> DEFINE ps == <<p, q>>
           v == AllOf(ps).verdict
<1>1. DOMAIN ps = {1, 2} /\ ps[1] = p /\ ps[2] = q
  OBVIOUS
<1> HIDE DEF ps
<1>2. /\ 1 \in Reached(ps)
      /\ 2 \in Reached(ps) <=> p.verdict # Crash /\ ~ Stops(p)
      /\ Reached(ps) \subseteq {1, 2}
  BY <1>1 DEF Reached, Stops
<1>3. /\ (\E i \in Reached(ps) : ps[i].verdict = Crash)
           <=> p.verdict = Crash \/ (~ Stops(p) /\ q.verdict = Crash)
      /\ (\A i \in DOMAIN ps : ps[i].verdict = Granted)
           <=> p.verdict = Granted /\ q.verdict = Granted
  BY <1>1, <1>2
<1>4. \E said \in Verdicts :
        /\ AllOf(ps) = Says(said)
        /\ said = Crash <=> \E i \in Reached(ps) : ps[i].verdict = Crash
        /\ said = Granted <=> /\ \A i \in DOMAIN ps : ps[i].verdict = Granted
                              /\ ~ \E i \in Reached(ps) : ps[i].verdict = Crash
  BY DEF AllOf, Verdicts, Granted, Denied, Crash
<1> QED
  BY <1>3, <1>4, SaysIs DEF ps, Granted, Crash

LEMMA AllOfThree ==
  ASSUME NEW p \in Perms, NEW q \in Perms, NEW t \in Perms
  PROVE  /\ AllOf(<<p, q, t>>) \in Perms /\ AllOf(<<p, q, t>>).after = "checked"
         /\ AllOf(<<p, q, t>>).verdict = Granted <=>
              p.verdict = Granted /\ q.verdict = Granted /\ t.verdict = Granted
         /\ AllOf(<<p, q, t>>).verdict = Crash <=>
              \/ p.verdict = Crash
              \/ ~ Stops(p) /\ q.verdict = Crash
              \/ ~ Stops(p) /\ ~ Stops(q) /\ t.verdict = Crash
<1> DEFINE ps == <<p, q, t>>
<1>1. DOMAIN ps = {1, 2, 3} /\ ps[1] = p /\ ps[2] = q /\ ps[3] = t
  OBVIOUS
<1> HIDE DEF ps
<1>2. /\ 1 \in Reached(ps)
      /\ 2 \in Reached(ps) <=> p.verdict # Crash /\ ~ Stops(p)
      /\ 3 \in Reached(ps) <=> /\ p.verdict # Crash /\ ~ Stops(p)
                               /\ q.verdict # Crash /\ ~ Stops(q)
      /\ Reached(ps) \subseteq {1, 2, 3}
  BY <1>1 DEF Reached, Stops
<1>3. /\ (\E i \in Reached(ps) : ps[i].verdict = Crash)
           <=> \/ p.verdict = Crash
               \/ ~ Stops(p) /\ q.verdict = Crash
               \/ ~ Stops(p) /\ ~ Stops(q) /\ t.verdict = Crash
      /\ (\A i \in DOMAIN ps : ps[i].verdict = Granted)
           <=> p.verdict = Granted /\ q.verdict = Granted /\ t.verdict = Granted
  BY <1>1, <1>2
<1>4. \E said \in Verdicts :
        /\ AllOf(ps) = Says(said)
        /\ said = Crash <=> \E i \in Reached(ps) : ps[i].verdict = Crash
        /\ said = Granted <=> /\ \A i \in DOMAIN ps : ps[i].verdict = Granted
                              /\ ~ \E i \in Reached(ps) : ps[i].verdict = Crash
  BY DEF AllOf, Verdicts, Granted, Denied, Crash
<1> QED
  BY <1>3, <1>4, SaysIs DEF ps, Granted, Crash, Stops

(* OR of permissions says what the first of them says that does not deny.    *)
LEMMA AnyOfNone ==
  ASSUME NEW ps, ps # <<>>, \A i \in DOMAIN ps : ps[i].verdict = Denied
  PROVE  AnyOf(ps) = Says(Denied)
BY DEF AnyOf

LEMMA AnyOfFirst ==
  ASSUME NEW ps, NEW n \in Nat, ps # <<>>, DOMAIN ps = 1..n,
         NEW i \in 1..n, ps[i].verdict # Denied,
         \A j \in 1..(i - 1) : ps[j].verdict = Denied
  PROVE  AnyOf(ps) = Says(ps[i].verdict)
<1> DEFINE Decides(k) == \A j \in 1..(k - 1) : ps[j].verdict = Denied
           f == CHOOSE k \in DOMAIN ps : ps[k].verdict # Denied /\ Decides(k)
<1>1. i \in DOMAIN ps /\ ps[i].verdict # Denied /\ Decides(i)
  OBVIOUS
<1>2. f \in 1..n /\ ps[f].verdict # Denied /\ Decides(f)
  <2> HIDE DEF Decides
  <2> QED
    BY <1>1
<1>3. AnyOf(ps) = Says(ps[f].verdict)
  BY DEF AnyOf
<1> HIDE DEF f
<1>4. ~ (i < f) /\ ~ (f < i)
  BY <1>1, <1>2
<1>5. i = f
  BY <1>2, <1>4
<1> QED
  BY <1>3, <1>5

LEMMA AnyOfTwo ==
  ASSUME NEW p \in Perms, NEW q \in Perms
  PROVE  /\ AnyOf(<<p, q>>) \in Perms /\ AnyOf(<<p, q>>).after = "checked"
         /\ AnyOf(<<p, q>>).verdict = Granted <=>
              \/ p.verdict = Granted
              \/ p.verdict = Denied /\ q.verdict = Granted
         /\ AnyOf(<<p, q>>).verdict = Crash <=>
              \/ p.verdict = Crash
              \/ p.verdict = Denied /\ q.verdict = Crash
<1> DEFINE ps == <<p, q>>
<1>1. DOMAIN ps = 1..2 /\ ps[1] = p /\ ps[2] = q /\ ps # <<>>
  OBVIOUS
<1> HIDE DEF ps
<1>2. p.verdict \in Verdicts /\ q.verdict \in Verdicts
  BY DEF Perms
<1>3. p.verdict # Denied => AnyOf(ps) = Says(p.verdict)
  <2>1. 1 \in 1..2 /\ \A j \in 1..(1 - 1) : ps[j].verdict = Denied
    OBVIOUS
  <2> QED
    BY <1>1, <2>1, AnyOfFirst
<1>4. p.verdict = Denied /\ q.verdict # Denied => AnyOf(ps) = Says(q.verdict)
  <2>1. 2 \in 1..2 /\ \A j \in 1..(2 - 1) : j = 1
    OBVIOUS
  <2> QED
    BY <1>1, <2>1, AnyOfFirst
<1>5. p.verdict = Denied /\ q.verdict = Denied => AnyOf(ps) = Says(Denied)
  <2>1. \A i \in 1..2 : i = 1 \/ i = 2
    OBVIOUS
  <2> QED
    BY <1>1, <2>1, AnyOfNone
<1> QED
  BY <1>2, <1>3, <1>4, <1>5, SaysIs DEF ps, Verdicts, Granted, Denied, Crash

LEMMA AnyOfThree ==
  ASSUME NEW p \in Perms, NEW q \in Perms, NEW t \in Perms
  PROVE  /\ AnyOf(<<p, q, t>>) \in Perms /\ AnyOf(<<p, q, t>>).after = "checked"
         /\ AnyOf(<<p, q, t>>).verdict = Granted <=>
              \/ p.verdict = Granted
              \/ p.verdict = Denied /\ q.verdict = Granted
              \/ p.verdict = Denied /\ q.verdict = Denied /\ t.verdict = Granted
         /\ AnyOf(<<p, q, t>>).verdict = Crash <=>
              \/ p.verdict = Crash
              \/ p.verdict = Denied /\ q.verdict = Crash
              \/ p.verdict = Denied /\ q.verdict = Denied /\ t.verdict = Crash
<1> DEFINE ps == <<p, q, t>>
<1>1. DOMAIN ps = 1..3 /\ ps[1] = p /\ ps[2] = q /\ ps[3] = t /\ ps # <<>>
  OBVIOUS
<1> HIDE DEF ps
<1>2. p.verdict \in Verdicts /\ q.verdict \in Verdicts /\ t.verdict \in Verdicts
  BY DEF Perms
<1>3. p.verdict # Denied => AnyOf(ps) = Says(p.verdict)
  <2>1. 1 \in 1..3 /\ \A j \in 1..(1 - 1) : ps[j].verdict = Denied
    OBVIOUS
  <2> QED
    BY <1>1, <2>1, AnyOfFirst
<1>4. p.verdict = Denied /\ q.verdict # Denied => AnyOf(ps) = Says(q.verdict)
  <2>1. 2 \in 1..3 /\ \A j \in 1..(2 - 1) : j = 1
    OBVIOUS
  <2> QED
    BY <1>1, <2>1, AnyOfFirst
<1>5. p.verdict = Denied /\ q.verdict = Denied /\ t.verdict # Denied
      => AnyOf(ps) = Says(t.verdict)
  <2>1. 3 \in 1..3 /\ \A j \in 1..(3 - 1) : j = 1 \/ j = 2
    OBVIOUS
  <2> QED
    BY <1>1, <2>1, AnyOfFirst
<1>6. p.verdict = Denied /\ q.verdict = Denied /\ t.verdict = Denied
      => AnyOf(ps) = Says(Denied)
  <2>1. \A i \in 1..3 : i = 1 \/ i = 2 \/ i = 3
    OBVIOUS
  <2> QED
    BY <1>1, <2>1, AnyOfNone
<1> QED
  BY <1>2, <1>3, <1>4, <1>5, <1>6, SaysIs DEF ps, Verdicts, Granted, Denied, Crash

LEMMA AnyOfFour ==
  ASSUME NEW p \in Perms, NEW q \in Perms, NEW t \in Perms, NEW v \in Perms
  PROVE  /\ AnyOf(<<p, q, t, v>>) \in Perms /\ AnyOf(<<p, q, t, v>>).after = "checked"
         /\ AnyOf(<<p, q, t, v>>).verdict = Granted <=>
              \/ p.verdict = Granted
              \/ p.verdict = Denied /\ q.verdict = Granted
              \/ p.verdict = Denied /\ q.verdict = Denied /\ t.verdict = Granted
              \/ /\ p.verdict = Denied /\ q.verdict = Denied /\ t.verdict = Denied
                 /\ v.verdict = Granted
         /\ AnyOf(<<p, q, t, v>>).verdict = Crash <=>
              \/ p.verdict = Crash
              \/ p.verdict = Denied /\ q.verdict = Crash
              \/ p.verdict = Denied /\ q.verdict = Denied /\ t.verdict = Crash
              \/ /\ p.verdict = Denied /\ q.verdict = Denied /\ t.verdict = Denied
                 /\ v.verdict = Crash
<1> DEFINE ps == <<p, q, t, v>>
<1>1. DOMAIN ps = 1..4 /\ ps[1] = p /\ ps[2] = q /\ ps[3] = t /\ ps[4] = v /\ ps # <<>>
  OBVIOUS
<1> HIDE DEF ps
<1>2. /\ p.verdict \in Verdicts /\ q.verdict \in Verdicts
      /\ t.verdict \in Verdicts /\ v.verdict \in Verdicts
  BY DEF Perms
<1>3. p.verdict # Denied => AnyOf(ps) = Says(p.verdict)
  <2>1. 1 \in 1..4 /\ \A j \in 1..(1 - 1) : ps[j].verdict = Denied
    OBVIOUS
  <2> QED
    BY <1>1, <2>1, AnyOfFirst
<1>4. p.verdict = Denied /\ q.verdict # Denied => AnyOf(ps) = Says(q.verdict)
  <2>1. 2 \in 1..4 /\ \A j \in 1..(2 - 1) : j = 1
    OBVIOUS
  <2> QED
    BY <1>1, <2>1, AnyOfFirst
<1>5. p.verdict = Denied /\ q.verdict = Denied /\ t.verdict # Denied
      => AnyOf(ps) = Says(t.verdict)
  <2>1. 3 \in 1..4 /\ \A j \in 1..(3 - 1) : j = 1 \/ j = 2
    OBVIOUS
  <2> QED
    BY <1>1, <2>1, AnyOfFirst
<1>6. /\ p.verdict = Denied /\ q.verdict = Denied /\ t.verdict = Denied
      /\ v.verdict # Denied
      => AnyOf(ps) = Says(v.verdict)
  <2>1. 4 \in 1..4 /\ \A j \in 1..(4 - 1) : j = 1 \/ j = 2 \/ j = 3
    OBVIOUS
  <2> QED
    BY <1>1, <2>1, AnyOfFirst
<1>7. /\ p.verdict = Denied /\ q.verdict = Denied /\ t.verdict = Denied
      /\ v.verdict = Denied
      => AnyOf(ps) = Says(Denied)
  <2>1. \A i \in 1..4 : i = 1 \/ i = 2 \/ i = 3 \/ i = 4
    OBVIOUS
  <2> QED
    BY <1>1, <2>1, AnyOfNone
<1> QED
  BY <1>2, <1>3, <1>4, <1>5, <1>6, <1>7, SaysIs DEF ps, Verdicts, Granted, Denied, Crash
(* What each single condition says. *)
LEMMA PermIs ==
  ASSUME NEW ok \in BOOLEAN
  PROVE  /\ Perm(ok) \in Perms /\ Perm(ok).after = "checked"
         /\ Perm(ok).verdict = Granted <=> ok
         /\ Perm(ok).verdict # Crash
BY DEF Perm, Says, Perms, Verdicts, Granted, Denied, Crash

LEMMA OfUserIs ==
  ASSUME NEW r, NEW ok \in BOOLEAN
  PROVE  /\ PermOfUser(r, ok) \in Perms /\ PermOfUser(r, ok).after = "checked"
         /\ PermOfUser(r, ok).verdict = Granted <=> SignedIn(r) /\ ok
         /\ PermOfUser(r, ok).verdict = Crash <=> ~ SignedIn(r)
BY PermIs DEF PermOfUser, Says, Perms, Verdicts, Granted, Denied, Crash

LEMMA StoppingIs ==
  ASSUME NEW p \in Perms
  PROVE  /\ Stopping(p) \in Perms /\ Stopping(p).after = "skipped"
         /\ Stopping(p).verdict = p.verdict
BY DEF Stopping, Perms

LEMMA SignedInIs ==
  ASSUME NEW r
  PROVE  /\ IsFullyAuthenticated(r) \in Perms /\ IsFullyAuthenticated(r).after = "skipped"
         /\ IsFullyAuthenticated(r).verdict = Granted <=> SignedIn(r)
         /\ IsFullyAuthenticated(r).verdict # Crash
<1>1. SignedIn(r) \in BOOLEAN
  BY DEF SignedIn
<1> QED
  BY <1>1, PermIs, StoppingIs DEF IsFullyAuthenticated

LEMMA ActionIs ==
  ASSUME NEW r, NEW A
  PROVE  /\ IsAction(r, A) \in Perms /\ IsAction(r, A).after = "checked"
         /\ IsAction(r, A).verdict = Granted <=> r.at.action \in A
         /\ IsAction(r, A).verdict # Crash
         /\ IsNotAction(r, A) \in Perms /\ IsNotAction(r, A).after = "checked"
         /\ IsNotAction(r, A).verdict = Granted <=> r.at.action \notin A
         /\ IsNotAction(r, A).verdict # Crash
<1>1. (r.at.action \in A) \in BOOLEAN /\ (r.at.action \notin A) \in BOOLEAN
  OBVIOUS
<1> QED
  BY <1>1, PermIs DEF IsAction, IsNotAction

LEMMA OwnerIs ==
  ASSUME NEW r, NEW level
  PROVE  /\ IsOwner(r, level) \in Perms /\ IsOwner(r, level).after = "checked"
         /\ IsOwner(r, level).verdict = Granted
              <=> SignedIn(r) /\ (level = "view" \/ r.of = r.who)
         /\ IsOwner(r, level).verdict = Crash <=> ~ SignedIn(r)
<1>1. (level = "view" \/ r.of = r.who) \in BOOLEAN
  OBVIOUS
<1> QED
  BY <1>1, OfUserIs DEF IsOwner

LEMMA StaffIs ==
  ASSUME NEW r
  PROVE  /\ IsStaffUser(r) \in Perms /\ IsStaffUser(r).after = "checked"
         /\ IsStaffUser(r).verdict = Granted <=> SignedIn(r) /\ r.who = Staff
         /\ IsStaffUser(r).verdict = Crash <=> ~ SignedIn(r)
<1>1. (r.who = Staff) \in BOOLEAN
  OBVIOUS
<1> QED
  BY <1>1, OfUserIs DEF IsStaffUser

LEMMA CollaboratorIs ==
  ASSUME NEW r, NEW level, NEW T
  PROVE  /\ IsCollaborator(r, level, T) \in Perms
         /\ IsCollaborator(r, level, T).after = "checked"
         /\ IsCollaborator(r, level, T).verdict = Granted
              <=> SignedIn(r) /\ (level = "view" \/ RoleOf(r) \in T)
         /\ IsCollaborator(r, level, T).verdict = Crash <=> ~ SignedIn(r)
         /\ IsOwnerOrCollaborator(r, level, T) \in Perms
         /\ IsOwnerOrCollaborator(r, level, T).after = "checked"
         /\ IsOwnerOrCollaborator(r, level, T).verdict = Granted
              <=> SignedIn(r) /\ (level = "view" \/ r.of = r.who \/ RoleOf(r) \in T)
         /\ IsOwnerOrCollaborator(r, level, T).verdict = Crash <=> ~ SignedIn(r)
<1>1. /\ (level = "view" \/ RoleOf(r) \in T) \in BOOLEAN
      /\ (level = "view" \/ r.of = r.who \/ RoleOf(r) \in T) \in BOOLEAN
  OBVIOUS
<1> QED
  BY <1>1, OfUserIs DEF IsCollaborator, IsOwnerOrCollaborator

LEMMA PublicIs ==
  ASSUME NEW r, NEW level, link \in [Budget -> Links \cup {None}],
         r.held \in Budget \cup {None}
  PROVE  /\ LinkHolds(r) \in BOOLEAN
         /\ IsPublic(r, level) \in Perms /\ IsPublic(r, level).after = "checked"
         /\ IsPublic(r, level).verdict = Granted
              <=> LinkHolds(r) /\ (level = "view" \/ r.held = r.obj)
         /\ IsPublic(r, level).verdict # Crash
<1>1. LinkHolds(r) \in BOOLEAN
  BY DEF LinkHolds, Links
<1>2. (LinkHolds(r) /\ (level = "view" \/ r.held = r.obj)) \in BOOLEAN
  BY <1>1
<1> QED
  BY <1>1, <1>2, PermIs DEF IsPublic

(* Who has no product works on the first of his budgets. *)
LEMMA ProductIs ==
  ASSUME NEW r, NEW level \in {"view", "object"}, product \in [User -> BOOLEAN]
  PROVE  /\ HasProduct(r.who) \in BOOLEAN
         /\ ProductPermission(r, level) \in Perms
         /\ ProductPermission(r, level).after = "checked"
         /\ SignedIn(r) /\ level = "view" => ProductPermission(r, level).verdict = Granted
         /\ ~ SignedIn(r) /\ level = "view" => ProductPermission(r, level).verdict = Crash
         /\ SignedIn(r) /\ level = "object" /\ r.of = r.who /\ Owned(r.who) # {} =>
              /\ ProductPermission(r, level).verdict = Granted
                   <=> HasProduct(r.who) \/ FirstCreated(r.who) = r.obj
              /\ ProductPermission(r, level).verdict # Crash
<1>1. HasProduct(r.who) \in BOOLEAN /\ TRUE \in BOOLEAN
  BY DEF HasProduct
<1>2. (FirstCreated(r.who) = r.obj) \in BOOLEAN
  OBVIOUS
<1>3. /\ Says(Crash) \in Perms /\ Says(Crash).after = "checked"
      /\ Says(Crash).verdict = Crash
  BY DEF Says, Perms, Verdicts
<1>4. CASE level = "view" \/ (HasProduct(r.who) /\ r.of = r.who)
  <2>1. ProductPermission(r, level) = PermOfUser(r, TRUE)
    BY <1>4 DEF ProductPermission
  <2> QED
    BY <1>1, <1>4, <2>1, OfUserIs DEF Granted, Crash
<1>5. CASE /\ ~ (level = "view" \/ (HasProduct(r.who) /\ r.of = r.who))
           /\ r.of # r.who \/ Owned(r.who) = {}
  BY <1>1, <1>3, <1>5 DEF ProductPermission
<1>6. CASE /\ ~ (level = "view" \/ (HasProduct(r.who) /\ r.of = r.who))
           /\ ~ (r.of # r.who \/ Owned(r.who) = {})
  <2>1. ProductPermission(r, level) = Perm(FirstCreated(r.who) = r.obj)
    BY <1>6 DEF ProductPermission
  <2> QED
    BY <1>1, <1>2, <1>6, <2>1, PermIs
<1> QED
  BY <1>4, <1>5, <1>6

LEMMA MultipleIs ==
  ASSUME NEW r
  PROVE  /\ MultipleBudgetPermission(r, "object") = ProductPermission(r, "object")
         /\ MultipleBudgetPermission(r, "view") \in Perms
         /\ MultipleBudgetPermission(r, "view").after = "checked"
         /\ MultipleBudgetPermission(r, "view").verdict = Granted
              <=> SignedIn(r) /\ (HasProduct(r.who) \/ Owned(r.who) = {})
         /\ MultipleBudgetPermission(r, "view").verdict = Crash <=> ~ SignedIn(r)
<1>1. (HasProduct(r.who) \/ Owned(r.who) = {}) \in BOOLEAN
  OBVIOUS
<1> QED
  BY <1>1, OfUserIs DEF MultipleBudgetPermission
(* A permission that applies is one more in the composition. *)
LEMMA PlusTwo ==
  ASSUME NEW a \in Perms, NEW b \in Perms, NEW p \in Perms
  PROVE  <<a, b>> \o <<p>> = <<a, b, p>> /\ <<a, b>> \o <<>> = <<a, b>>
<1> DEFINE s == <<a, b>> \o <<p>>
           t == <<a, b, p>>
<1>1. <<a, b>> \in Seq(Perms) /\ <<p>> \in Seq(Perms)
  OBVIOUS
<1>2. s \in Seq(Perms) /\ Len(s) = 3 /\ t \in Seq(Perms) /\ Len(t) = 3
  BY <1>1
<1>3. \A i \in 1..3 : s[i] = t[i]
  BY <1>1
<1>4. <<a, b>> \o <<>> = <<a, b>>
  BY <1>1, ConcatEmptySeq
<1> HIDE DEF s, t
<1>5. s = t
  BY <1>2, <1>3, SeqEqual
<1> QED
  BY <1>4, <1>5 DEF s, t

LEMMA PlusThree ==
  ASSUME NEW a \in Perms, NEW b \in Perms, NEW d \in Perms, NEW p \in Perms
  PROVE  <<a, b, d>> \o <<p>> = <<a, b, d, p>> /\ <<a, b, d>> \o <<>> = <<a, b, d>>
<1> DEFINE s == <<a, b, d>> \o <<p>>
           t == <<a, b, d, p>>
<1>1. <<a, b, d>> \in Seq(Perms) /\ <<p>> \in Seq(Perms)
  OBVIOUS
<1>2. s \in Seq(Perms) /\ Len(s) = 4 /\ t \in Seq(Perms) /\ Len(t) = 4
  BY <1>1
<1>3. \A i \in 1..4 : s[i] = t[i]
  BY <1>1
<1>4. <<a, b, d>> \o <<>> = <<a, b, d>>
  BY <1>1, ConcatEmptySeq
<1> HIDE DEF s, t
<1>5. s = t
  BY <1>2, <1>3, SeqEqual
<1> QED
  BY <1>4, <1>5 DEF s, t

LEMMA PlusNone ==
  ASSUME NEW p
  PROVE  <<p>> \o <<>> = <<p>> /\ <<>> \o <<p>> = <<p>>
<1>1. <<p>> \in Seq({p})
  OBVIOUS
<1> QED
  BY <1>1, ConcatEmptySeq

(* What the conditions look at is typed, and an owner has a first budget. *)
Sane(r) ==
  /\ product \in [User -> BOOLEAN] /\ link \in [Budget -> Links \cup {None}]
  /\ r.held \in Budget \cup {None}
  /\ r.obj \in Budget /\ r.of = r.who => Owned(r.who) # {}

Sees(r, level) == IsSafe(r.at) /\ LinkHolds(r) /\ (level = "view" \/ r.held = r.obj)

(* The three ways through BudgetObjPermission: as the owner, *)
OwnersWay(r, level, o) ==
  AllOf(<<IsFullyAuthenticated(r), Stopping(IsOwner(r, level))>>
        \o When(\/ level = "view" \/ "product_can_destroy" \notin o.flags
                \/ r.at.action # "destroy",
                ProductPermission(r, level)))

OwnerCan(r, o) ==
  \/ "product_can_destroy" \in o.flags /\ r.at.action = "destroy"
  \/ HasProduct(r.who) \/ FirstCreated(r.who) = r.obj

LEMMA OwnersWayIs ==
  ASSUME NEW r, NEW o, NEW level \in {"view", "object"}, Sane(r),
         level = "object" => r.obj \in Budget
  PROVE  /\ OwnersWay(r, level, o) \in Perms
         /\ OwnersWay(r, level, o).after = "checked"
         /\ OwnersWay(r, level, o).verdict = Granted
              <=> SignedIn(r) /\ (level = "view" \/ (r.of = r.who /\ OwnerCan(r, o)))
         /\ OwnersWay(r, level, o).verdict # Crash
<1> DEFINE c == \/ level = "view" \/ "product_can_destroy" \notin o.flags
                \/ r.at.action # "destroy"
           a == IsFullyAuthenticated(r)
           b == Stopping(IsOwner(r, level))
           p == ProductPermission(r, level)
<1>1. a \in Perms /\ a.after = "skipped" /\ (a.verdict = Granted <=> SignedIn(r)) /\ a.verdict # Crash
  BY SignedInIs
<1>2. /\ b \in Perms /\ b.after = "skipped"
      /\ b.verdict = Granted <=> SignedIn(r) /\ (level = "view" \/ r.of = r.who)
      /\ b.verdict = Crash <=> ~ SignedIn(r)
  BY OwnerIs, StoppingIs
<1>3. /\ p \in Perms
      /\ SignedIn(r) /\ level = "view" => p.verdict = Granted
      /\ SignedIn(r) /\ level = "object" /\ r.of = r.who =>
           /\ p.verdict = Granted <=> HasProduct(r.who) \/ FirstCreated(r.who) = r.obj
           /\ p.verdict # Crash
  BY ProductIs DEF Sane
<1>4. /\ c => OwnersWay(r, level, o) = AllOf(<<a, b>> \o <<p>>)
      /\ ~ c => OwnersWay(r, level, o) = AllOf(<<a, b>> \o <<>>)
  BY DEF OwnersWay, When
<1>5. c \/ (level = "object" /\ "product_can_destroy" \in o.flags /\ r.at.action = "destroy")
  OBVIOUS
<1>6. ~ c => level = "object" /\ "product_can_destroy" \in o.flags /\ r.at.action = "destroy"
  OBVIOUS
<1>7. c /\ level = "object" => ~ ("product_can_destroy" \in o.flags /\ r.at.action = "destroy")
  OBVIOUS
<1>8. a.verdict \in Verdicts /\ b.verdict \in Verdicts /\ p.verdict \in Verdicts
  BY <1>1, <1>2, <1>3 DEF Perms
<1> HIDE DEF a, b, c, p
<1>9. CASE c
  <2>1. OwnersWay(r, level, o) = AllOf(<<a, b, p>>)
    BY <1>4, <1>9, PlusTwo, <1>1, <1>2, <1>3
  <2> QED
    BY <1>1, <1>2, <1>3, <1>7, <1>8, <1>9, <2>1, AllOfThree
       DEF Stops, OwnerCan, Verdicts, Granted, Denied, Crash
<1>10. CASE ~ c
  <2>1. OwnersWay(r, level, o) = AllOf(<<a, b>>)
    BY <1>4, <1>10, PlusTwo, <1>1, <1>2, <1>3
  <2> QED
    BY <1>1, <1>2, <1>6, <1>8, <1>10, <2>1, AllOfTwo
       DEF Stops, OwnerCan, Verdicts, Granted, Denied, Crash
<1> QED
  BY <1>9, <1>10

(* as a collaborator, *)
CollaboratorsWay(r, level, T, restricted) ==
  AllOf(<<IsFullyAuthenticated(r), IsCollaborator(r, level, T), IsNotAction(r, restricted)>>)

LEMMA CollaboratorsWayIs ==
  ASSUME NEW r, NEW level, NEW T, NEW R
  PROVE  /\ CollaboratorsWay(r, level, T, R) \in Perms
         /\ CollaboratorsWay(r, level, T, R).verdict = Granted
              <=> /\ SignedIn(r) /\ (level = "view" \/ RoleOf(r) \in T)
                  /\ r.at.action \notin R
         /\ CollaboratorsWay(r, level, T, R).verdict # Crash
<1> DEFINE a == IsFullyAuthenticated(r)
           b == IsCollaborator(r, level, T)
           p == IsNotAction(r, R)
<1>1. a \in Perms /\ a.after = "skipped" /\ (a.verdict = Granted <=> SignedIn(r)) /\ a.verdict # Crash
  BY SignedInIs
<1>2. /\ b \in Perms
      /\ b.verdict = Granted <=> SignedIn(r) /\ (level = "view" \/ RoleOf(r) \in T)
      /\ b.verdict = Crash <=> ~ SignedIn(r)
  BY CollaboratorIs
<1>3. p \in Perms /\ (p.verdict = Granted <=> r.at.action \notin R) /\ p.verdict # Crash
  BY ActionIs
<1>4. a.verdict \in Verdicts
  BY <1>1 DEF Perms
<1>5. CollaboratorsWay(r, level, T, R) = AllOf(<<a, b, p>>)
  BY DEF CollaboratorsWay
<1> HIDE DEF a, b, p
<1> QED
  BY <1>1, <1>2, <1>3, <1>4, <1>5, AllOfThree DEF Stops, Verdicts, Granted, Denied, Crash

(* and by a link. *)
PublicWay(r, level) == AllOf(<<Perm(IsSafe(r.at)), IsPublic(r, level)>>)

LEMMA PublicWayIs ==
  ASSUME NEW r, NEW level, Sane(r)
  PROVE  /\ PublicWay(r, level) \in Perms
         /\ PublicWay(r, level).verdict = Granted <=> Sees(r, level)
         /\ PublicWay(r, level).verdict # Crash
<1>1. IsSafe(r.at) \in BOOLEAN
  BY DEF IsSafe
<1> QED
  BY <1>1, PermIs, PublicIs, AllOfTwo DEF PublicWay, Sees, Sane

TypesOf(r, o) == IF o.types = {} THEN TypesFor(r) ELSE o.types

LEMMA BudgetObjIs ==
  ASSUME NEW r, NEW o, NEW level \in {"view", "object"}, Sane(r),
         level = "object" => r.obj \in Budget
  PROVE  /\ BudgetObjPermission(r, level, o) \in Perms
         /\ BudgetObjPermission(r, level, o).after = "checked"
         /\ BudgetObjPermission(r, level, o).verdict # Crash
         /\ BudgetObjPermission(r, level, o).verdict = Granted <=>
              \/ SignedIn(r) /\ level = "view"
              \/ SignedIn(r) /\ r.of = r.who /\ OwnerCan(r, o)
              \/ SignedIn(r) /\ RoleOf(r) \in TypesOf(r, o) /\ r.at.action \notin o.restricted
              \/ "public" \in o.flags /\ Sees(r, level)
<1> DEFINE a == OwnersWay(r, level, o)
           b == CollaboratorsWay(r, level, TypesOf(r, o), o.restricted)
           p == PublicWay(r, level)
           c == "public" \in o.flags
<1>1. /\ c => BudgetObjPermission(r, level, o) = AnyOf(<<a, b>> \o <<p>>)
      /\ ~ c => BudgetObjPermission(r, level, o) = AnyOf(<<a, b>> \o <<>>)
  BY DEF BudgetObjPermission, OwnersWay, CollaboratorsWay, PublicWay, TypesOf, When
<1>2. /\ a \in Perms /\ a.verdict # Crash
      /\ a.verdict = Granted
           <=> SignedIn(r) /\ (level = "view" \/ (r.of = r.who /\ OwnerCan(r, o)))
  BY OwnersWayIs
<1>3. /\ b \in Perms /\ b.verdict # Crash
      /\ b.verdict = Granted <=> /\ SignedIn(r) /\ (level = "view" \/ RoleOf(r) \in TypesOf(r, o))
                                 /\ r.at.action \notin o.restricted
  BY CollaboratorsWayIs
<1>4. p \in Perms /\ p.verdict # Crash /\ (p.verdict = Granted <=> Sees(r, level))
  BY PublicWayIs
<1>5. a.verdict \in Verdicts /\ b.verdict \in Verdicts
  BY <1>2, <1>3 DEF Perms
<1>6. c <=> "public" \in o.flags
  OBVIOUS
<1> HIDE DEF a, b, c, p
<1>7. CASE c
  <2>1. BudgetObjPermission(r, level, o) = AnyOf(<<a, b, p>>)
    BY <1>1, <1>7, PlusTwo, <1>2, <1>3, <1>4
  <2> QED
    BY <1>2, <1>3, <1>4, <1>5, <1>6, <1>7, <2>1, AnyOfThree
       DEF Verdicts, Granted, Denied, Crash
<1>8. CASE ~ c
  <2>1. BudgetObjPermission(r, level, o) = AnyOf(<<a, b>>)
    BY <1>1, <1>8, PlusTwo, <1>2, <1>3, <1>4
  <2> QED
    BY <1>2, <1>3, <1>5, <1>6, <1>8, <2>1, AnyOfTwo
       DEF Verdicts, Granted, Denied, Crash
<1> QED
  BY <1>7, <1>8
(* What TemplateObjPermission grants of a template. *)
TemplateCan(r) == SignedIn(r) /\ (r.of = r.who \/ (r.obj \in Community /\ r.who = Staff))

LEMMA TemplateObjIs ==
  ASSUME NEW r
  PROVE  /\ TemplateObjPermission(r, "object") \in Perms
         /\ TemplateObjPermission(r, "object").verdict # Crash
         /\ TemplateObjPermission(r, "object").verdict = Granted <=> TemplateCan(r)
<1> DEFINE a == IsFullyAuthenticated(r)
           b == IsOwner(r, "object")
           c == IsCommunityTemplate(r)
           d == IsStaffUser(r)
           e == AllOf(<<c, d>>)
           f == AnyOf(<<b, e>>)
<1>1. a \in Perms /\ a.after = "skipped" /\ (a.verdict = Granted <=> SignedIn(r)) /\ a.verdict # Crash
  BY SignedInIs
<1>2. /\ b \in Perms
      /\ b.verdict = Granted <=> SignedIn(r) /\ r.of = r.who
      /\ b.verdict = Crash <=> ~ SignedIn(r)
  BY OwnerIs
<1>3. /\ c \in Perms /\ c.after = "checked" /\ c.verdict # Crash
      /\ c.verdict = Granted <=> r.obj \in Community
  <2>1. (r.obj \in Community) \in BOOLEAN
    OBVIOUS
  <2> QED
    BY <2>1, PermIs DEF IsCommunityTemplate
<1>4. /\ d \in Perms
      /\ d.verdict = Granted <=> SignedIn(r) /\ r.who = Staff
      /\ d.verdict = Crash <=> ~ SignedIn(r)
  BY StaffIs
<1>5. TemplateObjPermission(r, "object") = AllOf(<<a, f>>)
  BY DEF TemplateObjPermission
<1> HIDE DEF a, b, c, d
<1>6. /\ e \in Perms
      /\ e.verdict = Granted <=> SignedIn(r) /\ r.obj \in Community /\ r.who = Staff
      /\ SignedIn(r) => e.verdict # Crash
  BY <1>3, <1>4, AllOfTwo DEF Stops
<1> HIDE DEF e
<1>7. /\ f \in Perms
      /\ SignedIn(r) => /\ f.verdict # Crash
                        /\ f.verdict = Granted <=> TemplateCan(r)
  <2>1. b.verdict \in Verdicts /\ e.verdict \in Verdicts
    BY <1>2, <1>6 DEF Perms
  <2> QED
    BY <1>2, <1>6, <2>1, AnyOfTwo DEF TemplateCan, Verdicts, Granted, Denied, Crash
<1> HIDE DEF f
<1>8. a.verdict \in Verdicts
  BY <1>1 DEF Perms
<1> QED
  BY <1>1, <1>5, <1>7, <1>8, AllOfTwo DEF Stops, TemplateCan, Verdicts, Granted, Denied, Crash

(* What BudgetObjPermission grants of a budget. *)
BudgetCan(r, o) ==
  \/ SignedIn(r) /\ r.of = r.who /\ OwnerCan(r, o)
  \/ SignedIn(r) /\ RoleOf(r) \in TypesOf(r, o) /\ r.at.action \notin o.restricted
  \/ "public" \in o.flags /\ Sees(r, "object")

LEMMA ForDomainIs ==
  ASSUME NEW r, NEW o, Sane(r)
  PROVE  /\ ForDomain(r, "view", o) \in Perms
         /\ ForDomain(r, "view", o).verdict # Crash
         /\ ForDomain(r, "view", o).verdict = Granted
              <=> SignedIn(r) \/ ("public" \in o.flags /\ Sees(r, "view"))
         /\ r.obj \in Budget =>
              /\ ForDomain(r, "object", o) \in Perms
              /\ ForDomain(r, "object", o).verdict # Crash
              /\ ForDomain(r, "object", o).verdict = Granted <=> BudgetCan(r, o)
         /\ r.obj \in Template =>
              /\ ForDomain(r, "object", o) \in Perms
              /\ ForDomain(r, "object", o).verdict # Crash
              /\ ForDomain(r, "object", o).verdict = Granted <=> TemplateCan(r)
<1> DEFINE v == BudgetObjPermission(r, "view", o)
           b == BudgetObjPermission(r, "object", o)
           t == TemplateObjPermission(r, "object")
<1>1. /\ v \in Perms /\ v.verdict # Crash
      /\ v.verdict = Granted <=> SignedIn(r) \/ ("public" \in o.flags /\ Sees(r, "view"))
  BY BudgetObjIs
<1>2. r.obj \in Budget =>
        b \in Perms /\ b.verdict # Crash /\ (b.verdict = Granted <=> BudgetCan(r, o))
  BY BudgetObjIs DEF BudgetCan
<1>3. t \in Perms /\ t.verdict # Crash /\ (t.verdict = Granted <=> TemplateCan(r))
  BY TemplateObjIs
<1>4. /\ ForDomain(r, "view", o) = AllOf(<<v>> \o <<>>)
      /\ r.obj \in Budget => ForDomain(r, "object", o) = AllOf(<<b>> \o <<>>)
      /\ r.obj \in Template => ForDomain(r, "object", o) = AllOf(<<>> \o <<t>>)
  BY AccessAssumption DEF ForDomain, When
<1> HIDE DEF v, b, t
<1> QED
  BY <1>1, <1>2, <1>3, <1>4, PlusNone, AllOfOne

(* Where all views can be asked, so can staff. *)
LEMMA ToViewIs ==
  ASSUME NEW r, r.everywhere \in BOOLEAN, NEW p \in Perms, p.verdict # Crash
  PROVE  /\ ToViewPermission(r, p) \in Perms
         /\ ToViewPermission(r, p).verdict # Crash
         /\ ToViewPermission(r, p).verdict = Granted
              <=> p.verdict = Granted \/ (r.everywhere /\ r.who = Staff)
<1> DEFINE a == IsFullyAuthenticated(r)
           d == IsStaffUser(r)
           e == AllOf(<<a, d>>)
<1>1. a \in Perms /\ a.after = "skipped" /\ (a.verdict = Granted <=> SignedIn(r)) /\ a.verdict # Crash
  BY SignedInIs
<1>2. /\ d \in Perms
      /\ d.verdict = Granted <=> SignedIn(r) /\ r.who = Staff
      /\ d.verdict = Crash <=> ~ SignedIn(r)
  BY StaffIs
<1>3. r.who = Staff => SignedIn(r)
  BY AccessAssumption DEF SignedIn
<1>4. ToViewPermission(r, p) = IF r.everywhere THEN AnyOf(<<p, e>>) ELSE p
  BY DEF ToViewPermission
<1>5. a.verdict \in Verdicts /\ p.verdict \in Verdicts
  BY <1>1 DEF Perms
<1> HIDE DEF a, d
<1>6. /\ e \in Perms /\ e.verdict # Crash /\ (e.verdict = Granted <=> r.who = Staff)
  BY <1>1, <1>2, <1>3, <1>5, AllOfTwo DEF Stops, Verdicts, Granted, Denied, Crash
<1> HIDE DEF e
<1> QED
  BY <1>4, <1>5, <1>6, AnyOfTwo DEF Verdicts, Granted, Denied, Crash
-------------------------------------------------------------------------------
(* The views. *)

BudgetOptions ==
  [ObjectOptions EXCEPT !.flags = {"public", "product_can_destroy"},
                        !.restricted = {"destroy", "partial_update"}]
ImportOptions == [ObjectOptions EXCEPT !.types = {"owner"}]
NestedOptions == [ObjectOptions EXCEPT !.flags = {"public"}]
RowOptions == [ObjectOptions EXCEPT !.flags = {"public"}, !.restricted = {}]

LEMMA OptionsAre ==
  /\ BudgetOptions.flags = {"public", "product_can_destroy"} /\ BudgetOptions.types = {}
  /\ BudgetOptions.restricted = {"destroy", "partial_update"}
  /\ ImportOptions.flags = {} /\ ImportOptions.types = {"owner"}
  /\ ImportOptions.restricted = {"destroy"}
  /\ NestedOptions.flags = {"public"} /\ NestedOptions.types = {}
  /\ NestedOptions.restricted = {"destroy"}
  /\ RowOptions.flags = {"public"} /\ RowOptions.types = {} /\ RowOptions.restricted = {}
  /\ ObjectOptions.flags = {} /\ ObjectOptions.types = {}
  /\ ObjectOptions.restricted = {"destroy"}
BY DEF BudgetOptions, ImportOptions, NestedOptions, RowOptions, ObjectOptions

(* The alternatives of the view of the budgets. *)
ListWay(r) == AllOf(<<Stopping(IsAction(r, {"list"})), IsFullyAuthenticated(r)>>)

LEMMA ListWayIs ==
  ASSUME NEW r
  PROVE  /\ ListWay(r) \in Perms /\ ListWay(r).verdict # Crash
         /\ ListWay(r).verdict = Granted <=> r.at.action = "list" /\ SignedIn(r)
<1> DEFINE a == Stopping(IsAction(r, {"list"}))
           b == IsFullyAuthenticated(r)
<1>1. a \in Perms /\ a.verdict # Crash /\ (a.verdict = Granted <=> r.at.action = "list")
  BY ActionIs, StoppingIs
<1>2. b \in Perms /\ b.verdict # Crash /\ (b.verdict = Granted <=> SignedIn(r))
  BY SignedInIs
<1> HIDE DEF a, b
<1>3. /\ AllOf(<<a, b>>) \in Perms /\ AllOf(<<a, b>>).verdict # Crash
      /\ AllOf(<<a, b>>).verdict = Granted <=> r.at.action = "list" /\ SignedIn(r)
  BY <1>1, <1>2, AllOfTwo
<1> QED
  BY <1>3 DEF ListWay, a, b

NewWay(r, level) ==
  AllOf(<<Stopping(IsAction(r, {"create", "duplicate"})),
          AllOf(<<IsFullyAuthenticated(r), Stopping(IsOwner(r, level))>>
                \o When(level = "view" \/ r.obj \in Budget,
                        MultipleBudgetPermission(r, level)))>>)

NewCan(r, level) ==
  /\ SignedIn(r)
  /\ level = "view" => HasProduct(r.who) \/ Owned(r.who) = {}
  /\ level = "object" => r.of = r.who
  /\ level = "object" /\ r.obj \in Budget => HasProduct(r.who) \/ FirstCreated(r.who) = r.obj

LEMMA NewWayIs ==
  ASSUME NEW r, NEW level \in {"view", "object"}, Sane(r)
  PROVE  /\ NewWay(r, level) \in Perms /\ NewWay(r, level).verdict # Crash
         /\ NewWay(r, level).verdict = Granted
              <=> r.at.action \in {"create", "duplicate"} /\ NewCan(r, level)
<1> DEFINE s == Stopping(IsAction(r, {"create", "duplicate"}))
           a == IsFullyAuthenticated(r)
           b == Stopping(IsOwner(r, level))
           m == MultipleBudgetPermission(r, level)
           c == level = "view" \/ r.obj \in Budget
           e == IF c THEN AllOf(<<a, b>> \o <<m>>) ELSE AllOf(<<a, b>> \o <<>>)
<1>1. /\ s \in Perms /\ s.verdict # Crash /\ s.after = "skipped"
      /\ s.verdict = Granted <=> r.at.action \in {"create", "duplicate"}
  BY ActionIs, StoppingIs
<1>2. a \in Perms /\ a.after = "skipped" /\ (a.verdict = Granted <=> SignedIn(r)) /\ a.verdict # Crash
  BY SignedInIs
<1>3. /\ b \in Perms /\ b.after = "skipped"
      /\ b.verdict = Granted <=> SignedIn(r) /\ (level = "view" \/ r.of = r.who)
      /\ b.verdict = Crash <=> ~ SignedIn(r)
  BY OwnerIs, StoppingIs
<1>4. /\ m \in Perms
      /\ SignedIn(r) /\ level = "view" =>
           /\ m.verdict = Granted <=> HasProduct(r.who) \/ Owned(r.who) = {}
           /\ m.verdict # Crash
      /\ SignedIn(r) /\ level = "object" /\ r.obj \in Budget /\ r.of = r.who =>
           /\ m.verdict = Granted <=> HasProduct(r.who) \/ FirstCreated(r.who) = r.obj
           /\ m.verdict # Crash
  BY MultipleIs, ProductIs DEF Sane
<1>5. NewWay(r, level) = AllOf(<<s, e>>)
  BY DEF NewWay, When
<1>6. s.verdict \in Verdicts /\ a.verdict \in Verdicts /\ b.verdict \in Verdicts
  BY <1>1, <1>2, <1>3 DEF Perms
<1> HIDE DEF s, a, b, m
<1>7. e \in Perms /\ e.verdict # Crash /\ (e.verdict = Granted <=> NewCan(r, level))
  <2>1. CASE c
    <3>1. e = AllOf(<<a, b, m>>)
      BY <1>2, <1>3, <1>4, <2>1, PlusTwo
    <3> HIDE DEF e
    <3> QED
      BY <1>2, <1>3, <1>4, <1>6, <2>1, <3>1, AllOfThree
         DEF Stops, NewCan, Verdicts, Granted, Denied, Crash
  <2>2. CASE ~ c
    <3>1. e = AllOf(<<a, b>>)
      BY <1>2, <1>3, <1>4, <2>2, PlusTwo
    <3> HIDE DEF e
    <3> QED
      BY <1>2, <1>3, <1>6, <2>2, <3>1, AllOfTwo
         DEF Stops, NewCan, Verdicts, Granted, Denied, Crash
  <2> QED
    BY <2>1, <2>2
<1> HIDE DEF e
<1> QED
  BY <1>1, <1>5, <1>7, AllOfTwo

Elsewhere == {"list", "create", "duplicate", "bulk_import_actuals"}

RestWay(r, level) ==
  AllOf(<<Stopping(IsNotAction(r, Elsewhere)), ForDomain(r, level, BudgetOptions)>>)
ImportWay(r, level) ==
  AllOf(<<IsAction(r, {"bulk_import_actuals"}), BudgetObjPermission(r, level, ImportOptions)>>)

(* What the view of the budgets asks before it looks for one; *)
BudgetViewCan(r) ==
  \/ r.at.action = "list" /\ SignedIn(r)
  \/ r.at.action \in {"create", "duplicate"} /\ NewCan(r, "view")
  \/ r.at.action \notin Elsewhere /\ (SignedIn(r) \/ Sees(r, "view"))
  \/ r.at.action = "bulk_import_actuals" /\ SignedIn(r)

(* of the budget found; *)
BudgetObjectCan(r) ==
  \/ r.at.action = "list" /\ SignedIn(r)
  \/ r.at.action \in {"create", "duplicate"} /\ NewCan(r, "object")
  \/ r.at.action \notin Elsewhere /\ BudgetCan(r, BudgetOptions)
  \/ r.at.action = "bulk_import_actuals" /\ BudgetCan(r, ImportOptions)

(* and of the template found. *)
TemplateObjectCan(r) ==
  \/ r.at.action = "list" /\ SignedIn(r)
  \/ r.at.action \in {"create", "duplicate"} /\ NewCan(r, "object")
  \/ r.at.action \notin Elsewhere /\ TemplateCan(r)

LEMMA BudgetViewIs ==
  ASSUME NEW r, NEW level \in {"view", "object"}, Sane(r),
         level = "object" => r.obj \in Budget \cup Template
  PROVE  /\ BudgetView(r, level) \in Perms /\ BudgetView(r, level).verdict # Crash
         /\ level = "view" =>
              (BudgetView(r, level).verdict = Granted <=> BudgetViewCan(r))
         /\ level = "object" /\ r.obj \in Budget =>
              (BudgetView(r, level).verdict = Granted <=> BudgetObjectCan(r))
         /\ level = "object" /\ r.obj \in Template =>
              (BudgetView(r, level).verdict = Granted <=> TemplateObjectCan(r))
<1> DEFINE a == ListWay(r)
           b == NewWay(r, level)
           c == RestWay(r, level)
           d == ImportWay(r, level)
           k == level = "view" \/ r.obj \in Budget
           Domain == /\ level = "view" => SignedIn(r) \/ Sees(r, "view")
                     /\ level = "object" /\ r.obj \in Budget => BudgetCan(r, BudgetOptions)
                     /\ level = "object" /\ r.obj \in Template => TemplateCan(r)
           Import == IF level = "view" THEN SignedIn(r) ELSE BudgetCan(r, ImportOptions)
<1>1. a \in Perms /\ a.verdict # Crash /\ (a.verdict = Granted <=> r.at.action = "list" /\ SignedIn(r))
  BY ListWayIs
<1>2. /\ b \in Perms /\ b.verdict # Crash
      /\ b.verdict = Granted <=> r.at.action \in {"create", "duplicate"} /\ NewCan(r, level)
  BY NewWayIs
<1>3. /\ c \in Perms /\ c.verdict # Crash
      /\ c.verdict = Granted <=> r.at.action \notin Elsewhere /\ Domain
  <2> DEFINE s == Stopping(IsNotAction(r, Elsewhere))
             f == ForDomain(r, level, BudgetOptions)
  <2>1. /\ s \in Perms /\ s.verdict # Crash
        /\ s.verdict = Granted <=> r.at.action \notin Elsewhere
    BY ActionIs, StoppingIs
  <2>2. f \in Perms /\ f.verdict # Crash /\ (f.verdict = Granted <=> Domain)
    <3>1. "public" \in BudgetOptions.flags
      BY OptionsAre
    <3>2. r.obj \in Budget => r.obj \notin Template
      BY AccessAssumption
    <3>3. CASE level = "view"
      BY <3>1, <3>3, ForDomainIs
    <3>4. CASE level = "object" /\ r.obj \in Budget
      BY <3>2, <3>4, ForDomainIs
    <3>5. CASE level = "object" /\ r.obj \in Template
      BY <3>2, <3>5, ForDomainIs
    <3> QED
      BY <3>3, <3>4, <3>5
  <2>3. c = AllOf(<<s, f>>)
    BY DEF RestWay
  <2> HIDE DEF s, f, c, Domain
  <2> QED
    BY <2>1, <2>2, <2>3, AllOfTwo
<1>4. ASSUME k
      PROVE  /\ d \in Perms /\ d.verdict # Crash
             /\ d.verdict = Granted <=> r.at.action = "bulk_import_actuals" /\ Import
  <2> DEFINE s == IsAction(r, {"bulk_import_actuals"})
             f == BudgetObjPermission(r, level, ImportOptions)
  <2>1. /\ s \in Perms /\ s.verdict # Crash
        /\ s.verdict = Granted <=> r.at.action = "bulk_import_actuals"
    BY ActionIs
  <2>2. f \in Perms /\ f.verdict # Crash /\ (f.verdict = Granted <=> Import)
    <3>1. "public" \notin ImportOptions.flags
      BY OptionsAre
    <3> QED
      BY <1>4, <3>1, BudgetObjIs DEF BudgetCan
  <2>3. d = AllOf(<<s, f>>)
    BY DEF ImportWay
  <2> HIDE DEF s, f, d, Import
  <2> QED
    BY <2>1, <2>2, <2>3, AllOfTwo
<1>5. /\ k => BudgetView(r, level) = AnyOf(<<a, b, c>> \o <<d>>)
      /\ ~ k => BudgetView(r, level) = AnyOf(<<a, b, c>> \o <<>>)
  BY DEF BudgetView, ListWay, NewWay, RestWay, ImportWay, When, Elsewhere, BudgetOptions,
         ImportOptions
<1>6. a.verdict \in Verdicts /\ b.verdict \in Verdicts /\ c.verdict \in Verdicts
  BY <1>1, <1>2, <1>3 DEF Perms
<1>7. r.obj \in Template => r.obj \notin Budget
  BY AccessAssumption
<1>8. CASE k
  <2>3. /\ d \in Perms /\ d.verdict # Crash
        /\ d.verdict = Granted <=> r.at.action = "bulk_import_actuals" /\ Import
    BY <1>4, <1>8
  <2> HIDE DEF a, b, c, d
  <2>4. a \in Perms /\ b \in Perms /\ c \in Perms /\ d \in Perms
    BY <1>1, <1>2, <1>3, <2>3
  <2>1. BudgetView(r, level) = AnyOf(<<a, b, c, d>>)
    <3>1. <<a, b, c>> \o <<d>> = <<a, b, c, d>>
      BY <2>4, PlusThree
    <3> QED
      BY <1>5, <1>8, <3>1
  <2>2. /\ BudgetView(r, level) \in Perms /\ BudgetView(r, level).verdict # Crash
        /\ BudgetView(r, level).verdict = Granted <=>
             \/ a.verdict = Granted \/ b.verdict = Granted
             \/ c.verdict = Granted \/ d.verdict = Granted
    BY <1>1, <1>2, <1>3, <2>3, <1>6, <2>1, AnyOfFour DEF Verdicts, Granted, Denied, Crash
  <2> QED
    BY <1>1, <1>2, <1>3, <2>3, <1>7, <1>8, <2>2 DEF BudgetViewCan, BudgetObjectCan
<1>9. CASE ~ k
  <2> HIDE DEF a, b, c, d
  <2>1. BudgetView(r, level) = AnyOf(<<a, b, c>>)
    BY <1>1, <1>2, <1>3, <1>5, <1>9, PlusThree
  <2>2. /\ BudgetView(r, level) \in Perms /\ BudgetView(r, level).verdict # Crash
        /\ BudgetView(r, level).verdict = Granted <=>
             a.verdict = Granted \/ b.verdict = Granted \/ c.verdict = Granted
    BY <1>1, <1>2, <1>3, <1>6, <2>1, AnyOfThree DEF Verdicts, Granted, Denied, Crash
  <2> QED
    BY <1>1, <1>2, <1>3, <1>9, <2>2 DEF TemplateObjectCan
<1> QED
  BY <1>8, <1>9
(* Of a row, of a collaborator, and of what is below a budget. *)
RowCan(r) == IF r.obj \in Budget THEN BudgetCan(r, RowOptions) ELSE TemplateCan(r)

LEMMA RowViewIs ==
  ASSUME NEW r, Sane(r)
  PROVE  /\ RowView(r, "view") \in Perms /\ RowView(r, "view").verdict # Crash
         /\ RowView(r, "view").verdict = Granted <=> SignedIn(r) \/ Sees(r, "view")
         /\ r.obj \in Budget \cup Template =>
              /\ RowView(r, "object") \in Perms /\ RowView(r, "object").verdict # Crash
              /\ RowView(r, "object").verdict = Granted <=> RowCan(r)
<1>1. \A level : RowView(r, level) = ForDomain(r, level, RowOptions)
  BY DEF RowView, RowOptions
<1>2. "public" \in RowOptions.flags /\ (r.obj \in Template => r.obj \notin Budget)
  BY OptionsAre, AccessAssumption
<1> QED
  BY <1>1, <1>2, ForDomainIs DEF RowCan

LEMMA CollaboratorViewIs ==
  ASSUME NEW r, SignedIn(r)
  PROVE  /\ CollaboratorView(r, "view") \in Perms
         /\ CollaboratorView(r, "view").verdict = Granted
         /\ owner[r.obj] # None =>
              /\ CollaboratorView(r, "object") \in Perms
              /\ CollaboratorView(r, "object").verdict # Crash
              /\ CollaboratorView(r, "object").verdict = Granted
                   <=> r.of = r.who \/ RoleOf(r) = "owner"
<1>1. /\ CollaboratorView(r, "view") = IsOwnerOrCollaborator(r, "view", {"owner"})
      /\ owner[r.obj] # None =>
           CollaboratorView(r, "object") = IsOwnerOrCollaborator(r, "object", {"owner"})
  BY DEF CollaboratorView
<1> QED
  BY <1>1, CollaboratorIs

CollaboratorsCan(r) ==
  /\ SignedIn(r)
  /\ r.of = r.who \/ RoleOf(r) \in (IF IsSafe(r.at) THEN Roles ELSE {"owner"})

NestedCan(r) ==
  \/ r.everywhere /\ r.who = Staff
  \/ r.at.view = "nested" /\ r.obj \in Budget /\ BudgetCan(r, NestedOptions)
  \/ r.at.view = "nested" /\ r.obj \in Template /\ TemplateCan(r)
  \/ r.at.view = "private" /\ BudgetCan(r, ObjectOptions)
  \/ r.at.view = "collaborators" /\ CollaboratorsCan(r)

LEMMA NestedObjectIs ==
  ASSUME NEW r, Sane(r), r.everywhere \in BOOLEAN,
         r.at.view \in {"nested", "private", "collaborators"},
         r.obj \in Budget \/ (r.at.view = "nested" /\ r.obj \in Template)
  PROVE  /\ NestedObject(r) \in Perms /\ NestedObject(r).verdict # Crash
         /\ NestedObject(r).verdict = Granted <=> NestedCan(r)
<1>1. CASE r.at.view = "nested"
  <2> DEFINE p == ForDomain(r, "object", NestedOptions)
  <2>1. NestedObject(r) = ToViewPermission(r, p)
    BY <1>1 DEF NestedObject, NestedOptions
  <2>2. /\ p \in Perms /\ p.verdict # Crash
        /\ p.verdict = Granted <=> \/ r.obj \in Budget /\ BudgetCan(r, NestedOptions)
                                   \/ r.obj \in Template /\ TemplateCan(r)
    <3>1. r.obj \in Template => r.obj \notin Budget
      BY AccessAssumption
    <3> QED
      BY <3>1, ForDomainIs
  <2> HIDE DEF p
  <2> QED
    BY <1>1, <2>1, <2>2, ToViewIs DEF NestedCan
<1>2. CASE r.at.view = "private"
  <2> DEFINE b == BudgetObjPermission(r, "object", ObjectOptions)
             p == AllOf(<<b>>)
  <2>1. NestedObject(r) = ToViewPermission(r, p)
    BY <1>2 DEF NestedObject
  <2>2. b \in Perms /\ b.verdict # Crash /\ (b.verdict = Granted <=> BudgetCan(r, ObjectOptions))
    BY <1>2, BudgetObjIs DEF BudgetCan
  <2> HIDE DEF b
  <2>3. p \in Perms /\ p.verdict # Crash /\ (p.verdict = Granted <=> BudgetCan(r, ObjectOptions))
    BY <2>2, AllOfOne
  <2> HIDE DEF p
  <2> QED
    BY <1>2, <2>1, <2>3, ToViewIs DEF NestedCan
<1>3. CASE r.at.view = "collaborators"
  <2> DEFINE T == IF IsSafe(r.at) THEN Roles ELSE {"owner"}
             a == IsFullyAuthenticated(r)
             b == IsOwnerOrCollaborator(r, "object", T)
             p == AllOf(<<a, b>>)
  <2>1. NestedObject(r) = ToViewPermission(r, p)
    BY <1>3 DEF NestedObject
  <2>2. a \in Perms /\ a.after = "skipped" /\ (a.verdict = Granted <=> SignedIn(r)) /\ a.verdict # Crash
    BY SignedInIs
  <2>3. /\ b \in Perms
        /\ b.verdict = Granted <=> SignedIn(r) /\ (r.of = r.who \/ RoleOf(r) \in T)
        /\ b.verdict = Crash <=> ~ SignedIn(r)
    BY CollaboratorIs
  <2>4. a.verdict \in Verdicts /\ b.verdict \in Verdicts
    BY <2>2, <2>3 DEF Perms
  <2>5. CollaboratorsCan(r) <=> SignedIn(r) /\ (r.of = r.who \/ RoleOf(r) \in T)
    BY DEF CollaboratorsCan
  <2> HIDE DEF a, b, T
  <2>6. p \in Perms /\ p.verdict # Crash /\ (p.verdict = Granted <=> CollaboratorsCan(r))
    BY <2>2, <2>3, <2>4, <2>5, AllOfTwo DEF Stops, Verdicts, Granted, Denied, Crash
  <2> HIDE DEF p
  <2> QED
    BY <1>3, <2>1, <2>6, ToViewIs DEF NestedCan
<1> QED
  BY <1>1, <1>2, <1>3

NestedViewCan(r) ==
  \/ SignedIn(r)
  \/ NestedCan(r) /\ r.obj \notin Template /\ Sees(r, "object")

LEMMA NestedViewIs ==
  ASSUME NEW r, Sane(r), r.everywhere \in BOOLEAN,
         r.at.view \in {"nested", "private", "collaborators"},
         r.obj \in Budget \/ (r.at.view = "nested" /\ r.obj \in Template)
  PROVE  /\ NestedView(r) \in Perms /\ NestedView(r).verdict # Crash
         /\ NestedView(r).verdict = Granted <=> NestedViewCan(r)
<1> DEFINE n == NestedObject(r)
           a == IsFullyAuthenticated(r)
           said == IF n.verdict = Granted /\ r.obj \in Template THEN Denied ELSE n.verdict
           seen == IF n.verdict = Granted THEN IsPublic(r, "object").verdict ELSE n.verdict
           p == [n EXCEPT !.verdict = said]
           q == [n EXCEPT !.verdict = seen]
           s == Perm(IsSafe(r.at))
           e == AllOf(<<p, q, s>>)
<1>1. n \in Perms /\ n.verdict # Crash /\ (n.verdict = Granted <=> NestedCan(r))
  BY NestedObjectIs
<1>2. a \in Perms /\ a.verdict # Crash /\ (a.verdict = Granted <=> SignedIn(r))
  BY SignedInIs
<1>3. /\ IsPublic(r, "object").verdict \in Verdicts \ {Crash}
      /\ IsPublic(r, "object").verdict = Granted <=> LinkHolds(r) /\ r.held = r.obj
  BY PublicIs DEF Sane, Perms
<1>4. /\ said \in Verdicts \ {Crash} /\ seen \in Verdicts \ {Crash}
      /\ said = Granted <=> NestedCan(r) /\ r.obj \notin Template
      /\ said = Granted /\ seen = Granted
           <=> NestedCan(r) /\ r.obj \notin Template /\ LinkHolds(r) /\ r.held = r.obj
  <2>1. n.verdict \in Verdicts \ {Crash}
    BY <1>1 DEF Perms
  <2> HIDE DEF n
  <2> QED
    BY <1>1, <1>3, <2>1 DEF Verdicts, Granted, Denied, Crash
<1>5. s \in Perms /\ s.verdict # Crash /\ (s.verdict = Granted <=> IsSafe(r.at))
  <2>1. IsSafe(r.at) \in BOOLEAN
    BY DEF IsSafe
  <2> QED
    BY <2>1, PermIs
<1>6. NestedView(r) = AnyOf(<<a, e>>)
  BY DEF NestedView
<1> HIDE DEF n, a, said, seen, s
<1>7. p \in Perms /\ p.verdict = said /\ q \in Perms /\ q.verdict = seen
  BY <1>1, <1>4 DEF Perms
<1> HIDE DEF p, q
<1>8. e \in Perms /\ e.verdict # Crash
      /\ (e.verdict = Granted <=> NestedCan(r) /\ r.obj \notin Template /\ Sees(r, "object"))
  BY <1>4, <1>5, <1>7, AllOfThree DEF Sees
<1> HIDE DEF e
<1>9. a.verdict \in Verdicts
  BY <1>2 DEF Perms
<1> QED
  BY <1>2, <1>6, <1>8, <1>9, AnyOfTwo DEF NestedViewCan, Verdicts, Granted, Denied, Crash
-------------------------------------------------------------------------------
(* The verdicts. *)

Asking(r) == Sane(r) /\ r.everywhere \in BOOLEAN
AnyStaff(r) == r.everywhere /\ r.who = Staff
BelowBudget == {"nested", "private", "collaborators"}

LEMMA VerdictsOfBudget ==
  ASSUME NEW r, Asking(r), r.at.view = "budget"
  PROVE  /\ ViewVerdict(r) \in Verdicts \ {Crash}
         /\ ViewVerdict(r) = Granted <=> BudgetViewCan(r) \/ AnyStaff(r)
         /\ r.obj \in Budget =>
              /\ ObjectVerdict(r) \in Verdicts \ {Crash}
              /\ ObjectVerdict(r) = Granted <=> BudgetObjectCan(r) \/ AnyStaff(r)
         /\ r.obj \in Template =>
              /\ ObjectVerdict(r) \in Verdicts \ {Crash}
              /\ ObjectVerdict(r) = Granted <=> TemplateObjectCan(r) \/ AnyStaff(r)
<1>1. /\ ViewVerdict(r) = ToViewPermission(r, BudgetView(r, "view")).verdict
      /\ ObjectVerdict(r) = ToViewPermission(r, BudgetView(r, "object")).verdict
  BY DEF ViewVerdict, ObjectVerdict
<1> DEFINE v == BudgetView(r, "view")
           o == BudgetView(r, "object")
<1>2. v \in Perms /\ v.verdict # Crash /\ (v.verdict = Granted <=> BudgetViewCan(r))
  BY BudgetViewIs DEF Asking
<1>3. /\ r.obj \in Budget \cup Template => o \in Perms /\ o.verdict # Crash
      /\ r.obj \in Budget => (o.verdict = Granted <=> BudgetObjectCan(r))
      /\ r.obj \in Template => (o.verdict = Granted <=> TemplateObjectCan(r))
  BY BudgetViewIs DEF Asking
<1> HIDE DEF v, o
<1>4. /\ ToViewPermission(r, v) \in Perms
      /\ ToViewPermission(r, v).verdict # Crash
      /\ ToViewPermission(r, v).verdict = Granted <=> BudgetViewCan(r) \/ AnyStaff(r)
  BY <1>2, ToViewIs DEF Asking, AnyStaff
<1>5. r.obj \in Budget \cup Template =>
        /\ ToViewPermission(r, o) \in Perms
        /\ ToViewPermission(r, o).verdict # Crash
        /\ ToViewPermission(r, o).verdict = Granted <=> o.verdict = Granted \/ AnyStaff(r)
  BY <1>3, ToViewIs DEF Asking, AnyStaff
<1> QED
  BY <1>1, <1>3, <1>4, <1>5 DEF v, o, Perms

LEMMA VerdictsOfRow ==
  ASSUME NEW r, Asking(r), r.at.view = "row", r.obj \in Budget \cup Template
  PROVE  /\ ViewVerdict(r) \in Verdicts \ {Crash}
         /\ ViewVerdict(r) = Granted <=> SignedIn(r) \/ Sees(r, "view") \/ AnyStaff(r)
         /\ ObjectVerdict(r) \in Verdicts \ {Crash}
         /\ ObjectVerdict(r) = Granted <=> RowCan(r) \/ AnyStaff(r)
<1>1. /\ ViewVerdict(r) = ToViewPermission(r, RowView(r, "view")).verdict
      /\ ObjectVerdict(r) = ToViewPermission(r, RowView(r, "object")).verdict
  BY DEF ViewVerdict, ObjectVerdict
<1> DEFINE v == RowView(r, "view")
           o == RowView(r, "object")
<1>2. /\ v \in Perms /\ v.verdict # Crash
      /\ v.verdict = Granted <=> SignedIn(r) \/ Sees(r, "view")
      /\ o \in Perms /\ o.verdict # Crash /\ (o.verdict = Granted <=> RowCan(r))
  BY RowViewIs DEF Asking
<1> HIDE DEF v, o
<1>3. /\ ToViewPermission(r, v) \in Perms
      /\ ToViewPermission(r, v).verdict # Crash
      /\ ToViewPermission(r, v).verdict = Granted
           <=> SignedIn(r) \/ Sees(r, "view") \/ AnyStaff(r)
  BY <1>2, ToViewIs DEF Asking, AnyStaff
<1>4. /\ ToViewPermission(r, o) \in Perms
      /\ ToViewPermission(r, o).verdict # Crash
      /\ ToViewPermission(r, o).verdict = Granted <=> RowCan(r) \/ AnyStaff(r)
  BY <1>2, ToViewIs DEF Asking, AnyStaff
<1> QED
  BY <1>1, <1>3, <1>4 DEF v, o, Perms

LEMMA VerdictsOfCollaborator ==
  ASSUME NEW r, Asking(r), r.at.view = "collaborator", SignedIn(r), owner[r.obj] # None
  PROVE  /\ ViewVerdict(r) = Granted
         /\ ObjectVerdict(r) \in Verdicts \ {Crash}
         /\ ObjectVerdict(r) = Granted
              <=> r.of = r.who \/ RoleOf(r) = "owner" \/ AnyStaff(r)
<1>1. /\ ViewVerdict(r) = ToViewPermission(r, CollaboratorView(r, "view")).verdict
      /\ ObjectVerdict(r) = ToViewPermission(r, CollaboratorView(r, "object")).verdict
  BY DEF ViewVerdict, ObjectVerdict
<1> DEFINE v == CollaboratorView(r, "view")
           o == CollaboratorView(r, "object")
<1>2. /\ v \in Perms /\ v.verdict = Granted
      /\ o \in Perms /\ o.verdict # Crash
      /\ o.verdict = Granted <=> r.of = r.who \/ RoleOf(r) = "owner"
  BY CollaboratorViewIs
<1>3. v.verdict # Crash
  BY <1>2 DEF Granted, Crash
<1> HIDE DEF v, o
<1>4. ToViewPermission(r, v).verdict = Granted
  BY <1>2, <1>3, ToViewIs DEF Asking
<1>5. /\ ToViewPermission(r, o) \in Perms
      /\ ToViewPermission(r, o).verdict # Crash
      /\ ToViewPermission(r, o).verdict = Granted
           <=> r.of = r.who \/ RoleOf(r) = "owner" \/ AnyStaff(r)
  BY <1>2, ToViewIs DEF Asking, AnyStaff
<1> QED
  BY <1>1, <1>4, <1>5 DEF v, o, Perms

LEMMA VerdictsOfLink ==
  ASSUME NEW r, Asking(r), r.at.view = "link"
  PROVE  /\ ViewVerdict(r) \in Verdicts \ {Crash}
         /\ ViewVerdict(r) = Granted <=> SignedIn(r)
         /\ ObjectVerdict(r) \in Verdicts \ {Crash}
         /\ ObjectVerdict(r) = Granted <=> link[r.obj] # None /\ link[r.obj].by = r.who
<1> DEFINE a == IsFullyAuthenticated(r)
           mine == link[r.obj] # None /\ link[r.obj].by = r.who
<1>1. /\ ViewVerdict(r) = ToViewPermission(r, a).verdict
      /\ ObjectVerdict(r) = Perm(mine).verdict
  BY DEF ViewVerdict, ObjectVerdict
<1>2. a \in Perms /\ a.verdict # Crash /\ (a.verdict = Granted <=> SignedIn(r))
  BY SignedInIs
<1>3. AnyStaff(r) => SignedIn(r)
  BY AccessAssumption DEF AnyStaff, SignedIn
<1>4. mine \in BOOLEAN
  OBVIOUS
<1> HIDE DEF a
<1>5. /\ ToViewPermission(r, a) \in Perms
      /\ ToViewPermission(r, a).verdict # Crash
      /\ ToViewPermission(r, a).verdict = Granted <=> SignedIn(r)
  BY <1>2, <1>3, ToViewIs DEF Asking, AnyStaff
<1>6. Perm(mine) \in Perms /\ Perm(mine).verdict # Crash /\ (Perm(mine).verdict = Granted <=> mine)
  BY <1>4, PermIs
<1> QED
  BY <1>1, <1>5, <1>6 DEF Perms

LEMMA VerdictsBelowBudget ==
  ASSUME NEW r, Asking(r), r.at.view \in BelowBudget,
         r.obj \in Budget \/ (r.at.view = "nested" /\ r.obj \in Template)
  PROVE  /\ ViewVerdict(r) \in Verdicts \ {Crash}
         /\ ViewVerdict(r) = Granted <=> NestedViewCan(r) \/ AnyStaff(r)
         /\ ObjectVerdict(r) \in Verdicts \ {Crash}
         /\ ObjectVerdict(r) = Granted <=> NestedCan(r)
<1>1. /\ ViewVerdict(r) = ToViewPermission(r, NestedView(r)).verdict
      /\ ObjectVerdict(r) = NestedObject(r).verdict
  BY DEF ViewVerdict, ObjectVerdict, BelowBudget
<1> DEFINE v == NestedView(r)
<1>2. v \in Perms /\ v.verdict # Crash /\ (v.verdict = Granted <=> NestedViewCan(r))
  BY NestedViewIs DEF Asking, BelowBudget
<1>3. /\ NestedObject(r) \in Perms /\ NestedObject(r).verdict # Crash
      /\ NestedObject(r).verdict = Granted <=> NestedCan(r)
  BY NestedObjectIs DEF Asking, BelowBudget
<1> HIDE DEF v
<1>4. /\ ToViewPermission(r, v) \in Perms
      /\ ToViewPermission(r, v).verdict # Crash
      /\ ToViewPermission(r, v).verdict = Granted <=> NestedViewCan(r) \/ AnyStaff(r)
  BY <1>2, ToViewIs DEF Asking, AnyStaff
<1> QED
  BY <1>1, <1>3, <1>4 DEF v, Perms
(* Which endpoints there are, by view and by action. *)
LEMMA EndpointIs ==
  ASSUME NEW e \in Endpoints
  PROVE  /\ \/ /\ e.view = "budget"
               /\ e.action \in {"list", "create", "retrieve", "partial_update", "destroy",
                                "bulk_update_children", "duplicate", "bulk_import_actuals"}
            \/ e.view \in {"nested", "private", "collaborators"} /\ e.action \in {"list", "create"}
            \/ /\ e.view = "row"
               /\ e.action \in {"retrieve", "partial_update", "destroy", "bulk_update_children"}
            \/ e.view \in {"collaborator", "link"} /\ e.action \in {"partial_update", "destroy"}
         /\ e = Create <=> e.view = "budget" /\ e.action = "create"
         /\ e = Duplicate <=> e.view = "budget" /\ e.action = "duplicate"
         /\ e = Patch <=> e.view = "budget" /\ e.action = "partial_update"
         /\ e = Destroy <=> e.view = "budget" /\ e.action = "destroy"
         /\ e = AddCollaborator <=> e.view = "collaborators" /\ e.action = "create"
         /\ e = At("budget", "list") <=> e.view = "budget" /\ e.action = "list"
         /\ e \in OnNothing <=> e.view = "budget" /\ e.action \in {"list", "create"}
<1>1. PICK v, a : /\ e = At(v, a)
                  /\ \/ /\ v = "budget"
                        /\ a \in {"list", "create", "retrieve", "partial_update", "destroy",
                                  "bulk_update_children", "duplicate", "bulk_import_actuals"}
                     \/ v \in {"nested", "private", "collaborators"} /\ a \in {"list", "create"}
                     \/ /\ v = "row"
                        /\ a \in {"retrieve", "partial_update", "destroy", "bulk_update_children"}
                     \/ v \in {"collaborator", "link"} /\ a \in {"partial_update", "destroy"}
  BY DEF Endpoints, BudgetEndpoints, NestedEndpoints, PrivateEndpoints, RowEndpoints,
         CollaboratorsEndpoints, CollaboratorEndpoints, LinkEndpoints
<1>2. /\ e.view = v /\ e.action = a
      /\ \A w, b : At(v, a) = At(w, b) <=> v = w /\ a = b
  BY <1>1 DEF At
<1>3. /\ e = Create <=> v = "budget" /\ a = "create"
      /\ e = Duplicate <=> v = "budget" /\ a = "duplicate"
      /\ e = Patch <=> v = "budget" /\ a = "partial_update"
      /\ e = Destroy <=> v = "budget" /\ a = "destroy"
      /\ e = AddCollaborator <=> v = "collaborators" /\ a = "create"
      /\ e = At("budget", "list") <=> v = "budget" /\ a = "list"
  BY <1>1, <1>2 DEF Create, Duplicate, Patch, Destroy, AddCollaborator
<1>4. e \in OnNothing <=> e = At("budget", "list") \/ e = Create
  BY DEF OnNothing, Create
<1> QED
  BY <1>1, <1>2, <1>3, <1>4

LEMMA TemplateEndpointIs ==
  ASSUME NEW e \in TemplateEndpoints
  PROVE  /\ e \in Endpoints /\ e \notin OnNothing /\ e.view \in {"budget", "nested", "row"}
         /\ e.view = "budget" => e.action # "bulk_import_actuals"
<1>1. e \in Endpoints /\ e \in BudgetEndpoints \cup NestedEndpoints \cup RowEndpoints
  BY DEF TemplateEndpoints, Endpoints
<1>2. CASE e \in NestedEndpoints
  BY <1>1, <1>2, EndpointIs DEF NestedEndpoints, At
<1>3. CASE e \in RowEndpoints
  BY <1>1, <1>3, EndpointIs DEF RowEndpoints, At
<1>4. CASE e \in BudgetEndpoints /\ e.action \notin {"list", "create", "bulk_import_actuals"}
  <2>1. e.view = "budget"
    BY <1>4 DEF BudgetEndpoints, At
  <2> QED
    BY <1>1, <1>4, <2>1, EndpointIs
<1> QED
  BY <1>2, <1>3, <1>4 DEF TemplateEndpoints

(* The requests that GrantsAsPromised is about, by what they are made on.    *)
Typed ==
  /\ owner \in [Budget -> User \cup {None}] /\ product \in [User -> BOOLEAN]
  /\ collab \in [Budget -> [User -> Roles \cup {None}]]
  /\ link \in [Budget -> Links \cup {None}]

OnBudget(r) ==
  /\ r.at \in Endpoints /\ r.at \notin OnNothing
  /\ r.obj \in Budget /\ r.of \in User /\ owner[r.obj] = r.of
OnTemplate(r) ==
  r.at \in TemplateEndpoints /\ r.obj \in Template /\ r.of = TemplateOwner[r.obj]
Asks(r) ==
  /\ r.who \in User \cup {Staff, Visitor} /\ r.everywhere \in BOOLEAN
  /\ r.held \in Budget \cup {None}
  /\ \/ r.at \in OnNothing /\ r.obj = None /\ r.of = None
     \/ OnBudget(r) \/ OnTemplate(r)

LEMMA RequestsAsk ==
  ASSUME Typed, NEW r \in Requests
  PROVE  Asks(r)
<1>1. ASSUME NEW o, NEW of, NEW E, r \in RequestsAt(o, of, E)
      PROVE  /\ r.at \in E /\ r.obj = o /\ r.of = of
             /\ r.who \in User \cup {Staff, Visitor} /\ r.everywhere \in BOOLEAN
             /\ r.held \in Budget \cup {None}
  BY <1>1, AccessAssumption DEF RequestsAt
<1>2. CASE r \in RequestsAt(None, None, OnNothing)
  BY <1>1, <1>2 DEF Asks
<1>3. ASSUME NEW b \in Budget, owner[b] # None,
             r \in RequestsAt(b, owner[b], Endpoints \ OnNothing)
      PROVE  Asks(r)
  <2> DEFINE E == Endpoints \ OnNothing
  <2>1. r \in RequestsAt(b, owner[b], E)
    BY <1>3
  <2> HIDE DEF E
  <2>2. /\ r.at \in E /\ r.obj = b /\ r.of = owner[b]
        /\ r.who \in User \cup {Staff, Visitor} /\ r.everywhere \in BOOLEAN
        /\ r.held \in Budget \cup {None}
    BY <1>1, <2>1
  <2>3. r.of \in User
    BY <1>3, <2>2 DEF Typed
  <2> QED
    BY <2>2, <2>3 DEF Asks, OnBudget, E
<1>4. ASSUME NEW t \in Template, r \in RequestsAt(t, TemplateOwner[t], TemplateEndpoints)
      PROVE  Asks(r)
  BY <1>1, <1>4 DEF Asks, OnTemplate
<1>5. \/ r \in RequestsAt(None, None, OnNothing)
      \/ \E b \in Budget : owner[b] # None /\ r \in RequestsAt(b, owner[b], Endpoints \ OnNothing)
      \/ \E t \in Template : r \in RequestsAt(t, TemplateOwner[t], TemplateEndpoints)
  <2> DEFINE Live == {c \in Budget : owner[c] # None}
             OfBudget(b) == RequestsAt(b, owner[b], Endpoints \ OnNothing)
             OfTemplate(t) == RequestsAt(t, TemplateOwner[t], TemplateEndpoints)
  <2>1. \/ r \in RequestsAt(None, None, OnNothing)
        \/ r \in UNION {OfBudget(b) : b \in Live}
        \/ r \in UNION {OfTemplate(t) : t \in Template}
    BY DEF Requests
  <2> HIDE DEF OfBudget, OfTemplate
  <2>2. \/ r \in RequestsAt(None, None, OnNothing)
        \/ \E b \in Live : r \in OfBudget(b)
        \/ \E t \in Template : r \in OfTemplate(t)
    BY <2>1
  <2> QED
    BY <2>2 DEF OfBudget, OfTemplate
<1> QED
  BY <1>2, <1>3, <1>4, <1>5

LEMMA AsksIs ==
  ASSUME Typed, NEW r, Asks(r)
  PROVE  /\ Asking(r) /\ (r.who = r.of => SignedIn(r)) /\ (AnyStaff(r) => SignedIn(r))
         /\ r.of = r.who /\ r.obj \in Budget => Owned(r.who) # {}
         /\ r.who \in User => SignedIn(r)
         /\ RoleOf(r) # None => r.who \in User /\ r.obj \in Budget
         /\ RoleOf(r) \in Roles \cup {None}
         /\ r.obj \in Template => r.held # r.obj
         /\ HasProduct(r.who) => SignedIn(r)
<1>1. r.obj \in Budget /\ r.of = r.who => r.obj \in Owned(r.who)
  BY AccessAssumption DEF Asks, OnBudget, OnTemplate, Owned
<1>2. /\ r.who \in User => SignedIn(r)
      /\ r.who = Staff => SignedIn(r)
  BY AccessAssumption DEF SignedIn
<1>3. r.who = r.of => r.who \in User \cup {Staff}
  BY AccessAssumption DEF Asks, OnBudget, OnTemplate
<1>4. RoleOf(r) # None => r.who \in User /\ r.obj \in Budget
  BY DEF RoleOf
<1>5. RoleOf(r) \in Roles \cup {None}
  BY DEF RoleOf, Typed
<1>6. r.obj \in Template => r.held # r.obj
  BY AccessAssumption DEF Asks
<1> QED
  BY <1>1, <1>2, <1>3, <1>4, <1>5, <1>6 DEF Asking, Sane, Asks, Typed, AnyStaff, HasProduct

LEMMA OwnersMay ==
  ASSUME Typed, NEW r, Asks(r), OnBudget(r), NEW o
  PROVE  /\ OwnerMay(r) <=>
              /\ r.of = r.who /\ r.at.view # "link"
              /\ ~ (r.at.view = "budget" /\ r.at.action = "duplicate")
              /\ \/ r.at.view = "budget" /\ r.at.action = "destroy"
                 \/ r.at.view \in {"collaborators", "collaborator"}
                 \/ HasProduct(r.who) \/ FirstCreated(r.who) = r.obj
         /\ CollaboratorMay(r) <=>
              /\ r.at.view # "link"
              /\ ~ (r.at.view = "budget"
                    /\ r.at.action \in {"duplicate", "destroy", "partial_update"})
              /\ \/ RoleOf(r) = "owner"
                 \/ /\ RoleOf(r) = "editor"
                    /\ r.at.view # "collaborator" /\ r.at.action # "bulk_import_actuals"
                    /\ ~ (r.at.view = "collaborators" /\ r.at.action = "create")
                 \/ RoleOf(r) = "view_only" /\ IsSafe(r.at)
         /\ ~ TemplateMay(r)
         /\ r.at # At("budget", "list") /\ r.at # Create
<1>1. r.at \in Endpoints /\ r.at \notin OnNothing /\ r.obj \in Budget /\ r.obj \notin Template
  BY AccessAssumption DEF OnBudget
<1> QED
  BY <1>1, EndpointIs DEF OwnerMay, CollaboratorMay, TemplateMay, OnNothing, Create

(* On each kind of object the composed permissions are what is promised.     *)
LEMMA PromisedOnBudget ==
  ASSUME Typed, NEW r, Asks(r), OnBudget(r), r.at.view = "budget"
  PROVE  /\ Verdict(r) \in Verdicts \ {Crash}
         /\ Verdict(r) = Granted <=> MayDo(r)
<1>1. /\ r.at \in Endpoints /\ r.at \notin OnNothing /\ r.obj \in Budget
      /\ Asking(r) /\ r.obj \notin Template
  BY AccessAssumption, AsksIs DEF OnBudget
<1>2. /\ ViewVerdict(r) \in Verdicts \ {Crash} /\ ObjectVerdict(r) \in Verdicts \ {Crash}
      /\ ViewVerdict(r) = Granted <=> BudgetViewCan(r) \/ AnyStaff(r)
      /\ ObjectVerdict(r) = Granted <=> BudgetObjectCan(r) \/ AnyStaff(r)
  BY <1>1, VerdictsOfBudget
<1>3. /\ Verdict(r) \in Verdicts \ {Crash}
      /\ Verdict(r) = Granted <=> /\ BudgetViewCan(r) \/ AnyStaff(r)
                                  /\ BudgetObjectCan(r) \/ AnyStaff(r)
  BY <1>1, <1>2 DEF Verdict
<1>4. /\ r.at.action \in {"retrieve", "partial_update", "destroy",
                          "bulk_update_children", "duplicate", "bulk_import_actuals"}
      /\ r.at = Duplicate <=> r.at.action = "duplicate"
  BY <1>1, EndpointIs
<1>5. IsSafe(r.at) <=> r.at.action = "retrieve"
  BY <1>4 DEF IsSafe
<1>6. MayDo(r) <=> \/ AnyStaff(r)
                   \/ r.at.action = "duplicate" /\ r.of = r.who /\ HasProduct(r.who)
                   \/ OwnerMay(r) \/ CollaboratorMay(r)
                   \/ Sees(r, "object")
  BY <1>1, <1>4, OwnersMay DEF MayDo, AnyStaff, Sees
<1>7. CASE r.at.action = "duplicate"
  <2>1. BudgetViewCan(r) <=> NewCan(r, "view")
    BY <1>5, <1>7 DEF BudgetViewCan, Elsewhere
  <2>2. BudgetObjectCan(r) <=> NewCan(r, "object")
    BY <1>5, <1>7 DEF BudgetObjectCan, Elsewhere
  <2>3. ~ OwnerMay(r) /\ ~ CollaboratorMay(r) /\ ~ Sees(r, "object")
    BY <1>5, <1>7, OwnersMay DEF Sees
  <2> QED
    BY <1>1, <1>3, <1>6, <1>7, <2>1, <2>2, <2>3, AsksIs DEF NewCan
<1>8. CASE r.at.action = "bulk_import_actuals"
  <2>1. BudgetViewCan(r) <=> SignedIn(r)
    BY <1>5, <1>8 DEF BudgetViewCan, Elsewhere
  <2>2. BudgetObjectCan(r) <=> BudgetCan(r, ImportOptions)
    BY <1>5, <1>8 DEF BudgetObjectCan, Elsewhere
  <2>3. BudgetCan(r, ImportOptions) <=>
          \/ SignedIn(r) /\ r.of = r.who /\ (HasProduct(r.who) \/ FirstCreated(r.who) = r.obj)
          \/ SignedIn(r) /\ RoleOf(r) = "owner"
    BY <1>8, OptionsAre DEF BudgetCan, OwnerCan, TypesOf
  <2>4. ~ Sees(r, "object")
    BY <1>5, <1>8 DEF Sees
  <2>5. OwnerMay(r) <=> r.of = r.who /\ (HasProduct(r.who) \/ FirstCreated(r.who) = r.obj)
    BY <1>8, OwnersMay
  <2>6. CollaboratorMay(r) <=> RoleOf(r) = "owner"
    BY <1>5, <1>8, OwnersMay
  <2>7. RoleOf(r) = "owner" => SignedIn(r)
    BY AsksIs, AccessAssumption DEF Roles
  <2> QED
    BY <1>1, <1>3, <1>6, <1>8, <2>1, <2>2, <2>3, <2>4, <2>5, <2>6, <2>7, AsksIs
<1>9. CASE r.at.action \notin {"duplicate", "bulk_import_actuals"}
  <2>1. BudgetViewCan(r) <=> SignedIn(r) \/ Sees(r, "view")
    BY <1>4, <1>9 DEF BudgetViewCan, Elsewhere
  <2>2. BudgetObjectCan(r) <=> BudgetCan(r, BudgetOptions)
    BY <1>4, <1>9 DEF BudgetObjectCan, Elsewhere
  <2>3. TypesOf(r, BudgetOptions) = IF IsSafe(r.at) THEN Roles ELSE {"editor", "owner"}
    BY OptionsAre DEF TypesOf, TypesFor
  <2>4. BudgetCan(r, BudgetOptions) <=>
          \/ /\ SignedIn(r) /\ r.of = r.who
             /\ r.at.action = "destroy" \/ HasProduct(r.who) \/ FirstCreated(r.who) = r.obj
          \/ /\ SignedIn(r) /\ r.at.action \notin {"destroy", "partial_update"}
             /\ RoleOf(r) \in (IF IsSafe(r.at) THEN Roles ELSE {"editor", "owner"})
          \/ Sees(r, "object")
    BY <2>3, OptionsAre DEF BudgetCan, OwnerCan
  <2>5. OwnerMay(r) <=>
          /\ r.of = r.who
          /\ r.at.action = "destroy" \/ HasProduct(r.who) \/ FirstCreated(r.who) = r.obj
    BY <1>9, OwnersMay
  <2>6. CollaboratorMay(r) <=>
          /\ r.at.action \notin {"destroy", "partial_update"}
          /\ RoleOf(r) \in (IF IsSafe(r.at) THEN Roles ELSE {"editor", "owner"})
    BY <1>9, OwnersMay DEF Roles
  <2>7. RoleOf(r) \in Roles => SignedIn(r)
    BY AsksIs, AccessAssumption
  <2>8. Sees(r, "object") => Sees(r, "view")
    BY DEF Sees
  <2> QED
    BY <1>1, <1>3, <1>6, <1>9, <2>1, <2>2, <2>4, <2>5, <2>6, <2>7, <2>8, AsksIs DEF Roles
<1> QED
  BY <1>7, <1>8, <1>9

LEMMA PromisedOnRow ==
  ASSUME Typed, NEW r, Asks(r), OnBudget(r), r.at.view = "row"
  PROVE  /\ Verdict(r) \in Verdicts \ {Crash}
         /\ Verdict(r) = Granted <=> MayDo(r)
<1>1. /\ r.at \in Endpoints /\ r.at \notin OnNothing /\ r.obj \in Budget
      /\ Asking(r) /\ r.obj \notin Template
  BY AccessAssumption, AsksIs DEF OnBudget
<1>2. /\ ViewVerdict(r) \in Verdicts \ {Crash} /\ ObjectVerdict(r) \in Verdicts \ {Crash}
      /\ ViewVerdict(r) = Granted <=> SignedIn(r) \/ Sees(r, "view") \/ AnyStaff(r)
      /\ ObjectVerdict(r) = Granted <=> BudgetCan(r, RowOptions) \/ AnyStaff(r)
  BY <1>1, VerdictsOfRow DEF RowCan
<1>3. /\ Verdict(r) \in Verdicts \ {Crash}
      /\ Verdict(r) = Granted <=> /\ SignedIn(r) \/ Sees(r, "view") \/ AnyStaff(r)
                                  /\ BudgetCan(r, RowOptions) \/ AnyStaff(r)
  BY <1>1, <1>2 DEF Verdict
<1>4. /\ r.at.action \in {"retrieve", "partial_update", "destroy", "bulk_update_children"}
      /\ r.at # Duplicate
  BY <1>1, EndpointIs
<1>5. MayDo(r) <=> \/ AnyStaff(r) \/ OwnerMay(r) \/ CollaboratorMay(r) \/ Sees(r, "object")
  BY <1>1, <1>4, OwnersMay DEF MayDo, AnyStaff, Sees
<1>6. TypesOf(r, RowOptions) = IF IsSafe(r.at) THEN Roles ELSE {"editor", "owner"}
  BY OptionsAre DEF TypesOf, TypesFor
<1>7. BudgetCan(r, RowOptions) <=>
        \/ SignedIn(r) /\ r.of = r.who /\ (HasProduct(r.who) \/ FirstCreated(r.who) = r.obj)
        \/ /\ SignedIn(r)
           /\ RoleOf(r) \in (IF IsSafe(r.at) THEN Roles ELSE {"editor", "owner"})
        \/ Sees(r, "object")
  BY <1>6, OptionsAre DEF BudgetCan, OwnerCan
<1>8. OwnerMay(r) <=> r.of = r.who /\ (HasProduct(r.who) \/ FirstCreated(r.who) = r.obj)
  BY OwnersMay
<1>9. CollaboratorMay(r) <=>
        RoleOf(r) \in (IF IsSafe(r.at) THEN Roles ELSE {"editor", "owner"})
  BY <1>4, OwnersMay DEF Roles
<1>10. RoleOf(r) \in Roles => SignedIn(r)
  BY AsksIs, AccessAssumption
<1>11. Sees(r, "object") => Sees(r, "view")
  BY DEF Sees
<1> QED
  BY <1>1, <1>3, <1>5, <1>7, <1>8, <1>9, <1>10, <1>11, AsksIs DEF Roles

LEMMA PromisedBelowBudget ==
  ASSUME Typed, NEW r, Asks(r), OnBudget(r), r.at.view \in BelowBudget
  PROVE  /\ Verdict(r) \in Verdicts \ {Crash}
         /\ Verdict(r) = Granted <=> MayDo(r)
<1>1. /\ r.at \in Endpoints /\ r.at \notin OnNothing /\ r.obj \in Budget
      /\ Asking(r) /\ r.obj \notin Template
  BY AccessAssumption, AsksIs DEF OnBudget
<1>2. /\ ViewVerdict(r) \in Verdicts \ {Crash} /\ ObjectVerdict(r) \in Verdicts \ {Crash}
      /\ ViewVerdict(r) = Granted <=> NestedViewCan(r) \/ AnyStaff(r)
      /\ ObjectVerdict(r) = Granted <=> NestedCan(r)
  BY <1>1, VerdictsBelowBudget
<1>3. /\ Verdict(r) \in Verdicts \ {Crash}
      /\ Verdict(r) = Granted <=> (NestedViewCan(r) \/ AnyStaff(r)) /\ NestedCan(r)
  BY <1>1, <1>2 DEF Verdict
<1>4. r.at.action \in {"list", "create"} /\ r.at # Duplicate
  BY <1>1, EndpointIs DEF BelowBudget
<1>5. IsSafe(r.at) <=> r.at.action = "list"
  BY <1>4 DEF IsSafe
<1>6. MayDo(r) <=> \/ AnyStaff(r) \/ OwnerMay(r) \/ CollaboratorMay(r)
                   \/ r.at.view = "nested" /\ Sees(r, "object")
  BY <1>1, <1>4, OwnersMay DEF MayDo, AnyStaff, Sees, BelowBudget
<1>7. RoleOf(r) \in Roles => SignedIn(r)
  BY AsksIs, AccessAssumption
<1>8. /\ TypesOf(r, NestedOptions) = IF IsSafe(r.at) THEN Roles ELSE {"editor", "owner"}
      /\ TypesOf(r, ObjectOptions) = IF IsSafe(r.at) THEN Roles ELSE {"editor", "owner"}
  BY OptionsAre DEF TypesOf, TypesFor
<1> DEFINE Own == r.of = r.who /\ (HasProduct(r.who) \/ FirstCreated(r.who) = r.obj)
           Help == RoleOf(r) \in (IF IsSafe(r.at) THEN Roles ELSE {"editor", "owner"})
<1>9. /\ BudgetCan(r, NestedOptions) <=>
           (SignedIn(r) /\ (Own \/ Help)) \/ Sees(r, "object")
      /\ BudgetCan(r, ObjectOptions) <=> SignedIn(r) /\ (Own \/ Help)
  BY <1>4, <1>8, OptionsAre DEF BudgetCan, OwnerCan
<1>10. (Own => SignedIn(r)) /\ (Help => SignedIn(r))
  BY <1>7, AsksIs DEF Roles
<1>11. CASE r.at.view = "nested"
  <2>1. NestedCan(r) <=> AnyStaff(r) \/ Own \/ Help \/ Sees(r, "object")
    BY <1>1, <1>9, <1>10, <1>11 DEF NestedCan, AnyStaff
  <2>2. OwnerMay(r) <=> Own
    BY <1>11, OwnersMay
  <2>3. CollaboratorMay(r) <=> Help
    BY <1>4, <1>11, OwnersMay DEF Roles
  <2> HIDE DEF Own, Help
  <2> QED
    BY <1>1, <1>3, <1>6, <1>10, <1>11, <2>1, <2>2, <2>3 DEF NestedViewCan
<1>12. CASE r.at.view = "private"
  <2>1. NestedCan(r) <=> AnyStaff(r) \/ Own \/ Help
    BY <1>1, <1>9, <1>10, <1>12 DEF NestedCan, AnyStaff
  <2>2. OwnerMay(r) <=> Own
    BY <1>12, OwnersMay
  <2>3. CollaboratorMay(r) <=> Help
    BY <1>4, <1>12, OwnersMay DEF Roles
  <2> HIDE DEF Own, Help
  <2> QED
    BY <1>1, <1>3, <1>6, <1>10, <1>12, <2>1, <2>2, <2>3 DEF NestedViewCan
<1>13. CASE r.at.view = "collaborators"
  <2>1. NestedCan(r) <=>
          \/ AnyStaff(r)
          \/ /\ SignedIn(r)
             /\ r.of = r.who \/ RoleOf(r) \in (IF IsSafe(r.at) THEN Roles ELSE {"owner"})
    BY <1>13 DEF NestedCan, AnyStaff, CollaboratorsCan
  <2>2. OwnerMay(r) <=> r.of = r.who
    BY <1>13, OwnersMay
  <2>3. CollaboratorMay(r) <=> RoleOf(r) \in (IF IsSafe(r.at) THEN Roles ELSE {"owner"})
    BY <1>4, <1>5, <1>13, OwnersMay DEF Roles
  <2> QED
    BY <1>1, <1>3, <1>6, <1>7, <1>13, <2>1, <2>2, <2>3, AsksIs DEF NestedViewCan, Roles
<1> QED
  BY <1>11, <1>12, <1>13 DEF BelowBudget

LEMMA PromisedOnCollaborator ==
  ASSUME Typed, NEW r, Asks(r), OnBudget(r), r.at.view = "collaborator", SignedIn(r)
  PROVE  /\ Verdict(r) \in Verdicts \ {Crash}
         /\ Verdict(r) = Granted <=> MayDo(r)
<1>1. /\ r.at \in Endpoints /\ r.at \notin OnNothing /\ r.obj \in Budget
      /\ Asking(r) /\ owner[r.obj] # None
  BY AccessAssumption, AsksIs DEF OnBudget
<1>2. /\ Verdict(r) \in Verdicts \ {Crash}
      /\ Verdict(r) = Granted <=> r.of = r.who \/ RoleOf(r) = "owner" \/ AnyStaff(r)
  BY <1>1, VerdictsOfCollaborator DEF Verdict
<1>3. /\ r.at.action \in {"partial_update", "destroy"} /\ r.at # Duplicate
      /\ ~ IsSafe(r.at)
  BY <1>1, EndpointIs DEF IsSafe
<1>4. MayDo(r) <=> AnyStaff(r) \/ OwnerMay(r) \/ CollaboratorMay(r)
  BY <1>1, <1>3, OwnersMay DEF MayDo, AnyStaff
<1>5. (OwnerMay(r) <=> r.of = r.who) /\ (CollaboratorMay(r) <=> RoleOf(r) = "owner")
  BY <1>3, OwnersMay
<1> QED
  BY <1>2, <1>4, <1>5

LEMMA PromisedOnLink ==
  ASSUME Typed, NEW r, Asks(r), OnBudget(r), r.at.view = "link"
  PROVE  /\ Verdict(r) \in Verdicts \ {Crash}
         /\ Verdict(r) = Granted <=> MayDo(r)
<1> DEFINE mine == link[r.obj] # None /\ link[r.obj].by = r.who
<1>1. /\ r.at \in Endpoints /\ r.at \notin OnNothing /\ r.obj \in Budget /\ Asking(r)
  BY AsksIs DEF OnBudget
<1>2. mine => SignedIn(r)
  <2>1. link[r.obj] \in Links \cup {None}
    BY <1>1 DEF Typed
  <2>2. mine => r.who \in User
    BY <2>1 DEF Links
  <2> QED
    BY <2>2, AsksIs
<1>3. /\ Verdict(r) \in Verdicts \ {Crash}
      /\ Verdict(r) = Granted <=> mine
  BY <1>1, <1>2, VerdictsOfLink DEF Verdict
<1>4. r.at # Duplicate
  BY <1>1, EndpointIs
<1>5. MayDo(r) <=> mine
  BY <1>4, OwnersMay DEF MayDo
<1> QED
  BY <1>3, <1>5

LEMMA PromisedOnTemplate ==
  ASSUME Typed, NEW r, Asks(r), OnTemplate(r), ~ Misbehaves(r)
  PROVE  /\ Verdict(r) \in Verdicts \ {Crash}
         /\ Verdict(r) = Granted <=> MayDo(r)
<1>1. /\ r.at \in Endpoints /\ r.at \notin OnNothing /\ r.obj \in Template
      /\ r.obj \notin Budget /\ Asking(r) /\ r.held # r.obj
      /\ r.at.view \in {"budget", "nested", "row"}
      /\ r.at.view = "budget" => r.at.action # "bulk_import_actuals"
  BY AccessAssumption, AsksIs, TemplateEndpointIs DEF OnTemplate
<1>2. /\ r.at = Duplicate <=> r.at.view = "budget" /\ r.at.action = "duplicate"
      /\ r.at # Create /\ r.at # At("budget", "list")
      /\ r.at.view = "budget" => r.at.action \in {"retrieve", "partial_update", "destroy",
                                                  "bulk_update_children", "duplicate"}
  BY <1>1, EndpointIs DEF OnNothing, Create
<1>3. MayDo(r) <=> \/ AnyStaff(r) \/ TemplateMay(r)
                   \/ r.at = Duplicate /\ r.of = r.who /\ HasProduct(r.who)
  BY <1>1, <1>2, AsksIs, AccessAssumption
     DEF MayDo, AnyStaff, OwnerMay, CollaboratorMay, RoleOf, Roles
<1>4. r.of = r.who => SignedIn(r)
  BY AsksIs
<1>5. r.who = Staff => SignedIn(r)
  BY AccessAssumption DEF SignedIn
<1>6. TemplateMay(r) <=> \/ r.of = r.who
                         \/ r.at # Duplicate /\ r.who = Staff /\ r.obj \in Community
  BY <1>1 DEF TemplateMay
<1>7. TemplateCan(r) <=> r.of = r.who \/ (r.who = Staff /\ r.obj \in Community)
  BY <1>4, <1>5 DEF TemplateCan
<1>8. CASE r.at = Duplicate
  <2>1. r.at.view = "budget" /\ r.at.action = "duplicate"
    BY <1>2, <1>8
  <2>2. /\ Verdict(r) \in Verdicts \ {Crash}
        /\ Verdict(r) = Granted <=> /\ BudgetViewCan(r) \/ AnyStaff(r)
                                    /\ TemplateObjectCan(r) \/ AnyStaff(r)
    BY <1>1, <2>1, VerdictsOfBudget DEF Verdict
  <2>3. /\ BudgetViewCan(r) <=> SignedIn(r) /\ (HasProduct(r.who) \/ Owned(r.who) = {})
        /\ TemplateObjectCan(r) <=> SignedIn(r) /\ r.of = r.who
    BY <1>1, <2>1 DEF BudgetViewCan, TemplateObjectCan, Elsewhere, NewCan
  <2>4. HasProduct(r.who) \/ Owned(r.who) = {}
    BY <1>1, <1>8 DEF Misbehaves
  <2> QED
    BY <1>3, <1>4, <1>6, <1>8, <2>2, <2>3, <2>4
<1>9. CASE r.at.view = "budget" /\ r.at # Duplicate
  <2>1. /\ Verdict(r) \in Verdicts \ {Crash}
        /\ Verdict(r) = Granted <=> /\ BudgetViewCan(r) \/ AnyStaff(r)
                                    /\ TemplateObjectCan(r) \/ AnyStaff(r)
    BY <1>1, <1>9, VerdictsOfBudget DEF Verdict
  <2>2. r.at.action \notin Elsewhere
    BY <1>2, <1>9 DEF Elsewhere
  <2>3. /\ SignedIn(r) => BudgetViewCan(r)
        /\ TemplateObjectCan(r) <=> TemplateCan(r)
    BY <2>2 DEF BudgetViewCan, TemplateObjectCan, Elsewhere
  <2> QED
    BY <1>3, <1>4, <1>5, <1>6, <1>7, <1>9, <2>1, <2>3
<1>10. CASE r.at.view = "nested"
  <2>1. /\ Verdict(r) \in Verdicts \ {Crash}
        /\ Verdict(r) = Granted <=> (NestedViewCan(r) \/ AnyStaff(r)) /\ NestedCan(r)
    BY <1>1, <1>10, VerdictsBelowBudget DEF Verdict, BelowBudget
  <2>2. NestedCan(r) <=> AnyStaff(r) \/ TemplateCan(r)
    BY <1>1, <1>10 DEF NestedCan, AnyStaff
  <2>3. SignedIn(r) => NestedViewCan(r)
    BY DEF NestedViewCan
  <2> QED
    BY <1>2, <1>3, <1>4, <1>5, <1>6, <1>7, <1>10, <2>1, <2>2, <2>3
<1>11. CASE r.at.view = "row"
  <2>1. /\ Verdict(r) \in Verdicts \ {Crash}
        /\ Verdict(r) = Granted <=> /\ SignedIn(r) \/ Sees(r, "view") \/ AnyStaff(r)
                                    /\ TemplateCan(r) \/ AnyStaff(r)
    BY <1>1, <1>11, VerdictsOfRow DEF Verdict, RowCan
  <2> QED
    BY <1>2, <1>3, <1>4, <1>5, <1>6, <1>7, <1>11, <2>1
<1> QED
  BY <1>1, <1>8, <1>9, <1>10, <1>11

LEMMA PromisedOnNothing ==
  ASSUME Typed, NEW r, Asks(r), r.at \in OnNothing, r.obj = None, r.of = None
  PROVE  /\ Verdict(r) \in Verdicts \ {Crash}
         /\ Verdict(r) = Granted <=> MayDo(r)
<1>1. r.at \in Endpoints /\ Asking(r) /\ (AnyStaff(r) => SignedIn(r))
  BY AsksIs DEF OnNothing, Endpoints, BudgetEndpoints
<1>2. /\ r.at.view = "budget" /\ r.at.action \in {"list", "create"}
      /\ r.at = At("budget", "list") <=> r.at.action = "list"
      /\ r.at = Create <=> r.at.action = "create"
      /\ r.at # Duplicate
  BY <1>1, EndpointIs
<1>3. r.obj \notin Budget \cup Template /\ r.of # r.who /\ RoleOf(r) = None
  BY AccessAssumption DEF RoleOf, Asks
<1>4. /\ Verdict(r) \in Verdicts \ {Crash}
      /\ Verdict(r) = Granted <=> BudgetViewCan(r) \/ AnyStaff(r)
  BY <1>1, <1>2, VerdictsOfBudget DEF Verdict
<1>5. BudgetViewCan(r) <=>
        /\ SignedIn(r)
        /\ r.at.action = "create" => HasProduct(r.who) \/ Owned(r.who) = {}
  BY <1>2 DEF BudgetViewCan, Elsewhere, NewCan
<1>6. ~ (LinkHolds(r) /\ r.held = r.obj)
  BY <1>3 DEF LinkHolds
<1>7. None \notin Roles
  BY AccessAssumption
<1>8. /\ ~ OwnerMay(r) /\ ~ TemplateMay(r) /\ ~ CollaboratorMay(r)
  BY <1>3, <1>7 DEF OwnerMay, TemplateMay, CollaboratorMay, Roles
<1>9. MayDo(r) <=>
        \/ AnyStaff(r)
        \/ r.at.action = "list" /\ SignedIn(r)
        \/ /\ r.at.action = "create" /\ SignedIn(r)
           /\ HasProduct(r.who) \/ Owned(r.who) = {}
  BY <1>2, <1>3, <1>6, <1>8 DEF MayDo, AnyStaff
<1> QED
  BY <1>2, <1>4, <1>5, <1>9

LEMMA Promised ==
  ASSUME Typed, NEW r \in Requests, ~ Misbehaves(r)
  PROVE  Verdict(r) = IF MayDo(r) THEN Granted ELSE Denied
<1>1. Asks(r)
  BY RequestsAsk
<1>2. /\ Verdict(r) \in Verdicts \ {Crash}
      /\ Verdict(r) = Granted <=> MayDo(r)
  <2>1. CASE r.at \in OnNothing /\ r.obj = None /\ r.of = None
    BY <1>1, <2>1, PromisedOnNothing
  <2>2. CASE OnTemplate(r)
    BY <1>1, <2>2, PromisedOnTemplate
  <2>3. CASE OnBudget(r)
    <3>1. r.at.view = "collaborator" => SignedIn(r)
      BY DEF Misbehaves
    <3>2. r.at.view \in {"budget", "row", "collaborator", "link"} \cup BelowBudget
      BY <2>3, EndpointIs DEF OnBudget, BelowBudget
    <3> QED
      BY <1>1, <2>3, <3>1, <3>2, PromisedOnBudget, PromisedOnRow, PromisedBelowBudget,
         PromisedOnCollaborator, PromisedOnLink
  <2> QED
    BY <1>1, <2>1, <2>2, <2>3 DEF Asks
<1> QED
  BY <1>2 DEF Verdicts, Granted, Denied, Crash

-------------------------------------------------------------------------------
(* The order of creation. *)

(* before orders the budgets of B, and every set of them has a first one.    *)
Ordered(B) ==
  /\ before \subseteq B \X B
  /\ \A b, c : <<b, c>> \in before => <<c, b>> \notin before
  /\ \A S \in SUBSET B : S # {} => \E b \in S : \A c \in S \ {b} : <<b, c>> \in before

LEMMA OrderedAdd ==
  ASSUME NEW B, NEW b, Ordered(B), b \notin B, before' = before \cup (B \X {b}),
         NEW C, C = B \cup {b}
  PROVE  Ordered(C)'
<1>1. before' \subseteq C \X C
  BY DEF Ordered
<1>2. ASSUME NEW c, NEW d, <<c, d>> \in before', <<d, c>> \in before' PROVE FALSE
  <2>1. \A p \in before : p[1] \in B /\ p[2] \in B
    BY DEF Ordered
  <2>2. \A p \in before' : p[1] \in B /\ p[2] \in C
    BY <2>1
  <2>3. c \in B /\ d \in B
    BY <1>2, <2>2
  <2>4. <<c, d>> \in before /\ <<d, c>> \in before
    BY <1>2, <2>3
  <2> QED
    BY <2>4 DEF Ordered
<1>3. ASSUME NEW S \in SUBSET C, S # {}
      PROVE  \E c \in S : \A d \in S \ {c} : <<c, d>> \in before'
  <2>1. CASE S \ {b} = {}
    BY <1>3, <2>1
  <2>2. CASE S \ {b} # {}
    <3>1. S \ {b} \in SUBSET B
      OBVIOUS
    <3>2. PICK c \in S \ {b} : \A d \in (S \ {b}) \ {c} : <<c, d>> \in before
      BY <2>2, <3>1 DEF Ordered
    <3>3. c \in B
      BY <3>1
    <3>4. \A d \in S \ {c} : <<c, d>> \in before'
      BY <3>2, <3>3
    <3> QED
      BY <3>2, <3>4
  <2> QED
    BY <2>1, <2>2
<1> QED
  BY <1>1, <1>2, <1>3 DEF Ordered

LEMMA OrderedDrop ==
  ASSUME NEW B, Ordered(B), NEW C \in SUBSET B, before' = before \cap (C \X C)
  PROVE  /\ before' \subseteq C \X C
         /\ \A c, d : <<c, d>> \in before' => <<d, c>> \notin before'
         /\ \A S \in SUBSET C :
              S # {} => \E c \in S : \A d \in S \ {c} : <<c, d>> \in before'
<1>1. before' \subseteq C \X C
  OBVIOUS
<1>2. \A c, d : <<c, d>> \in before' => <<d, c>> \notin before'
  BY DEF Ordered
<1>3. ASSUME NEW S \in SUBSET C, S # {}
      PROVE  \E c \in S : \A d \in S \ {c} : <<c, d>> \in before'
  <2>1. PICK c \in S : \A d \in S \ {c} : <<c, d>> \in before
    BY <1>3 DEF Ordered
  <2>2. \A d \in S \ {c} : <<c, d>> \in before'
    BY <2>1
  <2> QED
    BY <2>2
<1> QED
  BY <1>1, <1>2, <1>3

(* The first of a set that is not empty is the one before all others.        *)
LEMMA FirstIs ==
  ASSUME NEW B, Ordered(B), NEW u, Owned(u) \subseteq B, NEW b \in Owned(u)
  PROVE  /\ FirstCreated(u) \in Owned(u)
         /\ \A c \in Owned(u) \ {FirstCreated(u)} : <<FirstCreated(u), c>> \in before
         /\ FirstCreated(u) = b <=> \A c \in Owned(u) \ {b} : <<b, c>> \in before
<1> DEFINE S == Owned(u)
           f == CHOOSE x \in S : \A c \in S \ {x} : <<x, c>> \in before
<1>1. \E x \in S : \A c \in S \ {x} : <<x, c>> \in before
  <2>1. S \in SUBSET B /\ S # {}
    OBVIOUS
  <2> HIDE DEF S
  <2> QED
    BY <2>1 DEF Ordered
<1>2. f \in S /\ \A c \in S \ {f} : <<f, c>> \in before
  <2> HIDE DEF S
  <2> QED
    BY <1>1
<1>3. FirstCreated(u) = f
  BY DEF FirstCreated
<1> HIDE DEF f
<1>4. ASSUME \A c \in S \ {b} : <<b, c>> \in before PROVE f = b
  <2> SUFFICES ASSUME f # b PROVE FALSE
    OBVIOUS
  <2>1. <<f, b>> \in before /\ <<b, f>> \in before
    BY <1>2, <1>4
  <2> QED
    BY <2>1 DEF Ordered
<1> QED
  BY <1>2, <1>3, <1>4

-------------------------------------------------------------------------------
(* What a request writes. *)

Linking == {Share, ChangeLink, RemoveLink}
Collaborating == {AddCollaborator, ChangeCollaborator, RemoveCollaborator}
Writing == {Create, Duplicate, Patch, Destroy} \cup Linking \cup Collaborating

(* The endpoints that write differ in their view and action. *)
LEMMA AtsDiffer ==
  /\ Create \notin {Duplicate, Patch, Destroy} \cup Linking \cup Collaborating
  /\ Duplicate \notin {Patch, Destroy} \cup Linking \cup Collaborating
  /\ Patch \notin {Destroy} \cup Linking \cup Collaborating
  /\ Destroy \notin Linking \cup Collaborating
  /\ Share \notin {ChangeLink, RemoveLink} \cup Collaborating
  /\ ChangeLink \notin {RemoveLink} \cup Collaborating
  /\ RemoveLink \notin Collaborating
  /\ AddCollaborator \notin {ChangeCollaborator, RemoveCollaborator}
  /\ ChangeCollaborator # RemoveCollaborator
BY DEF At, Create, Duplicate, Patch, Destroy, Share, AddCollaborator, ChangeCollaborator,
       RemoveCollaborator, ChangeLink, RemoveLink, Linking, Collaborating

LEMMA LinkIs ==
  ASSUME NEW u \in User
  PROVE  [by |-> u, live |-> TRUE] \in Links
BY Zenon DEF Links

LEMMA WriteDoes ==
  ASSUME NEW r, r.at \in Writing, r.who \in User, NEW gone, NEW violator,
         Write(r, gone, violator)
  PROVE  \/ Nothing /\ (r.at = Patch => ~ gone)
         \/ r.at \in {Create, Duplicate} /\ NewBudget(r.who)
         \/ /\ r.at = Patch /\ gone /\ owner' = [owner EXCEPT ![r.obj] = r.of]
            /\ UNCHANGED <<before, collab, link>>
         \/ r.at = Destroy /\ DestroyBudget(r.obj)
         \/ r.at \in Linking /\ \E l \in Links \cup {None} : SetLink(r.obj, l)
         \/ /\ r.at = AddCollaborator /\ owner[r.obj] # None
            /\ \E t \in Roles : SetRole(r.obj, r.user, t)
         \/ r.at = ChangeCollaborator /\ \E t \in Roles : SetRole(r.obj, r.user, t)
         \/ r.at = RemoveCollaborator /\ SetRole(r.obj, r.user, None)
<1>1. ShareBudget(r, gone, violator) => Nothing \/ \E l \in Links \cup {None} : SetLink(r.obj, l)
  BY LinkIs DEF ShareBudget
<1>2. UpdateLink(r, gone) => Nothing \/ \E l \in Links \cup {None} : SetLink(r.obj, l)
  BY LinkIs DEF UpdateLink
<1>3. Patch \notin {Destroy, AddCollaborator, ChangeCollaborator, RemoveCollaborator} \cup Linking
  BY AtsDiffer DEF Collaborating
<1> QED
  BY <1>1, <1>2, <1>3 DEF Write, Linking

-------------------------------------------------------------------------------
(* Nobody collaborates on a budget of his own. *)

Data ==
  /\ owner \in [Budget -> User \cup {None}]
  /\ collab \in [Budget -> [User -> Roles \cup {None}]]
  /\ link \in [Budget -> Links \cup {None}]
  /\ \A b \in Budget : owner[b] # None => collab[b][owner[b]] = None

(* What a request that writes knows of its budget: whose it was, and that    *)
(* the collaborator it is about is not its owner.                            *)
Sought(r) ==
  /\ r.at \in Writing /\ r.who \in User
  /\ r.held = None /\ r.everywhere \in BOOLEAN
  /\ r.at # Create => /\ r.obj \in Budget /\ r.of \in User \cup {None}
                      /\ owner[r.obj] \in {r.of, None}
  /\ r.at \in {Duplicate, Patch, Destroy} => r.of # None
  /\ r.at \in Collaborating => r.user \in User
  /\ r.at \in {ChangeCollaborator, RemoveCollaborator} => r.user # r.of

Empty(b) == owner[b] = None /\ \A v \in User : collab[b][v] = None

LEMMA WriteData ==
  ASSUME Data, NEW r, Sought(r), NEW gone, NEW violator, Write(r, gone, violator),
         r.at = Patch /\ gone => Empty(r.obj),
         r.at = AddCollaborator => r.user # r.of
  PROVE  Data'
<1>1. CASE Nothing
  BY <1>1 DEF Nothing, Data
<1>2. ASSUME r.at # Create PROVE r.obj \in Budget /\ owner[r.obj] \in {r.of, None}
  BY <1>2 DEF Sought
<1>3. CASE NewBudget(r.who)
  <2>1. PICK b \in Budget :
           /\ \A v \in User : collab[b][v] = None
           /\ owner' = [owner EXCEPT ![b] = r.who] /\ UNCHANGED <<collab, link>>
    BY <1>3 DEF NewBudget
  <2>2. r.who \in User
    BY DEF Sought
  <2> QED
    BY <2>1, <2>2 DEF Data
<1>4. CASE /\ r.at = Patch /\ gone /\ owner' = [owner EXCEPT ![r.obj] = r.of]
           /\ UNCHANGED <<before, collab, link>>
  <2>1. Empty(r.obj) /\ r.obj \in Budget /\ r.of \in User
    BY <1>4, AtsDiffer DEF Sought
  <2> QED
    BY <1>4, <2>1 DEF Data, Empty
<1>5. CASE r.at = Destroy /\ DestroyBudget(r.obj)
  <2>1. r.obj \in Budget
    BY <1>2, <1>5, AtsDiffer
  <2>2. /\ owner' = [owner EXCEPT ![r.obj] = None]
        /\ collab' = [collab EXCEPT ![r.obj] = [u \in User |-> None]]
        /\ link' = [link EXCEPT ![r.obj] = None]
    BY <1>5 DEF DestroyBudget
  <2>3. collab' \in [Budget -> [User -> Roles \cup {None}]]
    <3>1. [u \in User |-> None] \in [User -> Roles \cup {None}]
      OBVIOUS
    <3> QED
      BY <2>2, <3>1 DEF Data
  <2>4. ASSUME NEW b \in Budget, owner'[b] # None PROVE collab'[b][owner'[b]] = None
    BY <2>1, <2>2, <2>4 DEF Data
  <2> QED
    BY <2>1, <2>2, <2>3, <2>4 DEF Data
<1>6. CASE \E l \in Links \cup {None} : SetLink(r.obj, l)
  BY <1>6 DEF SetLink, Data
<1>7. ASSUME r.at \in Collaborating, NEW t \in Roles \cup {None}, SetRole(r.obj, r.user, t),
             t # None => r.user # r.of
      PROVE  Data'
  <2>1. r.obj \in Budget /\ r.user \in User /\ owner[r.obj] \in {r.of, None}
    BY <1>2, <1>7, AtsDiffer DEF Sought
  <2>2. collab' = [collab EXCEPT ![r.obj][r.user] = t] /\ UNCHANGED <<owner, link>>
    BY <1>7 DEF SetRole
  <2>3. collab' \in [Budget -> [User -> Roles \cup {None}]]
    BY <2>1, <2>2 DEF Data
  <2>4. ASSUME NEW b \in Budget, owner[b] # None PROVE collab'[b][owner[b]] = None
    <3>1. collab[b][owner[b]] = None /\ owner[b] \in User
      BY <2>4 DEF Data
    <3>2. CASE b = r.obj /\ owner[b] = r.user
      BY <1>7, <2>1, <2>2, <2>4, <3>2 DEF Data
    <3>3. CASE ~ (b = r.obj /\ owner[b] = r.user)
      BY <2>1, <2>2, <3>1, <3>3 DEF Data
    <3> QED
      BY <3>2, <3>3
  <2> QED
    BY <2>2, <2>3, <2>4 DEF Data
<1>8. r.at = ChangeCollaborator => r.user # r.of
  BY DEF Sought
<1>9. CASE r.at = AddCollaborator /\ \E t \in Roles : SetRole(r.obj, r.user, t)
  BY <1>7, <1>9 DEF Collaborating
<1>10. CASE r.at = ChangeCollaborator /\ \E t \in Roles : SetRole(r.obj, r.user, t)
  BY <1>7, <1>8, <1>10 DEF Collaborating
<1>11. CASE r.at = RemoveCollaborator /\ SetRole(r.obj, r.user, None)
  BY <1>7, <1>11 DEF Collaborating
<1>12. r.at \in Writing /\ r.who \in User
  BY DEF Sought
<1> QED
  BY <1>1, <1>3, <1>4, <1>5, <1>6, <1>9, <1>10, <1>11, <1>12, WriteDoes

(* What is known of the request between its checks and its writes. *)
PendingOf(q) == [r : {q}, gone : BOOLEAN, violator : BOOLEAN, stage : {"found", "granted"}]

PendingInv ==
  pending # Idle =>
    /\ pending \in PendingOf(pending.r)
    /\ Sought(pending.r)
    /\ pending.r.at = AddCollaborator /\ pending.stage = "granted" =>
         pending.r.user # pending.r.of
    /\ pending.r.at = Patch => IF pending.gone THEN Empty(pending.r.obj)
                               ELSE owner[pending.r.obj] # None
    /\ pending.stage = "found" => pending.r.at # Create

Remembered == {b \in Budget : owner[b] # None \/ MayReturn(b)}

AccessInv ==
  /\ Data /\ product \in [User -> BOOLEAN]
  /\ PendingInv /\ Ordered(Remembered)

(* Of a pending request's budget, only its own save brings one back.         *)
LEMMA SoughtStays ==
  ASSUME Data, NEW q, Sought(q),
         q.at # Create => owner'[q.obj] \in {owner[q.obj], None}
  PROVE  Sought(q)'
BY DEF Sought

(* The order of the budgets that exist, or may return, through a write.      *)
Exist == {b \in Budget : owner[b] # None}

LEMMA OrderNew ==
  ASSUME Data, Ordered(Remembered), NEW u \in User, NewBudget(u),
         \A b \in Budget : MayReturn(b)' => MayReturn(b),
         \A b \in Budget : MayReturn(b) => MayReturn(b)' \/ owner[b] # None
  PROVE  Ordered(Remembered)'
<1>1. PICK b \in Budget :
         /\ owner[b] = None
         /\ pending # Idle => pending.r.obj # b
         /\ owner' = [owner EXCEPT ![b] = u]
         /\ before' = before \cup ({c \in Budget : owner[c] # None \/ MayReturn(c)} \X {b})
  BY DEF NewBudget
<1>2. before' = before \cup (Remembered \X {b})
  BY <1>1 DEF Remembered
<1>3. b \notin Remembered
  BY <1>1 DEF Remembered, MayReturn
<1>4. Remembered' = Remembered \cup {b}
  <2>1. u # None
    BY AccessAssumption
  <2>2. \A c \in Budget : owner'[c] = IF c = b THEN u ELSE owner[c]
    BY <1>1 DEF Data
  <2> QED
    BY <1>1, <1>3, <2>1, <2>2 DEF Remembered
<1>5. PICK C : C = Remembered \cup {b}
  OBVIOUS
<1>6. PICK B : B = Remembered
  OBVIOUS
<1>7. Ordered(B)
  BY <1>6
<1>8. before' = before \cup (B \X {b}) /\ b \notin B /\ C = B \cup {b}
  BY <1>2, <1>3, <1>5, <1>6
<1>9. Ordered(C)'
  BY <1>7, <1>8, OrderedAdd
<1> QED
  BY <1>4, <1>5, <1>9 DEF Ordered

LEMMA OrderDestroyed ==
  ASSUME Data, Ordered(Remembered), NEW d \in Budget, DestroyBudget(d),
         \A b \in Budget : MayReturn(b)' => MayReturn(b),
         \A b \in Budget : MayReturn(b) => MayReturn(b)' \/ (b # d /\ owner[b] # None)
  PROVE  Ordered(Remembered)'
<1>1. /\ owner' = [owner EXCEPT ![d] = None]
      /\ before' = {p \in before : MayReturn(d) \/ d \notin {p[1], p[2]}}
  BY DEF DestroyBudget
<1>2. \A c \in Budget : owner'[c] = IF c = d THEN None ELSE owner[c]
  BY <1>1 DEF Data
<1>3. before \subseteq Remembered \X Remembered
  BY DEF Ordered
<1>4. CASE MayReturn(d)
  <2>1. before' = before
    BY <1>1, <1>4
  <2>2. Remembered' = Remembered
    BY <1>2, <1>4 DEF Remembered
  <2> QED
    BY <2>1, <2>2 DEF Ordered
<1>5. CASE ~ MayReturn(d)
  <2>1. Remembered' = Remembered \ {d}
    BY <1>2, <1>5 DEF Remembered
  <2>2. before' = before \cap (Remembered' \X Remembered')
    BY <1>1, <1>3, <1>5, <2>1
  <2>3. Remembered' \in SUBSET Remembered
    BY <2>1
  <2> QED
    BY <2>2, <2>3, OrderedDrop DEF Ordered
<1> QED
  BY <1>4, <1>5

LEMMA OrderSame ==
  ASSUME Ordered(Remembered), before' = before, Remembered' = Remembered
  PROVE  Ordered(Remembered)'
BY DEF Ordered

LEMMA OrderCommit ==
  ASSUME Data, PendingInv, Ordered(Remembered), Commit
  PROVE  Ordered(Remembered)'
<1> DEFINE r == pending.r
<1>1. /\ pending # Idle /\ pending' = Idle
      /\ Write(r, pending.gone, pending.violator)
  BY DEF Commit, Finish, Idle
<1>2. /\ Sought(r)
      /\ r.at = Patch => IF pending.gone THEN Empty(r.obj) ELSE owner[r.obj] # None
  BY <1>1 DEF PendingInv
<1>3. \A b \in Budget : ~ MayReturn(b)'
  BY <1>1 DEF MayReturn
<1>4. r.at \in Writing /\ r.who \in User
  BY <1>2 DEF Sought
<1>5. \A b \in Budget : MayReturn(b) <=> r.at = Patch /\ r.obj = b
  BY <1>1 DEF MayReturn
<1> HIDE DEF r
<1>6. ASSUME owner' = owner, before' = before, r.at = Patch => ~ pending.gone
      PROVE  Ordered(Remembered)'
  <2>1. Remembered' = Remembered
    BY <1>2, <1>3, <1>5, <1>6 DEF Remembered
  <2> QED
    BY <1>6, <2>1, OrderSame
<1>7. CASE Nothing /\ (r.at = Patch => ~ pending.gone)
  BY <1>6, <1>7 DEF Nothing
<1>8. CASE r.at \in {Create, Duplicate} /\ NewBudget(r.who)
  BY <1>3, <1>4, <1>5, <1>8, AtsDiffer, OrderNew
<1>9. CASE r.at = Patch /\ pending.gone /\ owner' = [owner EXCEPT ![r.obj] = r.of]
           /\ UNCHANGED <<before, collab, link>>
  <2>1. r.obj \in Budget /\ r.of # None
    BY <1>2, <1>9, AtsDiffer DEF Sought
  <2>2. \A b \in Budget : owner'[b] = IF b = r.obj THEN r.of ELSE owner[b]
    BY <1>9 DEF Data
  <2>3. Remembered' = Remembered
    BY <1>3, <1>5, <1>9, <2>1, <2>2 DEF Remembered
  <2> QED
    BY <1>9, <2>3, OrderSame
<1>10. CASE r.at = Destroy /\ DestroyBudget(r.obj)
  <2>1. r.obj \in Budget
    BY <1>2, <1>10, AtsDiffer DEF Sought
  <2> QED
    BY <1>3, <1>5, <1>10, <2>1, AtsDiffer, OrderDestroyed
<1>11. CASE r.at \in Linking /\ \E l \in Links \cup {None} : SetLink(r.obj, l)
  BY <1>6, <1>11, AtsDiffer DEF SetLink
<1>12. CASE r.at \in Collaborating /\ \E t \in Roles \cup {None} : SetRole(r.obj, r.user, t)
  BY <1>6, <1>12, AtsDiffer DEF SetRole
<1> QED
  BY <1>1, <1>4, <1>7, <1>8, <1>9, <1>10, <1>11, <1>12, WriteDoes DEF Collaborating

LEMMA OrderWhole ==
  ASSUME Data, Ordered(Remembered), NEW r, Sought(r), NEW violator,
         Write(r, FALSE, violator), \A b \in Budget : MayReturn(b)' <=> MayReturn(b)
  PROVE  Ordered(Remembered)'
<1>1. r.at \in Writing /\ r.who \in User
  BY DEF Sought
<1>2. ASSUME owner' = owner, before' = before PROVE Ordered(Remembered)'
  <2>1. Remembered' = Remembered
    BY <1>2 DEF Remembered
  <2> QED
    BY <1>2, <2>1, OrderSame
<1>3. CASE r.at \in {Create, Duplicate} /\ NewBudget(r.who)
  BY <1>1, <1>3, OrderNew
<1>4. CASE r.at = Destroy /\ DestroyBudget(r.obj)
  <2>1. r.obj \in Budget
    BY <1>4, AtsDiffer DEF Sought
  <2> QED
    BY <1>4, <2>1, OrderDestroyed
<1>5. CASE Nothing
  BY <1>2, <1>5 DEF Nothing
<1>6. CASE \E l \in Links \cup {None} : SetLink(r.obj, l)
  BY <1>2, <1>6 DEF SetLink
<1>7. CASE \E t \in Roles \cup {None} : SetRole(r.obj, r.user, t)
  BY <1>2, <1>7 DEF SetRole
<1> QED
  BY <1>1, <1>3, <1>4, <1>5, <1>6, <1>7, WriteDoes

LEMMA ReqIs ==
  ASSUME NEW e, NEW u, NEW b, NEW v
  PROVE  LET r == Req(e, u, b, v) IN
         /\ r.at = e /\ r.who = u /\ r.obj = b /\ r.user = v /\ r.held = None
         /\ ~ r.everywhere /\ r.everywhere \in BOOLEAN
         /\ b = None => r.of = None
         /\ b \in Budget => r.of = owner[b]
<1> DEFINE no == FALSE
           of == IF b = None THEN None ELSE OwnerOf(b)
           r == Req(e, u, b, v)
<1>1. r = [at |-> e, who |-> u, obj |-> b, of |-> of, user |-> v, held |-> None,
           everywhere |-> no]
  BY DEF Req
<1>2. /\ r.at = e /\ r.who = u /\ r.obj = b /\ r.user = v /\ r.held = None /\ r.of = of
      /\ r.everywhere = no
  <2> HIDE DEF no, of, r
  <2> QED
    BY <1>1
<1>3. b \in Budget => b # None /\ b \notin Template
  BY AccessAssumption
<1>4. (b = None => of = None) /\ (b \in Budget => of = owner[b])
  BY <1>3 DEF OwnerOf
<1>5. no \in BOOLEAN
  OBVIOUS
<1> QED
  BY <1>2, <1>4, <1>5

(* A request that is made knows whose its budget is. *)
LEMMA WritesAre ==
  ASSUME NEW r \in Writes
  PROVE  /\ r.at \in Writing /\ r.who \in User /\ r.held = None /\ r.everywhere \in BOOLEAN
         /\ r.at = Create => r.obj = None
         /\ r.at # Create => r.obj \in Budget /\ r.of = owner[r.obj]
         /\ r.at \in Collaborating => r.user \in User
<1>1. PICK e, u, b, v :
         /\ r = Req(e, u, b, v) /\ e \in Writing /\ u \in User
         /\ e = Create => b = None
         /\ e # Create => b \in Budget
         /\ e \in Collaborating => v \in User
  <2>1. CASE r \in {Req(Create, u, None, None) : u \in User}
    BY <2>1, AtsDiffer DEF Writing
  <2>2. CASE r \in {Req(e, u, b, None) : e \in {Duplicate, Patch, Destroy}, u \in User,
                                         b \in Budget}
    BY <2>2, AtsDiffer DEF Writing
  <2>3. CASE r \in {Req(e, u, b, None) : e \in {Share, ChangeLink, RemoveLink}, u \in User,
                                         b \in Shared}
    BY <2>3, AtsDiffer, AccessAssumption DEF Writing, Linking
  <2>4. CASE r \in {Req(e, u, b, v) : e \in {AddCollaborator, ChangeCollaborator,
                                             RemoveCollaborator},
                                      u, v \in User, b \in Shared}
    BY <2>4, AtsDiffer, AccessAssumption DEF Writing, Collaborating
  <2> QED
    BY <2>1, <2>2, <2>3, <2>4 DEF Writes
<1> QED
  BY <1>1, ReqIs

LEMMA FoundIsSought ==
  ASSUME Data, NEW r \in Writes, Findable(r)
  PROVE  Sought(r) /\ (r.at = Patch => owner[r.obj] # None)
<1>1. /\ r.at \in Writing /\ r.who \in User
      /\ r.held = None /\ r.everywhere \in BOOLEAN
      /\ r.at # Create => r.obj \in Budget /\ r.of = owner[r.obj]
      /\ r.at \in Collaborating => r.user \in User
  BY WritesAre
<1>2. r.at \in {Duplicate, Patch, Destroy} => owner[r.obj] # None
  <2> SUFFICES ASSUME r.at \in {Duplicate, Patch, Destroy} PROVE owner[r.obj] # None
    OBVIOUS
  <2>1. r.at \notin {Create, Share} \cup Collaborating \cup Linking
    BY AtsDiffer DEF Linking
  <2>2. r.obj \in Budget /\ r.obj # None
    BY <1>1, <2>1, AccessAssumption
  <2>3. RowOf(r) = owner[r.obj]
    BY <2>1, <2>2 DEF RowOf, Linking, Collaborating
  <2> QED
    BY <2>1, <2>3 DEF Findable
<1>3. r.at \in {ChangeCollaborator, RemoveCollaborator} => r.user # r.of
  <2> SUFFICES ASSUME r.at \in {ChangeCollaborator, RemoveCollaborator} PROVE r.user # r.of
    OBVIOUS
  <2>1. r.at \in Collaborating /\ r.at \notin {Create, Share}
    BY AtsDiffer DEF Collaborating
  <2>2. collab[r.obj][r.user] # None
    BY <2>1 DEF Findable, RowOf
  <2>3. r.obj \in Budget /\ r.user \in User /\ r.of = owner[r.obj]
    BY <1>1, <2>1
  <2>4. owner[r.obj] # None => collab[r.obj][owner[r.obj]] = None
    BY <2>3 DEF Data
  <2>5. r.user # None
    BY <2>3, AccessAssumption
  <2> QED
    BY <2>2, <2>3, <2>4, <2>5
<1>4. r.at # Create => owner[r.obj] \in User \cup {None}
  BY <1>1 DEF Data
<1> QED
  BY <1>1, <1>2, <1>3, <1>4, AtsDiffer DEF Sought

(* What a request that runs whole does to the budget of the pending one.     *)
LEMMA WholeBeside ==
  ASSUME Data, NEW r, Sought(r), NEW violator, Write(r, FALSE, violator),
         pending # Idle, NEW q, q = pending.r, q.obj \in Budget,
         r.at = ChangeCollaborator => collab[r.obj][r.user] # None
  PROVE  /\ owner'[q.obj] \in {owner[q.obj], None}
         /\ Empty(q.obj) => Empty(q.obj)'
         /\ owner[q.obj] # None /\ owner'[q.obj] = None => Empty(q.obj)'
<1> DEFINE b == q.obj
<1>1. r.at \in Writing /\ r.who \in User /\ (r.at # Create => r.obj \in Budget)
  BY DEF Sought
<1>2. CASE NewBudget(r.who)
  <2>1. PICK d \in Budget : d # b /\ owner' = [owner EXCEPT ![d] = r.who] /\ collab' = collab
    BY <1>2 DEF NewBudget
  <2>2. owner'[b] = owner[b]
    BY <2>1 DEF Data
  <2> QED
    BY <2>1, <2>2 DEF Empty
<1>3. CASE r.at = Destroy /\ DestroyBudget(r.obj)
  <2>1. r.obj \in Budget
    BY <1>1, <1>3, AtsDiffer
  <2>2. /\ owner' = [owner EXCEPT ![r.obj] = None]
        /\ collab' = [collab EXCEPT ![r.obj] = [u \in User |-> None]]
    BY <1>3 DEF DestroyBudget
  <2>3. CASE r.obj = b
    <3>1. owner'[b] = None /\ collab'[b] = [u \in User |-> None]
      BY <2>1, <2>2, <2>3 DEF Data
    <3> QED
      BY <3>1 DEF Empty
  <2>4. CASE r.obj # b
    <3>1. owner'[b] = owner[b] /\ collab'[b] = collab[b]
      BY <2>1, <2>2, <2>4 DEF Data
    <3> QED
      BY <3>1 DEF Empty
  <2> QED
    BY <2>3, <2>4
<1>4. ASSUME owner' = owner, collab' = collab
      PROVE  /\ owner'[b] \in {owner[b], None}
             /\ Empty(b) => Empty(b)'
             /\ owner[b] # None /\ owner'[b] = None => Empty(b)'
  BY <1>4 DEF Empty
<1>5. CASE Nothing
  BY <1>4, <1>5 DEF Nothing
<1>6. CASE \E l \in Links \cup {None} : SetLink(r.obj, l)
  BY <1>4, <1>6 DEF SetLink
<1>7. ASSUME r.at \in Collaborating, NEW t \in Roles \cup {None}, SetRole(r.obj, r.user, t),
             r.obj # b \/ ~ Empty(b) \/ t = None
      PROVE  /\ owner'[b] \in {owner[b], None}
             /\ Empty(b) => Empty(b)'
             /\ owner[b] # None /\ owner'[b] = None => Empty(b)'
  <2>1. /\ collab' = [collab EXCEPT ![r.obj][r.user] = t] /\ owner' = owner
        /\ r.obj \in Budget /\ r.user \in User
    BY <1>1, <1>7, AtsDiffer DEF SetRole, Sought
  <2>2. Empty(b) => Empty(b)'
    <3> SUFFICES ASSUME Empty(b), NEW v \in User PROVE collab'[b][v] = None
      BY <2>1 DEF Empty
    <3>1. collab[b][v] = None
      BY DEF Empty
    <3> QED
      BY <1>7, <2>1, <3>1 DEF Data
  <2> QED
    BY <2>1, <2>2
<1>8. CASE /\ r.at = AddCollaborator /\ owner[r.obj] # None
           /\ \E t \in Roles : SetRole(r.obj, r.user, t)
  BY <1>7, <1>8 DEF Collaborating, Empty
<1>9. CASE r.at = ChangeCollaborator /\ \E t \in Roles : SetRole(r.obj, r.user, t)
  <2>1. r.user \in User
    BY <1>9 DEF Sought, Collaborating
  <2>2. r.obj # b \/ ~ Empty(b)
    BY <1>9, <2>1 DEF Empty
  <2> QED
    BY <1>7, <1>9, <2>2 DEF Collaborating
<1>10. CASE r.at = RemoveCollaborator /\ SetRole(r.obj, r.user, None)
  BY <1>7, <1>10 DEF Collaborating
<1> HIDE DEF b
<1> QED
  BY <1>1, <1>2, <1>3, <1>5, <1>6, <1>8, <1>9, <1>10, WriteDoes DEF b

LEMMA AccessInit == Init => AccessInv
<1> SUFFICES ASSUME Init PROVE AccessInv
  OBVIOUS
<1>1. Data
  BY DEF Init, Data
<1>2. PendingInv /\ Remembered = {} /\ before = {}
  BY DEF Init, PendingInv, Remembered, MayReturn
<1>3. Ordered(Remembered)
  <2>1. \A S \in SUBSET {} : S = {}
    OBVIOUS
  <2> QED
    BY <1>2, <2>1 DEF Ordered
<1> QED
  BY <1>1, <1>2, <1>3 DEF Init, AccessInv

LEMMA AccessFind ==
  ASSUME AccessInv, NEW r \in Writes, Find(r)
  PROVE  AccessInv'
<1> DEFINE no == FALSE
           stage == IF r.at = Create THEN "granted" ELSE "found"
<1>1. /\ pending = Idle /\ Findable(r)
      /\ pending' = [r |-> r, gone |-> no, violator |-> no, stage |-> stage]
      /\ UNCHANGED <<owner, before, product, collab, link>>
  BY DEF Find
<1>2. no \in BOOLEAN /\ stage \in {"found", "granted"}
  OBVIOUS
<1>3. ~ no
  OBVIOUS
<1> HIDE DEF no
<1>4. /\ pending'.r = r /\ pending'.gone = no /\ pending'.stage = stage
      /\ pending' \in PendingOf(r)
  <2> HIDE DEF stage
  <2> QED
    BY <1>1, <1>2 DEF PendingOf
<1>5. Sought(r) /\ (r.at = Patch => owner[r.obj] # None)
  BY <1>1, FoundIsSought DEF AccessInv
<1>6. Sought(r)'
  BY <1>1, <1>5 DEF Sought
<1>7. PendingInv'
  <2>1. r.at = AddCollaborator => stage = "found"
    BY AtsDiffer DEF Collaborating
  <2>2. stage = "found" => r.at # Create
    OBVIOUS
  <2> HIDE DEF stage
  <2> QED
    BY <1>1, <1>3, <1>4, <1>5, <1>6, <2>1, <2>2 DEF PendingInv
<1>8. Remembered' = Remembered
  BY <1>1, <1>4, <1>5 DEF Remembered, MayReturn
<1>9. Ordered(Remembered)'
  BY <1>1, <1>8, OrderSame DEF AccessInv
<1> QED
  BY <1>1, <1>7, <1>9 DEF AccessInv, Data

LEMMA AccessCheck ==
  ASSUME AccessInv, Check
  PROVE  AccessInv'
<1>0. PICK q : q = pending.r
  OBVIOUS
<1>1. /\ pending # Idle /\ pending.stage = "found" /\ PendingInv /\ Data
      /\ pending \in PendingOf(q)
  BY <1>0 DEF Check, AccessInv, PendingInv, Idle
<1>2. CASE /\ ObjectVerdict(q) = Granted /\ Acceptable(q)
           /\ pending' = [pending EXCEPT !.stage = "granted",
                            !.violator = q.at = Share /\ link[q.obj] # None,
                            !.gone = @ /\ q.at # Share]
           /\ UNCHANGED <<owner, before, product, collab, link>>
  <2> DEFINE v == q.at = Share /\ link[q.obj] # None
             g == pending.gone /\ q.at # Share
  <2>1. v \in BOOLEAN /\ g \in BOOLEAN
    OBVIOUS
  <2>2. pending' = [pending EXCEPT !.stage = "granted", !.violator = v, !.gone = g]
    BY <1>2
  <2>3. q.at # Share => g = pending.gone
    BY <1>1 DEF PendingOf
  <2> HIDE DEF v, g
  <2>4. /\ pending' \in PendingOf(q) /\ pending'.r = q /\ pending'.gone = g
        /\ pending'.stage = "granted"
    BY <1>1, <2>1, <2>2 DEF PendingOf
  <2>5. q.at = AddCollaborator => q.user # q.of
    BY <1>2 DEF Acceptable
  <2>6. Sought(q)'
    BY <1>0, <1>1, <1>2 DEF PendingInv, Sought
  <2>7. q.at = Patch => IF g THEN Empty(q.obj)' ELSE owner'[q.obj] # None
    <3>1. q.at = Patch => q.at # Share
      BY AtsDiffer DEF Linking
    <3>2. q.at = Patch => IF pending.gone THEN Empty(q.obj) ELSE owner[q.obj] # None
      BY <1>0, <1>1 DEF PendingInv
    <3>3. Empty(q.obj) => Empty(q.obj)'
      BY <1>2 DEF Empty
    <3> QED
      BY <1>2, <2>3, <3>1, <3>2, <3>3
  <2>8. PendingInv'
    BY <2>4, <2>5, <2>6, <2>7 DEF PendingInv
  <2>9. pending' # Idle
    BY <2>4 DEF PendingOf, Idle
  <2>10. Remembered' = Remembered
    BY <1>0, <1>1, <1>2, <2>4, <2>9 DEF Remembered, MayReturn
  <2>11. Ordered(Remembered)'
    BY <1>2, <2>10, OrderSame DEF AccessInv
  <2> QED
    BY <1>1, <1>2, <2>8, <2>11 DEF AccessInv, Data
<1>3. CASE /\ Finish /\ UNCHANGED <<owner, collab, link>>
           /\ before' = {p \in before : None \notin {owner[p[1]], owner[p[2]]}}
  <2>1. pending' = Idle /\ product' = product
    BY <1>3 DEF Finish
  <2>2. PendingInv'
    BY <2>1 DEF PendingInv
  <2>3. Remembered' = {b \in Budget : owner[b] # None}
    BY <1>3, <2>1 DEF Remembered, MayReturn
  <2>4. Remembered' \in SUBSET Remembered
    BY <2>3 DEF Remembered
  <2>5. before \subseteq Budget \X Budget
    BY DEF AccessInv, Ordered, Remembered
  <2>6. before' = before \cap (Remembered' \X Remembered')
    BY <1>3, <2>3, <2>5
  <2>7. Ordered(Remembered)'
    BY <2>4, <2>6, OrderedDrop DEF AccessInv, Ordered
  <2> QED
    BY <1>3, <2>1, <2>2, <2>7 DEF AccessInv, Data
<1> QED
  BY <1>0, <1>2, <1>3 DEF Check

LEMMA AccessCommit ==
  ASSUME AccessInv, Commit
  PROVE  AccessInv'
<1>1. /\ pending # Idle /\ pending.stage = "granted" /\ PendingInv /\ Data
      /\ pending' = Idle /\ product' = product
      /\ Write(pending.r, pending.gone, pending.violator)
  BY DEF Commit, Finish, AccessInv, Idle
<1>2. Data'
  BY <1>1, WriteData DEF PendingInv
<1>3. Ordered(Remembered)'
  BY <1>1, OrderCommit DEF AccessInv
<1> QED
  BY <1>1, <1>2, <1>3 DEF AccessInv, PendingInv

LEMMA AccessWhole ==
  ASSUME AccessInv, NEW r \in Writes, Whole(r)
  PROVE  AccessInv'
<1>0. PICK q : q = pending.r
  OBVIOUS
<1> DEFINE now == Overtaken(r)
           violator == r.at = Share /\ link[r.obj] # None
<1>1. /\ Findable(r) /\ Acceptable(r) /\ Write(r, FALSE, violator)
      /\ pending' = IF pending = Idle THEN Idle ELSE [pending EXCEPT !.gone = @ \/ now]
      /\ product' = product
  BY DEF Whole
<1>2. Sought(r) /\ (r.at = AddCollaborator => r.user # r.of) /\ Data /\ PendingInv
  BY <1>1, FoundIsSought, AtsDiffer DEF AccessInv, Acceptable
<1>3. r.at = ChangeCollaborator => collab[r.obj][r.user] # None
  BY <1>1, AtsDiffer DEF Findable, RowOf, Linking, Collaborating
<1> HIDE DEF violator
<1>4. Data'
  BY <1>1, <1>2, WriteData
<1>5. pending # Idle => pending \in PendingOf(q)
  BY <1>0, <1>2 DEF PendingInv
<1>6. pending # Idle => /\ pending' \in PendingOf(q) /\ pending'.r = q
                        /\ pending'.stage = pending.stage
                        /\ pending'.gone <=> pending.gone \/ now
  <2> HIDE DEF now
  <2> QED
    BY <1>1, <1>5 DEF PendingOf
<1>7. pending = Idle <=> pending' = Idle
  <2>1. pending # Idle => pending'.stage # Idle.stage
    BY <1>5, <1>6 DEF PendingOf, Idle
  <2> QED
    BY <1>1, <2>1
<1>8. \A b \in Budget : MayReturn(b)' <=> MayReturn(b)
  BY <1>0, <1>6, <1>7 DEF MayReturn
<1>9. Ordered(Remembered)'
  BY <1>1, <1>2, <1>8, OrderWhole DEF AccessInv
<1>10. PendingInv'
  <2> SUFFICES ASSUME pending # Idle
               PROVE  /\ Sought(q)'
                      /\ q.at = AddCollaborator /\ pending.stage = "granted" => q.user # q.of
                      /\ q.at = Patch => IF pending.gone \/ now THEN Empty(q.obj)'
                                         ELSE owner'[q.obj] # None
                      /\ pending.stage = "found" => q.at # Create
    BY <1>6, <1>7 DEF PendingInv
  <2>1. /\ Sought(q)
        /\ q.at = AddCollaborator /\ pending.stage = "granted" => q.user # q.of
        /\ q.at = Patch => IF pending.gone THEN Empty(q.obj) ELSE owner[q.obj] # None
        /\ pending.stage = "found" => q.at # Create
    BY <1>0, <1>2 DEF PendingInv
  <2>2. q.at # Create =>
          /\ owner'[q.obj] \in {owner[q.obj], None}
          /\ Empty(q.obj) => Empty(q.obj)'
          /\ owner[q.obj] # None /\ owner'[q.obj] = None => Empty(q.obj)'
    <3>1. q.at # Create => q.obj \in Budget
      BY <2>1 DEF Sought
    <3> QED
      BY <1>0, <1>1, <1>2, <1>3, <3>1, WholeBeside
  <2>3. Sought(q)'
    BY <1>2, <2>1, <2>2, SoughtStays
  <2>4. q.at = Patch => (now <=> owner[q.obj] # None /\ owner'[q.obj] = None)
    <3> SUFFICES ASSUME q.at = Patch
                 PROVE  now <=> owner[q.obj] # None /\ owner'[q.obj] = None
      OBVIOUS
    <3>1. q.at \notin {Create, ChangeCollaborator, RemoveCollaborator} \cup Linking
      BY AtsDiffer DEF Collaborating
    <3>2. q.obj # None
      BY <2>1, <3>1, AccessAssumption DEF Sought
    <3>3. RowOf(q) = owner[q.obj] /\ RowOf(q)' = owner'[q.obj]
      BY <3>1, <3>2 DEF RowOf, Linking
    <3> QED
      BY <1>0, <3>1, <3>3 DEF Overtaken, Linking
  <2> HIDE DEF now
  <2> QED
    BY <2>1, <2>2, <2>3, <2>4, AtsDiffer DEF Empty
<1> QED
  BY <1>1, <1>4, <1>9, <1>10 DEF AccessInv

LEMMA AccessStep == AccessInv /\ [Next]_vars => AccessInv'
<1> SUFFICES ASSUME AccessInv, [Next]_vars PROVE AccessInv'
  OBVIOUS
<1>1. ASSUME owner' = owner, before' = before, collab' = collab, pending' = pending,
             link' \in [Budget -> Links \cup {None}], product' \in [User -> BOOLEAN]
      PROVE  AccessInv'
  <2>1. Data'
    BY <1>1 DEF AccessInv, Data
  <2>2. PendingInv' /\ Remembered' = Remembered
    BY <1>1 DEF AccessInv, PendingInv, Sought, Empty, Remembered, MayReturn
  <2>3. Ordered(Remembered)'
    BY <1>1, <2>2, OrderSame DEF AccessInv
  <2> QED
    BY <1>1, <2>1, <2>2, <2>3 DEF AccessInv
<1>2. ASSUME NEW b \in Budget, Expire(b) PROVE AccessInv'
  <2> DEFINE no == FALSE
  <2>1. /\ link[b] \in Links /\ link' = [link EXCEPT ![b].live = no]
        /\ UNCHANGED <<owner, before, product, collab, pending>>
    BY <1>2 DEF Expire, AccessInv, Data
  <2>2. no \in BOOLEAN
    OBVIOUS
  <2> HIDE DEF no
  <2>3. link' \in [Budget -> Links \cup {None}]
    BY <2>1, <2>2 DEF AccessInv, Data, Links
  <2> QED
    BY <1>1, <2>1, <2>3 DEF AccessInv
<1>3. ASSUME NEW u \in User, ChangeProduct(u) PROVE AccessInv'
  <2>1. product' \in [User -> BOOLEAN]
    BY <1>3 DEF ChangeProduct, AccessInv
  <2> QED
    BY <1>1, <1>3, <2>1 DEF ChangeProduct, AccessInv, Data
<1>4. CASE UNCHANGED vars
  BY <1>1, <1>4 DEF vars, AccessInv, Data
<1> QED
  BY <1>2, <1>3, <1>4, AccessFind, AccessCheck, AccessCommit, AccessWhole DEF Next

(* Every variable has its shape, and nobody is ever a collaborator of a      *)
(* budget of his own, though a request adds him that was checked before the  *)
(* budget was deleted, put back, or its collaborators changed by others.     *)
THEOREM TypeCorrect == Spec => []TypeOK
<1>1. AccessInv => TypeOK
  <2> SUFFICES ASSUME AccessInv PROVE TypeOK
    OBVIOUS
  <2>1. pending.stage \in {"idle", "found", "granted"}
    BY DEF AccessInv, PendingInv, PendingOf, Idle
  <2>2. before \subseteq Budget \X Budget
    BY DEF AccessInv, Ordered, Remembered
  <2> QED
    BY <2>1, <2>2 DEF AccessInv, Data, TypeOK
<1> QED
  BY <1>1, AccessInit, AccessStep, PTL DEF Spec

-------------------------------------------------------------------------------
(* The budget that a user without a subscription works in. *)

LEMMA PermTrue ==
  ASSUME NEW ok \in BOOLEAN
  PROVE  Perm(ok) = Perm(TRUE) <=> ok
BY DEF Perm, Says, Granted, Denied

IsFirst(u, b) == b \in Owned(u) /\ \A c \in Owned(u) \ {b} : <<b, c>> \in before
HasFirst ==
  \A u \in User, b \in Budget :
    (\A c, d : <<c, d>> \in before => <<d, c>> \notin before)
    /\ product \in [User -> BOOLEAN] /\ ~ product[u] /\ IsFirst(u, b)
    => WorksIn(u) = {b}

LEMMA FirstNow == HasFirst
<1> SUFFICES ASSUME NEW u \in User, NEW b \in Budget,
                    \A c, d : <<c, d>> \in before => <<d, c>> \notin before,
                    product \in [User -> BOOLEAN], ~ product[u], IsFirst(u, b)
             PROVE  WorksIn(u) = {b}
  BY DEF HasFirst
<1>1. FirstCreated(u) = b
  <2> DEFINE f == CHOOSE x \in Owned(u) : \A c \in Owned(u) \ {x} : <<x, c>> \in before
  <2>1. f \in Owned(u) /\ \A c \in Owned(u) \ {f} : <<f, c>> \in before
    BY DEF IsFirst
  <2>2. FirstCreated(u) = f
    BY DEF FirstCreated
  <2> HIDE DEF f
  <2> QED
    BY <2>1, <2>2 DEF IsFirst
<1>2. ASSUME NEW c \in Owned(u)
      PROVE  ProductPermission(Req(Patch, u, c, None), "object") = Perm(TRUE) <=> c = b
  <2> DEFINE r == Req(Patch, u, c, None)
  <2>1. r.who = u /\ r.obj = c /\ r.of = u
    BY ReqIs DEF Owned
  <2> HIDE DEF r
  <2>2. ~ HasProduct(u) /\ Owned(u) # {}
    BY DEF HasProduct
  <2>3. ProductPermission(r, "object") = Perm(FirstCreated(u) = c)
    BY <2>1, <2>2 DEF ProductPermission
  <2>4. Perm(FirstCreated(u) = c) = Perm(TRUE) <=> FirstCreated(u) = c
    BY PermTrue
  <2> QED
    BY <1>1, <2>3, <2>4 DEF r
<1>3. b \in Owned(u)
  BY DEF IsFirst
<1> QED
  BY <1>2, <1>3 DEF WorksIn

LEMMA FirstThen == HasFirst'
BY FirstNow, PTL

(* As long as his first budget is there, it stays the first: budgets that    *)
(* come later are created after it.                                          *)
LEMMA FirstStays ==
  ASSUME AccessInv, [Next]_vars, ~ (pending # Idle /\ pending.gone),
         NEW u \in User, NEW b \in Owned(u), IsFirst(u, b), b \in Owned(u)'
  PROVE  IsFirst(u, b)'
<1> DEFINE Kept == /\ \A c \in Owned(u)' : c \in Owned(u)
                   /\ \A c \in Budget : <<b, c>> \in before /\ c \in Owned(u)'
                                        => <<b, c>> \in before'
<1>1. Data /\ b \in Budget /\ owner[b] = u /\ owner'[b] = u /\ u # None
  BY AccessAssumption DEF AccessInv, Owned
<1>2. ASSUME Kept PROVE IsFirst(u, b)'
  BY <1>2 DEF IsFirst, Owned
<1>3. CASE owner' = owner /\ before' = before
  BY <1>2, <1>3 DEF Owned
<1>4. ASSUME NEW v \in User, NewBudget(v) PROVE IsFirst(u, b)'
  <2>1. PICK d \in Budget :
           /\ owner' = [owner EXCEPT ![d] = v]
           /\ before' = before \cup {c \in Budget : owner[c] # None \/ MayReturn(c)} \X {d}
    BY <1>4 DEF NewBudget
  <2>2. ASSUME NEW c \in Owned(u)', c # b PROVE <<b, c>> \in before'
    <3>1. CASE c = d
      BY <1>1, <2>1, <3>1
    <3>2. CASE c # d
      BY <1>1, <2>1, <2>2, <3>2 DEF Owned, Data, IsFirst
    <3> QED
      BY <3>1, <3>2
  <2> QED
    BY <2>2 DEF IsFirst
<1>5. ASSUME NEW d \in Budget, DestroyBudget(d) PROVE IsFirst(u, b)'
  <2>1. /\ owner' = [owner EXCEPT ![d] = None]
        /\ before' = {p \in before : MayReturn(d) \/ d \notin {p[1], p[2]}}
    BY <1>5 DEF DestroyBudget
  <2>2. \A c \in Owned(u)' : c # d /\ c \in Owned(u)
    BY <1>1, <2>1 DEF Data, Owned
  <2>3. b # d
    BY <2>2
  <2>4. \A c \in Budget : <<b, c>> \in before /\ c \in Owned(u)' => <<b, c>> \in before'
    BY <2>1, <2>2, <2>3
  <2> QED
    BY <1>2, <2>2, <2>4
<1>6. ASSUME NEW r, Sought(r), NEW gone, NEW violator, Write(r, gone, violator), ~ gone
      PROVE  IsFirst(u, b)'
  <2>1. r.at \in Writing /\ r.who \in User
    BY <1>6 DEF Sought
  <2>2. r.at = Destroy => r.obj \in Budget
    BY <1>6, AtsDiffer DEF Sought
  <2>3. CASE Nothing \/ \E l \in Links \cup {None} : SetLink(r.obj, l)
    BY <1>3, <2>3 DEF Nothing, SetLink
  <2>4. CASE \E t \in Roles \cup {None} : SetRole(r.obj, r.user, t)
    BY <1>3, <2>4 DEF SetRole
  <2> QED
    BY <1>4, <1>5, <1>6, <2>1, <2>2, <2>3, <2>4, WriteDoes
<1>7. ASSUME NEW r \in Writes, Find(r) PROVE IsFirst(u, b)'
  BY <1>3, <1>7 DEF Find
<1>8. ASSUME NEW r \in Writes, Whole(r) PROVE IsFirst(u, b)'
  <2>1. Sought(r)
    BY <1>1, <1>8, FoundIsSought DEF Whole
  <2>2. \E violator : Write(r, FALSE, violator)
    BY <1>8 DEF Whole
  <2> QED
    BY <1>6, <2>1, <2>2
<1>9. CASE Check
  <2>1. UNCHANGED owner
        /\ (before' = before
            \/ before' = {p \in before : None \notin {owner[p[1]], owner[p[2]]}})
    BY <1>9 DEF Check
  <2>2. \A c \in Owned(u) : owner[c] # None
    BY <1>1 DEF Owned
  <2> QED
    BY <1>1, <1>2, <2>1, <2>2 DEF Owned
<1>10. CASE Commit
  <2>1. /\ pending # Idle /\ Write(pending.r, pending.gone, pending.violator)
    BY <1>10 DEF Commit, Idle
  <2>2. Sought(pending.r) /\ ~ pending.gone
    BY <2>1 DEF AccessInv, PendingInv
  <2> QED
    BY <1>6, <2>1, <2>2
<1>11. ASSUME NEW d \in Budget, Expire(d) PROVE IsFirst(u, b)'
  BY <1>3, <1>11 DEF Expire
<1>12. ASSUME NEW v \in User, ChangeProduct(v) PROVE IsFirst(u, b)'
  BY <1>3, <1>12 DEF ChangeProduct
<1>13. CASE UNCHANGED vars
  BY <1>3, <1>13 DEF vars
<1> QED
  BY <1>7, <1>8, <1>9, <1>10, <1>11, <1>12, <1>13 DEF Next

(* A user without a subscription works in one budget, the first of his own,  *)
(* and in the same one as long as it is there, whatever budgets requests of  *)
(* his or others create and delete, unless a save puts a deleted one back.   *)
THEOREM KeepsItsBudgetCorrect == Spec => KeepsItsBudget
<1> DEFINE Keeps ==
      \A u \in User :
        ~ product[u] /\ ~ product'[u] /\ Owned(u) # {} /\ ~ (pending # Idle /\ pending.gone) =>
          \E b \in Owned(u) : /\ WorksIn(u) = {b}
                              /\ b \in Owned(u)' => WorksIn(u)' = {b}
<1>1. AccessInv /\ [Next]_vars => [Keeps]_vars
  <2> SUFFICES ASSUME AccessInv, [Next]_vars, NEW u \in User, ~ product[u], ~ product'[u],
                      Owned(u) # {}, ~ (pending # Idle /\ pending.gone)
               PROVE  \E b \in Owned(u) : /\ WorksIn(u) = {b}
                                          /\ b \in Owned(u)' => WorksIn(u)' = {b}
    BY DEF Keeps
  <2>1. AccessInv'
    BY AccessStep
  <2>2. Owned(u) \subseteq Remembered
    BY AccessAssumption DEF Owned, Remembered
  <2>3. PICK b \in Owned(u) : b = FirstCreated(u)
    BY <2>2, FirstIs DEF AccessInv
  <2>4. IsFirst(u, b) /\ b \in Budget
    BY <2>2, <2>3, FirstIs DEF AccessInv, IsFirst, Owned
  <2>5. WorksIn(u) = {b}
    BY <2>4, FirstNow DEF HasFirst, AccessInv, Ordered
  <2>6. ASSUME b \in Owned(u)' PROVE WorksIn(u)' = {b}
    <3>1. IsFirst(u, b)'
      BY <2>4, <2>6, FirstStays
    <3> QED
      BY <2>1, <2>4, <3>1, FirstThen DEF HasFirst, AccessInv, Ordered
  <2> QED
    BY <2>5, <2>6
<1> QED
  BY <1>1, AccessInit, AccessStep, PTL DEF Spec, KeepsItsBudget

-------------------------------------------------------------------------------
(* What is promised, is granted. *)

(* A request found its budget, which is still there: no condition fails.     *)
LEMMA NoFailure ==
  ASSUME Data, product \in [User -> BOOLEAN], NEW r, Sought(r), r.at # Create,
         owner[r.obj] # None
  PROVE  ObjectVerdict(r) # Crash
<1>1. /\ r.obj \in Budget /\ owner[r.obj] = r.of /\ r.who \in User
      /\ r.obj \notin Template
  BY AccessAssumption DEF Sought
<1>2. SignedIn(r)
  BY <1>1, AccessAssumption DEF SignedIn
<1>3. Asking(r)
  BY <1>1 DEF Asking, Sane, Sought, Data, Owned
<1>4. r.at.view \in {"budget", "collaborator", "link"} \cup BelowBudget
  BY DEF Sought, Writing, Linking, Collaborating, Create, Duplicate, Patch, Destroy, Share,
         AddCollaborator, ChangeCollaborator, RemoveCollaborator, ChangeLink, RemoveLink, At,
         BelowBudget
<1>5. CASE r.at.view = "budget"
  BY <1>1, <1>3, <1>5, VerdictsOfBudget
<1>6. CASE r.at.view = "collaborator"
  BY <1>2, <1>3, <1>6, VerdictsOfCollaborator
<1>7. CASE r.at.view = "link"
  BY <1>3, <1>7, VerdictsOfLink
<1>8. CASE r.at.view \in BelowBudget
  BY <1>1, <1>3, <1>8, VerdictsBelowBudget
<1> QED
  BY <1>4, <1>5, <1>6, <1>7, <1>8

(* For any users, budgets, templates, collaborators and links, the verdict   *)
(* of the composed permissions on each request is the one promised, but for  *)
(* the two endpoints known to do otherwise; and a request overtaken by       *)
(* others fails in its check only when its budget is gone.                   *)
THEOREM GrantsAsPromisedCorrect == Spec => []GrantsAsPromised
<1>1. AccessInv => GrantsAsPromised
  <2> SUFFICES ASSUME AccessInv PROVE GrantsAsPromised
    OBVIOUS
  <2>1. Typed /\ Data /\ product \in [User -> BOOLEAN]
    BY DEF AccessInv, Data, Typed
  <2>2. ASSUME NEW r \in Requests, ~ Misbehaves(r)
        PROVE  Verdict(r) = IF MayDo(r) THEN Granted ELSE Denied
    BY <2>1, <2>2, Promised
  <2>3. ASSUME pending # Idle, pending.stage = "found", owner[pending.r.obj] # None
        PROVE  ObjectVerdict(pending.r) # Crash
    <3>1. Sought(pending.r) /\ pending.r.at # Create
      BY <2>3 DEF AccessInv, PendingInv
    <3> QED
      BY <2>1, <2>3, <3>1, NoFailure
  <2> QED
    BY <2>2, <2>3 DEF GrantsAsPromised
<1> QED
  BY <1>1, AccessInit, AccessStep, PTL DEF Spec

================================================================================
