-------------------------------- MODULE Access --------------------------------
(***************************************************************************)
(* Who may do what to a budget: its owner, subscribed or not, those who    *)
(* collaborate on it, staff, and visitors with a link to it.               *)
(*                                                                         *)
(* The first half is the permissions the views compose out of AND, OR and  *)
(* single conditions, evaluated first for the view and then for the object *)
(* of the request.  The second half is the requests that change what the   *)
(* permissions look at: budgets come and go, collaborators are added,      *)
(* changed and removed, links are handed out.  One request is followed     *)
(* between its checks and its writes while others run whole in between:    *)
(* of two requests that overlap, the one that commits first saw nothing of *)
(* the other, and may as well have run at once just before it did.         *)
(***************************************************************************)
EXTENDS Naturals, Sequences

CONSTANTS
    User, Staff, Visitor,   \* who makes a request; Visitor is not signed in
    Budget, Template,
    Shared,                 \* bound: the budgets someone else is let in on
    TemplateOwner,          \* who made each template: a user, or Staff
    Community,              \* the templates of the community
    None

Roles == {"view_only", "editor", "owner"}

ASSUME AccessAssumption ==
    /\ Staff \notin User /\ Visitor \notin User \cup {Staff}
    /\ Budget \cap Template = {} /\ Shared \subseteq Budget
    /\ TemplateOwner \in [Template -> User \cup {Staff}]
    /\ Community \subseteq Template
    /\ None \notin User \cup {Staff, Visitor} \cup Budget \cup Template \cup Roles

VARIABLES
    owner,      \* created_by of each budget; None when there is no such row
    before,     \* of two budgets, which was created first: by created_at
    product,    \* does the user's subscription have a product
    collab,     \* access_type of each collaborator; None without a row
    link,       \* the public token of each budget
    pending     \* the request between its checks and its writes

vars == <<owner, before, product, collab, link, pending>>

Links == [by : User, live : BOOLEAN]    \* live: not is_expired

OwnerOf(o) == IF o \in Template THEN TemplateOwner[o] ELSE owner[o]
Owned(u) == {b \in Budget : owner[b] = u}

FirstCreatedLast(u) ==      \* latest() for earliest()
    CHOOSE b \in Owned(u) : \A c \in Owned(u) \ {b} : <<c, b>> \in before

(* The one Budget.is_first_created looks for. *)
FirstCreated(u) ==
    CHOOSE b \in Owned(u) : \A c \in Owned(u) \ {b} : <<b, c>> \in before

-------------------------------------------------------------------------------
(* What a permission says: that it grants, that it denies, or a failure that *)
(* is no denial and ends the request with it.                                *)
Granted == "granted"
Denied == "denied"
Crash == "crash"

Says(v) == [verdict |-> v, after |-> "checked"]
Perm(ok) == Says(IF ok THEN Granted ELSE Denied)
Stopping(p) == [p EXCEPT !.after = "skipped"]   \* affects_after
When(applies, p) == IF applies THEN <<p>> ELSE <<>>  \* is_..._applicable

SignedIn(r) == r.who # Visitor
IsSafe(at) == at.action \in {"list", "retrieve"}

(* guarantee_user_dependency_flags *)
PermOfUser(r, ok) ==
    IF SignedIn(r) THEN Perm(ok) ELSE Says(Crash)

ReachedWithoutStop(ps) ==   \* affects_after is not looked at
    {i \in DOMAIN ps : \A j \in 1..(i - 1) : ps[j].verdict # Crash}

(* AND goes through all of them, unless one that affects those after it fails. *)
Reached(ps) ==
    {i \in DOMAIN ps : \A j \in 1..(i - 1) :
        ps[j].verdict # Crash /\ ~ (ps[j].verdict = Denied /\ ps[j].after = "skipped")}

AllOf(ps) ==
    Says(IF \E i \in Reached(ps) : ps[i].verdict = Crash THEN Crash
         ELSE IF \A i \in DOMAIN ps : ps[i].verdict = Granted THEN Granted
         ELSE Denied)

(* OR stops at the first that grants; nothing applicable is nothing failed. *)
AnyOf(ps) ==
    LET Decides(i) == \A j \in 1..(i - 1) : ps[j].verdict = Denied
    IN  Says(IF ps = <<>> THEN Granted
             ELSE IF \A i \in DOMAIN ps : ps[i].verdict = Denied THEN Denied
             ELSE ps[CHOOSE i \in DOMAIN ps :
                         ps[i].verdict # Denied /\ Decides(i)].verdict)

-------------------------------------------------------------------------------
(* The single conditions.  A request r says who makes it, at which endpoint, *)
(* on which object and whose that was when it was loaded (of), and which     *)
(* budget's link comes in its header (held); level is "view" or "object".    *)
(* Accounts that are inactive or not verified arrive as Visitor.             *)
IsFullyAuthenticated(r) == Stopping(Perm(SignedIn(r)))
IsAction(r, actions) == Perm(r.at.action \in actions)
IsNotAction(r, actions) == Perm(r.at.action \notin actions)
IsStaffUser(r) == PermOfUser(r, r.who = Staff)
IsOwner(r, level) == PermOfUser(r, level = "view" \/ r.of = r.who)

HasProduct(who) == who \in User /\ product[who]

(* It asserts that the ownership was checked before, and is_first_created that *)
(* the budget is still there.                                                  *)
ProductPermission(r, level) ==
    IF level = "view" \/ (HasProduct(r.who) /\ r.of = r.who) THEN PermOfUser(r, TRUE)
    ELSE IF r.of # r.who \/ Owned(r.who) = {}
    THEN Says(Crash)
    ELSE Perm(FirstCreated(r.who) = r.obj)

MultipleBudgetPermission(r, level) ==
    IF level = "object" THEN ProductPermission(r, level)
    ELSE PermOfUser(r, HasProduct(r.who) \/ Owned(r.who) = {})

RoleOf(r) == IF r.who \in User /\ r.obj \in Budget THEN collab[r.obj][r.who] ELSE None

IsCollaborator(r, level, types) ==
    PermOfUser(r, level = "view" \/ RoleOf(r) \in types)

IsOwnerOrCollaborator(r, level, types) ==
    PermOfUser(r, \/ level = "view"
                  \/ r.of = r.who
                  \/ RoleOf(r) \in types)

TypesFor(r) == IF IsSafe(r.at) THEN Roles ELSE {"editor", "owner"}

(* parse_public_token: a link that is gone or expired is refused where it is *)
(* first looked at.                                                          *)
LinkHolds(r) == r.held # None /\ link[r.held] # None /\ link[r.held].live

IsPublic(r, level) == Perm(LinkHolds(r) /\ (level = "view" \/ r.held = r.obj))

IsCommunityTemplate(r) == Perm(r.obj \in Community)

-------------------------------------------------------------------------------
(* The compositions. *)
ObjectOptions ==    \* the defaults of BudgetObjPermission
    [flags |-> {}, types |-> {}, restricted |-> {"destroy"}]

BudgetObjPermission(r, level, o) ==
    AnyOf(<<AllOf(<<IsFullyAuthenticated(r), Stopping(IsOwner(r, level))>>
                  \o When(\/ level = "view" \/ "product_can_destroy" \notin o.flags
                          \/ r.at.action # "destroy",
                          ProductPermission(r, level))),
            AllOf(<<IsFullyAuthenticated(r),
                    IsCollaborator(r, level,
                        IF o.types = {} THEN TypesFor(r) ELSE o.types),
                    IsNotAction(r, o.restricted)>>)>>
          \o When("public" \in o.flags, AllOf(<<Perm(IsSafe(r.at)), IsPublic(r, level)>>)))

TemplateObjPermission(r, level) ==
    AllOf(<<IsFullyAuthenticated(r),
            AnyOf(<<IsOwner(r, level),
                    AllOf(<<IsCommunityTemplate(r), IsStaffUser(r)>>)>>)>>)

(* What is asked of a budget or, in place of that, of a template. *)
ForDomain(r, level, o) ==
    AllOf(When(level = "view" \/ r.obj \in Budget, BudgetObjPermission(r, level, o))
          \o When(level = "object" /\ r.obj \in Template,
                  TemplateObjPermission(r, level)))

(* to_view_permission *)
ToViewPermission(r, p) ==
    IF r.everywhere
    THEN AnyOf(<<p, AllOf(<<IsFullyAuthenticated(r), IsStaffUser(r)>>)>>)
    ELSE p

BudgetView(r, level) ==
    AnyOf(<<AllOf(<<Stopping(IsAction(r, {"list"})), IsFullyAuthenticated(r)>>),
            AllOf(<<Stopping(IsAction(r, {"create", "duplicate"})),
                    AllOf(<<IsFullyAuthenticated(r), Stopping(IsOwner(r, level))>>
                          \o When(level = "view" \/ r.obj \in Budget,
                                  MultipleBudgetPermission(r, level)))>>),
            AllOf(<<Stopping(IsNotAction(r, {"list", "create", "duplicate",
                                             "bulk_import_actuals"})),
                    ForDomain(r, level,
                        [ObjectOptions EXCEPT !.flags = {"public", "product_can_destroy"},
                            !.restricted = {"destroy", "partial_update"}])>>)>>
          \o When(level = "view" \/ r.obj \in Budget,
                  AllOf(<<IsAction(r, {"bulk_import_actuals"}),
                          BudgetObjPermission(r, level,
                              [ObjectOptions EXCEPT !.types = {"owner"}])>>)))

RowView(r, level) ==
    ForDomain(r, level, [ObjectOptions EXCEPT !.flags = {"public"}, !.restricted = {}])

(* A row whose budget is gone has no instance to ask the ownership of. *)
CollaboratorView(r, level) ==
    IF level = "object" /\ owner[r.obj] = None
    THEN Says(Crash)
    ELSE IsOwnerOrCollaborator(r, level, {"owner"})

(* The views below a budget check the budget while they look it up, *)
NestedObject(r) ==
    ToViewPermission(r,
        CASE r.at.view = "nested" ->
                ForDomain(r, "object", [ObjectOptions EXCEPT !.flags = {"public"}])
          [] r.at.view = "private" ->
                AllOf(<<BudgetObjPermission(r, "object", ObjectOptions)>>)
          [] r.at.view = "collaborators" ->
                AllOf(<<IsFullyAuthenticated(r),
                        IsOwnerOrCollaborator(r, "object",
                            IF IsSafe(r.at) THEN Roles ELSE {"owner"})>>))

(* which for who is not signed in happens in the midst of the view's own check. *)
NestedView(r) ==
    LET found == NestedObject(r)
    IN  AnyOf(<<IsFullyAuthenticated(r),
                AllOf(<<[found EXCEPT !.verdict =
                            IF @ = Granted /\ r.obj \in Template THEN Denied ELSE @],
                        [found EXCEPT !.verdict =
                            IF @ = Granted THEN IsPublic(r, "object").verdict ELSE @],
                        Perm(IsSafe(r.at))>>)>>)

-------------------------------------------------------------------------------
(* The endpoints. *)
At(view, action) == [view |-> view, action |-> action]

BudgetEndpoints ==
    {At("budget", "list"), At("budget", "create"),
     At("budget", "retrieve"), At("budget", "partial_update"),
     At("budget", "destroy"), At("budget", "bulk_update_children"),
     At("budget", "duplicate"), At("budget", "bulk_import_actuals")}
NestedEndpoints ==      \* children, groups, markups and fringes of a budget
    {At("nested", "list"), At("nested", "create")}
PrivateEndpoints ==     \* its actuals, and its link
    {At("private", "list"), At("private", "create")}
RowEndpoints ==         \* an account or a sub-account
    {At("row", "retrieve"), At("row", "partial_update"),
     At("row", "destroy"), At("row", "bulk_update_children")}
CollaboratorsEndpoints ==
    {At("collaborators", "list"), At("collaborators", "create")}
CollaboratorEndpoints ==
    {At("collaborator", "partial_update"), At("collaborator", "destroy")}
LinkEndpoints ==
    {At("link", "partial_update"), At("link", "destroy")}

TemplateEndpoints ==    \* those whose queryset has the templates too
    {e \in BudgetEndpoints : e.action \notin {"list", "create", "bulk_import_actuals"}}
    \cup NestedEndpoints \cup RowEndpoints

Endpoints == BudgetEndpoints \cup NestedEndpoints \cup PrivateEndpoints
             \cup RowEndpoints \cup CollaboratorsEndpoints
             \cup CollaboratorEndpoints \cup LinkEndpoints

OnNothing == {At("budget", "list"), At("budget", "create")}

(* check_permissions, before anything is looked up; *)
ViewVerdict(r) ==
    ToViewPermission(r,
        CASE r.at.view = "budget" -> BudgetView(r, "view")
          [] r.at.view = "row" -> RowView(r, "view")
          [] r.at.view = "collaborator" -> CollaboratorView(r, "view")
          [] r.at.view = "link" -> IsFullyAuthenticated(r)
          [] OTHER -> NestedView(r)).verdict

(* check_object_permissions, on what was found.  A link is found only by who *)
(* made it.                                                                  *)
ObjectVerdict(r) ==
    CASE r.at.view = "budget" -> ToViewPermission(r, BudgetView(r, "object")).verdict
      [] r.at.view = "row" -> ToViewPermission(r, RowView(r, "object")).verdict
      [] r.at.view = "collaborator" ->
            ToViewPermission(r, CollaboratorView(r, "object")).verdict
      [] r.at.view = "link" ->
            Perm(link[r.obj] # None /\ link[r.obj].by = r.who).verdict
      [] OTHER -> NestedObject(r).verdict

Verdict(r) ==
    LET first == ViewVerdict(r)
    IN  IF r.at \in OnNothing \/ first # Granted THEN first ELSE ObjectVerdict(r)

-------------------------------------------------------------------------------
(* The requests that change who may do what. *)
Create == At("budget", "create")
Duplicate == At("budget", "duplicate")
Patch == At("budget", "partial_update")
Destroy == At("budget", "destroy")
Share == At("private", "create")
AddCollaborator == At("collaborators", "create")
ChangeCollaborator == At("collaborator", "partial_update")
RemoveCollaborator == At("collaborator", "destroy")
ChangeLink == At("link", "partial_update")
RemoveLink == At("link", "destroy")

(* What it asks to write is chosen when it writes: no permission looks at it. *)
Req(e, who, obj, user) ==
    [at |-> e, who |-> who, obj |-> obj, of |-> IF obj = None THEN None ELSE OwnerOf(obj),
     user |-> user, held |-> None, everywhere |-> FALSE]

Writes ==
    {Req(Create, u, None, None) : u \in User}
    \cup {Req(e, u, b, None) : e \in {Duplicate, Patch, Destroy}, u \in User, b \in Budget}
    \cup {Req(e, u, b, None) : e \in {Share, ChangeLink, RemoveLink}, u \in User, b \in Shared}
    \cup {Req(e, u, b, v) : e \in {AddCollaborator, ChangeCollaborator, RemoveCollaborator},
                           u, v \in User, b \in Shared}

(* The row a request is about, once it is found. *)
RowOf(r) ==
    IF r.at \in {ChangeCollaborator, RemoveCollaborator} THEN collab[r.obj][r.user]
    ELSE IF r.at \in {ChangeLink, RemoveLink, Share} THEN link[r.obj]
    ELSE IF r.obj = None THEN None ELSE owner[r.obj]

Findable(r) ==
    \/ r.at = Create
    \/ r.at = Share /\ owner[r.obj] # None
    \/ r.at # Share /\ RowOf(r) # None

AcceptableAnyone(r) ==      \* the field no longer excludes user_owner
    /\ r.at = AddCollaborator => r.user # r.who /\ collab[r.obj][r.user] = None
    /\ r.at \in {ChangeCollaborator, RemoveCollaborator} => r.user # r.who
    /\ r.at = Share /\ link[r.obj] # None => ~ link[r.obj].live

(* What the serializers and CollaboratorViewSet.destroy refuse. *)
Acceptable(r) ==
    /\ r.at = AddCollaborator =>
          r.user \notin {r.of, r.who} /\ collab[r.obj][r.user] = None
    /\ r.at \in {ChangeCollaborator, RemoveCollaborator} => r.user # r.who
    /\ r.at = Share /\ link[r.obj] # None => ~ link[r.obj].live

(* What a request writes.  A save finds no row when another request deleted it *)
(* since it was loaded, and puts one back, unless another took its place.      *)
SetLink(b, l) == link' = [link EXCEPT ![b] = l] /\ UNCHANGED <<owner, before, collab>>
SetRole(b, u, t) ==
    collab' = [collab EXCEPT ![b][u] = t] /\ UNCHANGED <<owner, before, link>>
Nothing == UNCHANGED <<owner, before, collab, link>>

Idle == [stage |-> "idle"]      \* no request is pending

MayReturn(b) ==         \* its save may put the budget back
    pending # Idle /\ pending.r.at = Patch /\ pending.r.obj = b

NewBudget(u) ==
    \E b \in Budget :
        /\ owner[b] = None /\ link[b] = None      \* a key never used before
        /\ pending # Idle => pending.r.obj # b
        /\ \A v \in User : collab[b][v] = None
        /\ owner' = [owner EXCEPT ![b] = u]
        /\ before' = before \cup {c \in Budget : owner[c] # None \/ MayReturn(c)} \X {b}
        /\ UNCHANGED <<collab, link>>

DestroyBudget(b) ==     \* and what hangs on it by a generic relation
    /\ owner' = [owner EXCEPT ![b] = None]
    /\ before' = {p \in before : MayReturn(b) \/ b \notin {p[1], p[2]}}
    /\ collab' = [collab EXCEPT ![b] = [u \in User |-> None]]
    /\ link' = [link EXCEPT ![b] = None]

(* create of PublicTokenSerializer: violator says that there was a link, which *)
(* had expired and is deleted first.                                           *)
ShareBudget(r, gone, violator) ==
    \/ /\ link[r.obj] = None \/ (violator /\ ~ gone)
       /\ SetLink(r.obj, [by |-> r.who, live |-> TRUE])
    \/ link[r.obj] # None /\ (violator => gone) /\ Nothing

(* update of PublicTokenSerializer deletes a link that is still expired. *)
UpdateLink(r, gone) ==
    LET Live == link[r.obj] # None /\ link[r.obj].live
    IN  \/ gone /\ link[r.obj] # None /\ Nothing
        \/ /\ ~ gone \/ link[r.obj] = None
           /\ \/ SetLink(r.obj, [by |-> r.who, live |-> TRUE])
              \/ ~ Live /\ SetLink(r.obj, None)

Write(r, gone, violator) ==
    \/ r.at \in {Create, Duplicate} /\ NewBudget(r.who)
    \/ r.at = Patch /\ ~ gone /\ Nothing
    \/ /\ r.at = Patch /\ gone
       /\ owner' = [owner EXCEPT ![r.obj] = r.of] /\ UNCHANGED <<before, collab, link>>
    \/ r.at = Destroy /\ ~ gone /\ DestroyBudget(r.obj)
    \/ r.at = Share /\ ShareBudget(r, gone, violator)
    \/ r.at = ChangeLink /\ UpdateLink(r, gone)
    \/ r.at = RemoveLink /\ ~ gone /\ SetLink(r.obj, None)
    \/ /\ r.at = AddCollaborator /\ owner[r.obj] # None /\ collab[r.obj][r.user] = None
       /\ \E t \in Roles : SetRole(r.obj, r.user, t)
    \/ /\ r.at = AddCollaborator /\ (owner[r.obj] = None \/ collab[r.obj][r.user] # None)
       /\ Nothing
    \/ /\ r.at = ChangeCollaborator /\ (~ gone \/ collab[r.obj][r.user] = None)
       /\ \E t \in Roles : SetRole(r.obj, r.user, t)
    \/ /\ r.at = ChangeCollaborator /\ gone /\ collab[r.obj][r.user] # None
       /\ Nothing
    \/ r.at = RemoveCollaborator /\ ~ gone /\ SetRole(r.obj, r.user, None)
    \/ r.at \in {Destroy, RemoveLink, RemoveCollaborator} /\ gone /\ Nothing

-------------------------------------------------------------------------------
Init ==
    /\ owner = [b \in Budget |-> None] /\ before = {}
    /\ product \in [User -> BOOLEAN]
    /\ collab = [b \in Budget |-> [u \in User |-> None]]
    /\ link = [b \in Budget |-> None]
    /\ pending = Idle

Find(r) ==
    /\ pending = Idle /\ Findable(r) /\ ViewVerdict(r) = Granted
    /\ pending' = [r |-> r, gone |-> FALSE, violator |-> FALSE,
                   stage |-> IF r.at = Create THEN "granted" ELSE "found"]
    /\ UNCHANGED <<owner, before, product, collab, link>>

Finish ==
    /\ pending' = Idle
    /\ UNCHANGED product

Check ==
    /\ pending.stage = "found"
    /\ LET r == pending.r
       IN  IF ObjectVerdict(r) = Granted /\ Acceptable(r)
           THEN /\ pending' = [pending EXCEPT !.stage = "granted",
                                   !.violator = r.at = Share /\ link[r.obj] # None,
                                   !.gone = @ /\ r.at # Share]
                /\ UNCHANGED <<owner, before, product, collab, link>>
           ELSE /\ Finish /\ UNCHANGED <<owner, collab, link>>
                /\ before' = {p \in before : None \notin {owner[p[1]], owner[p[2]]}}

Commit ==
    /\ pending.stage = "granted" /\ Finish
    /\ Write(pending.r, pending.gone, pending.violator)

(* The row the pending request found is deleted by r, or replaced. *)
Overtaken(r) ==
    \E found \in {pending.r} :
        \/ RowOf(found) # None /\ RowOf(found)' = None
        \/ /\ r.at = Share /\ found.at \in {Share, ChangeLink, RemoveLink}
           /\ r.obj = found.obj /\ link[r.obj] # None

Whole(r) ==
    /\ Findable(r) /\ Acceptable(r) /\ Verdict(r) = Granted
    /\ Write(r, FALSE, r.at = Share /\ link[r.obj] # None)
    /\ pending' = IF pending = Idle THEN Idle
                  ELSE [pending EXCEPT !.gone = @ \/ Overtaken(r)]
    /\ UNCHANGED product

Expire(b) ==
    /\ link[b] # None /\ link[b].live
    /\ link' = [link EXCEPT ![b].live = FALSE]
    /\ UNCHANGED <<owner, before, product, collab, pending>>

(* A subscription begins or ends; a request goes by what it came with. *)
ChangeProduct(u) ==
    /\ pending # Idle => pending.r.who # u
    /\ product' = [product EXCEPT ![u] = ~ @]
    /\ UNCHANGED <<owner, before, collab, link, pending>>

Next ==
    \/ \E r \in Writes : Find(r) \/ Whole(r)
    \/ Check \/ Commit
    \/ \E b \in Budget : Expire(b)
    \/ \E u \in User : ChangeProduct(u)

Spec == Init /\ [][Next]_vars

-------------------------------------------------------------------------------
(* No one is a collaborator of a budget of his own, whoever adds him: what     *)
(* CollaboratingUserField and the validators of Collaborator are there for.    *)
TypeOK ==
    /\ owner \in [Budget -> User \cup {None}]
    /\ before \subseteq Budget \X Budget
    /\ product \in [User -> BOOLEAN]
    /\ collab \in [Budget -> [User -> Roles \cup {None}]]
    /\ link \in [Budget -> Links \cup {None}]
    /\ pending.stage \in {"idle", "found", "granted"}
    /\ \A b \in Budget : owner[b] # None => collab[b][owner[b]] = None

(* What the comments of BudgetObjPermission and of the views promise: the      *)
(* owner may do anything with a budget he has the subscription for, or that    *)
(* is his first, and can always delete it and say who else works on it;        *)
(* collaborators see it, and as editors work on its contents, but delete or    *)
(* duplicate it never; who holds its link sees it.                             *)
OwnerMay(r) ==
    /\ r.of = r.who /\ r.obj \in Budget /\ r.at.view # "link" /\ r.at # Duplicate
    /\ \/ r.at = Destroy \/ r.at.view \in {"collaborators", "collaborator"}
       \/ HasProduct(r.who) \/ FirstCreated(r.who) = r.obj

CollaboratorMay(r) ==
    /\ r.at.view # "link" /\ r.at \notin {Destroy, Patch, Duplicate}
    /\ \/ RoleOf(r) = "owner"
       \/ /\ RoleOf(r) = "editor"
          /\ r.at.view # "collaborator" /\ r.at # AddCollaborator
          /\ r.at.action # "bulk_import_actuals"
       \/ RoleOf(r) = "view_only" /\ IsSafe(r.at)

TemplateMay(r) ==
    /\ r.obj \in Template
    /\ \/ r.of = r.who
       \/ r.at # Duplicate /\ r.who = Staff /\ r.obj \in Community

MayDo(r) ==
    \/ r.everywhere /\ r.who = Staff /\ r.at.view # "link"
    \/ r.at = At("budget", "list") /\ SignedIn(r)
    \/ r.at = Create /\ SignedIn(r) /\ (HasProduct(r.who) \/ Owned(r.who) = {})
    \/ r.at = Duplicate /\ r.of = r.who /\ HasProduct(r.who)
    \/ OwnerMay(r) \/ CollaboratorMay(r) \/ TemplateMay(r)
    \/ r.at.view = "link" /\ link[r.obj] # None /\ link[r.obj].by = r.who
    \/ /\ IsSafe(r.at) /\ r.at.view \in {"budget", "nested", "row"}
       /\ LinkHolds(r) /\ r.held = r.obj

(* A link to a budget that is not shared holds no more than none does. *)
RequestsAt(o, of, endpoints) ==
    {r \in [at : endpoints, who : User \cup {Staff, Visitor}, obj : {o}, of : {of},
            user : {None}, held : Shared \cup {None}, everywhere : BOOLEAN] :
        r.everywhere => r.who \notin User}

Requests ==
    RequestsAt(None, None, OnNothing)
    \cup (UNION {RequestsAt(b, owner[b], Endpoints \ OnNothing) :
                   b \in {c \in Budget : owner[c] # None}})
    \cup (UNION {RequestsAt(t, TemplateOwner[t], TemplateEndpoints) : t \in Template})

(* Two endpoints are known to do otherwise: the limit on budgets counts for    *)
(* duplicating a template too, as the view is asked before the object is, and  *)
(* the view of a collaborator does not ask whether one is signed in.           *)
Misbehaves(r) ==
    \/ r.at = Duplicate /\ r.obj \in Template /\ ~ HasProduct(r.who) /\ Owned(r.who) # {}
    \/ r.at.view = "collaborator" /\ ~ SignedIn(r)

(* What the permissions make of a request is what is promised, no more and no  *)
(* less, and never a failure: each condition is reached only when those it     *)
(* relies on hold (base.py:420-436, budget/permissions.py:41-47).  Only a      *)
(* request whose budget is deleted under it can fail.                            *)
GrantsAsPromised ==
    IF pending = Idle
    THEN \A r \in Requests : ~ Misbehaves(r) =>
            Verdict(r) = IF MayDo(r) THEN Granted ELSE Denied
    ELSE pending.stage = "found" /\ ObjectVerdict(pending.r) = Crash
            => owner[pending.r.obj] = None

(* A user without a subscription has one budget to work in, however many he    *)
(* got (his subscription ended, or two requests created one each): as long as  *)
(* it is there, it stays the same one.  A budget put back by a save that       *)
(* overlapped its deletion is the exception.                                   *)
WorksIn(u) ==
    {b \in Owned(u) :
        ProductPermission(Req(Patch, u, b, None), "object") = Perm(TRUE)}

KeepsItsBudget ==
    [][\A u \in User :
          ~ product[u] /\ ~ product'[u] /\ Owned(u) # {}
          /\ ~ (pending # Idle /\ pending.gone) =>
             \E b \in Owned(u) :
                /\ WorksIn(u) = {b}
                /\ b \in Owned(u)' => WorksIn(u)' = {b}]_vars
===============================================================================
