------------------------------ MODULE Sessions ------------------------------
(* Signing in and staying signed in: accounts, the sessions of Django, the  *)
(* JWT that a second cookie holds, and what the JWT says of a subscription  *)
(* at Stripe. There is one browser. Its requests overlap: each leaves with  *)
(* the cookies of then and is answered later, and its answer arrives later  *)
(* still.                                                                   *)
EXTENDS Naturals, FiniteSets

CONSTANTS
  User,
  Social,        \* the users who signed up with a social provider: no password
  Sid,           \* keys of sessions
  Checkout,      \* checkout sessions at Stripe, and the customers they make
  Tab,           \* requests that are under way at once
  Asked,         \* bound: the kinds of requests that are made
  Paying,        \* bound: the users who may check out
  MaxOverlap,    \* bound: how many requests are sent while another is under way
  Alone,         \* bound: the kinds of requests with which no other overlaps
  MaxPassword,   \* bound: how often passwords are changed
  None,
  Keep           \* an answer leaves a cookie alone

SignIns == {"login", "social"}
Validations == {"validate", "revalidate"}
(* Views with SessionAuthentication and IsFullyAuthenticated.               *)
Guarded == {"read", "write", "profile", "password", "checkout", "sync"}
(* Views that read a token from a mail or send one, of whoever asks.        *)
Mailing == {"register", "ask", "verify", "recover", "reset"}
Kinds == Guarded \cup Validations \cup SignIns \cup Mailing \cup {"logout"}

(* What Stripe says of a subscription, a row of the table of users, a       *)
(* session that is open, and the payload of a JWT.                          *)
Plans == {None, "active", "expired"}
Rows == [active : BOOLEAN, verified : BOOLEAN, password : Nat,
         customer : Checkout \cup {None}]
Opened == [user : User, password : Nat, checkout : Checkout \cup {None}]
Tokens == [user : User, status : Plans]

ASSUME SessionsAssumption ==
  /\ Social \subseteq User /\ Asked \subseteq Kinds /\ MaxPassword \in Nat
  /\ None # Keep /\ {None, Keep} \cap (User \cup Sid \cup Checkout) = {}
  /\ \A x \in {None, Keep} : x \notin Rows \cup Opened \cup Tokens \cup {"active", "expired"}

VARIABLES
  row,      \* the table of users
  sale,     \* at Stripe: who began a checkout, and the subscription it led to
  session,  \* the table of sessions
  cookie,   \* what the browser holds
  mailed,   \* users with a link in their mail that has not run out
  tab,      \* the requests under way
  since,    \* history: what Stripe has said of a user since his JWT was renewed,
            \* and what requests that overlapped with that may still put back
  mixed,    \* history: the cookies may come from two sign-ins, or one ran out
  out,      \* history: signed out (not while mixed), no sign-in sent since
  begun,    \* history: the checkout that the browser began and can finish
  overlap   \* counts what MaxOverlap bounds

vars == <<row, sale, session, cookie, mailed, tab, since, mixed, out, begun, overlap>>

Idle == [kind |-> "idle", result |-> "none"]

-----------------------------------------------------------------------------
(* Who asks. *)

FullyAuthenticated(r) == r # None /\ r.active /\ r.verified

Loaded(s) == IF s = None THEN None ELSE session[s]

(* auth.get_user: the session is of the password that is stored.            *)
SignedIn(s) ==
  /\ s # None
  /\ FullyAuthenticated(row[s.user])
  /\ s.password = row[s.user].password

UserOf(s) == IF SignedIn(s) THEN s.user ELSE None

(* cache_stripe_from_token: no token, or another user's, is an error.       *)
Crashes(q) ==
  /\ q.user # None /\ q.me.customer # None /\ q.kind # "revalidate"
  /\ q.jwt # None => q.jwt.user # q.user

(* get_cookie_user. user: whom the request is of once the view is done.     *)
CookieUser(q, user) ==
  IF q.kind \notin Validations THEN user
  ELSE IF user # None /\ q.jwt # None /\ FullyAuthenticated(row[q.jwt.user])
  THEN q.jwt.user ELSE None

BillingStatusCopied(q, me) ==
  IF me.customer = None THEN None
  ELSE IF q.kind \in SignIns \/ (q.kind = "sync" /\ q.me.customer = None)
  THEN sale[me.customer].plan
  ELSE q.jwt.status

(* What is asked of Stripe; anything else is copied from the JWT sent.      *)
BillingStatus(q, me) ==
  IF me.customer = None THEN None
  ELSE IF \/ q.kind \in SignIns \cup {"revalidate"}
          \/ q.kind = "sync" /\ q.me.customer = None
  THEN sale[me.customer].plan
  ELSE q.jwt.status

-----------------------------------------------------------------------------
(* A request: sent, answered, and its answer delivered. *)

Calm == \A t \in Tab : tab[t] = Idle

Overlapped(q) == IF q = Idle THEN q ELSE [q EXCEPT !.calm = FALSE]

(* Each password is a new number: its hash is salted.                       *)
Fresh == 1 + Cardinality({n \in 1..MaxPassword :
  \/ \E u \in User : row[u] # None /\ row[u].password >= n
  \/ \E s \in Sid : session[s] # None /\ session[s].password >= n
  \/ \E t \in Tab : tab[t] # Idle /\ tab[t].me # None /\ tab[t].me.password >= n})

(* What is asked of whom, and of which checkout.                            *)
Sensible(kind, who, c) ==
  /\ who # None <=> kind \in SignIns \cup Mailing
  /\ c # None <=> kind \in {"checkout", "sync"}
  /\ CASE kind \in {"password", "reset"} ->
            /\ Fresh <= MaxPassword
            /\ \A x \in Tab : tab[x].kind \notin {"password", "reset"}
       [] kind = "social" -> who \in Social \/ row[who] # None
       [] kind = "register" -> who \notin Social
       [] kind = "checkout" ->
            /\ UserOf(Loaded(cookie.sid)) \in Paying \cup {None}
            /\ sale[c].by = None /\ \A x \in Tab : tab[x].kind # kind
       [] kind = "sync" -> sale[c].by # None
       [] OTHER -> TRUE
  /\ kind \in {"verify", "reset"} => who \in mailed

(* The request loads its session and, if it is signed in, the user's row.   *)
(* To a view that does not authenticate, whoever asks is anonymous, and so   *)
(* AuthTokenCookieMiddleware finds him afterwards.                          *)
Send(t, kind, who, c) ==
  LET s == Loaded(cookie.sid)
      authenticates == kind \in Guarded \cup Validations
      u == IF authenticates THEN UserOf(s) ELSE None
  IN
  /\ tab[t] = Idle /\ Sensible(kind, who, c)
  /\ ~ Calm => /\ overlap < MaxOverlap
               /\ kind \notin Alone /\ \A x \in Tab : tab[x].kind \notin Alone
  /\ overlap' = IF Calm THEN overlap ELSE overlap + 1
  /\ tab' = [x \in Tab |-> IF x # t THEN Overlapped(tab[x]) ELSE
       [kind |-> kind, who |-> who, sale |-> c, sid |-> cookie.sid,
        jwt |-> IF authenticates THEN cookie.jwt ELSE None,
        read |-> IF kind = "logout" THEN None ELSE s, user |-> u,
        me |-> IF u = None THEN None ELSE row[u],
        due |-> c # None /\ c = begun /\ sale[c].plan # None,
        calm |-> Calm, result |-> "sent", setSid |-> Keep, setJwt |-> Keep]]
  /\ mixed' = (mixed \/ (/\ ~ Calm
                         /\ \/ kind \in SignIns
                            \/ \E x \in Tab : tab[x].kind \in SignIns))
  /\ out' = (out /\ kind \notin SignIns)
  /\ begun' = IF Calm /\ kind \in {"read", "write", "profile"} \cup Validations
              THEN begun ELSE None
  /\ UNCHANGED <<row, sale, session, cookie, mailed, since>>

ViewForgets(q, result) ==
  [result |-> result, user |-> q.user, me |-> q.me, key |-> q.sid,
   data |-> IF q.read = None THEN None ELSE [q.read EXCEPT !.checkout = None]]

(* What a view leaves behind: its result, the user, his row and the session *)
(* as the request has them now, and the key to save the session under.      *)
View(q, result) ==
  [result |-> result, user |-> q.user, me |-> q.me, data |-> q.read, key |-> q.sid]

PersistMissing(q, v) ==
  /\ v.result # "unauthorized"
  /\ cookie.jwt = None \/ q.kind \in Validations

ShouldPersist(q, v) ==
  /\ v.result # "unauthorized"
  /\ q.jwt = None \/ q.kind # "read"

Resurrects(q, v) == FALSE

(* SessionMiddleware refuses to save a session that is deleted by now.      *)
Interrupted(q, v) == v.key = q.sid /\ session[q.sid] = None

Truth(u) ==
  IF row[u] = None \/ row[u].customer = None THEN None
  ELSE sale[row[u].customer].plan

Noted == since' = [u \in User |-> since[u] \cup {Truth(u)'}]

(* The answer t has: what became of it, and what it does to the cookies.     *)
Answered(t, result, sid, jwt) ==
  tab' = [tab EXCEPT ![t] =
    [@ EXCEPT !.result = result, !.setSid = sid, !.setJwt = jwt, !.sid = None,
              !.who = None, !.jwt = None, !.read = None, !.me = None]]

(* process_response of AuthTokenCookieMiddleware, then SessionMiddleware. A  *)
(* login that crashes has its removal of the session rolled back.           *)
Answer(t, v) ==
  LET q == tab[t]
      user == CookieUser(q, v.user)
      logout == user = None \/ user # v.user
      me == IF q.kind \in Validations THEN row[user] ELSE v.me
  IN
  /\ \/ /\ Crashes(q)
        /\ Answered(t, "crashed", Keep, Keep) /\ UNCHANGED session
     \/ /\ ~ Crashes(q) /\ logout
        /\ Answered(t, v.result, None, IF q.kind = "logout" THEN None ELSE Keep)
        /\ session' = IF v.result = "crashed" THEN session
                      ELSE [session EXCEPT ![q.sid] = None]
     \/ /\ ~ Crashes(q) /\ ~ logout /\ Interrupted(q, v)
        /\ Answered(t, "interrupted", Keep, Keep) /\ UNCHANGED session
     \/ /\ ~ Crashes(q) /\ ~ logout /\ ~ Interrupted(q, v)
        /\ Answered(t, v.result, v.key,
             IF ShouldPersist(q, v)
             THEN [user |-> user, status |-> BillingStatus(q, me)] ELSE Keep)
        /\ session' = [session EXCEPT ![q.sid] = None, ![v.key] = v.data]
  /\ out' = (out \/ (q.kind = "logout" /\ ~ mixed))
  /\ UNCHANGED <<cookie, mixed, begun, overlap>>

(* What q may yet have the JWT of u say: what it was sent with, what its    *)
(* answer holds, or nothing if he was no customer as q loaded him.          *)
Carried(q, u) ==
  {j.status : j \in {x \in Tokens : x \in {q.jwt, q.setJwt} /\ x.user = u}}
    \cup {p \in {None} : q.user = u /\ q.me # None /\ q.me.customer = None}

(* The answer reaches the browser. A session whose key nobody has any longer *)
(* is left out of the model from then on.                                   *)
Deliver(t) ==
  LET q == tab[t]
      Put(new, old) == IF new = Keep THEN old ELSE new
      renewed == q.setJwt \notin {Keep, None} /\ q.result = "ok"
                 /\ q.kind \in SignIns \cup {"sync", "revalidate"}
  IN
  /\ q # Idle /\ q.result # "sent"
  /\ cookie' = [sid |-> Put(q.setSid, cookie.sid), jwt |-> Put(q.setJwt, cookie.jwt)]
  /\ tab' = [tab EXCEPT ![t] = Idle]
  /\ session' = [s \in Sid |->
       IF \/ s = cookie'.sid
          \/ \E x \in Tab \ {t} : tab[x] # Idle /\ s \in {tab[x].sid, tab[x].setSid}
       THEN session[s] ELSE None]
  /\ since' = [u \in User |->
       IF renewed /\ u = q.setJwt.user
       THEN {Truth(u)} \cup UNION {Carried(tab[x], u) : x \in {y \in Tab :
                                     tab[y] # Idle /\ ~ tab[y].calm}}
       ELSE since[u]]
  /\ mixed' = (mixed /\ ~ (/\ q.calm
                           /\ \/ q.kind \in SignIns \cup {"logout"} /\ q.result = "ok"
                              \/ q.kind \in Validations
                                 /\ q.result \in {"ok", "unauthorized"}))
  /\ begun' = IF q.calm /\ q.kind = "checkout" /\ q.result = "ok" /\ row[q.user].active
              THEN q.sale ELSE IF q.setSid = None THEN None ELSE begun
  /\ UNCHANGED <<row, sale, mailed, out, overlap>>

-----------------------------------------------------------------------------
(* The views. *)

Asks(t, kinds) == tab[t].kind \in kinds /\ tab[t].result = "sent"

Admitted(t) == tab[t].user # None /\ ~ Crashes(tab[t])

(* Turned away by the authentication, or broken by it.                      *)
TurnAway(t) ==
  /\ Asks(t, Guarded) /\ ~ Admitted(t)
  /\ Answer(t, View(tab[t], "unauthorized"))
  /\ UNCHANGED <<row, sale, mailed>>

(* A GET, or a write of something that is not modelled here.                *)
Serve(t) ==
  /\ Asks(t, {"read", "write"}) /\ Admitted(t)
  /\ Answer(t, View(tab[t], "ok"))
  /\ UNCHANGED <<row, sale, mailed>>

(* ActiveUserViewSet: the whole row is saved as it was loaded.              *)
UpdateUser(t) ==
  /\ Asks(t, {"profile"}) /\ Admitted(t)
  /\ row' = [row EXCEPT ![tab[t].user] = tab[t].me]
  /\ Answer(t, View(tab[t], "ok"))
  /\ UNCHANGED <<sale, mailed>>

(* ChangePasswordSerializer: the session keeps the hash it was opened with. *)
ChangePassword(t) ==
  LET q == tab[t]
      me == [q.me EXCEPT !.password = Fresh]
  IN
  /\ Asks(t, {"password"}) /\ Admitted(t)
  /\ IF q.user \in Social /\ q.me.password = 0
     THEN UNCHANGED row /\ Answer(t, View(q, "refused"))
     ELSE /\ row' = [row EXCEPT ![q.user] = me]
          /\ Answer(t, [View(q, "ok") EXCEPT !.me = me])
  /\ UNCHANGED <<sale, mailed>>

(* CheckoutSessionViewSet: the session remembers what it has begun.         *)
BeginCheckout(t) ==
  LET q == tab[t] IN
  /\ Asks(t, {"checkout"}) /\ Admitted(t)
  /\ IF q.me.customer # None
     THEN Answer(t, View(q, "refused")) /\ UNCHANGED sale
     ELSE /\ sale[q.sale].by = None
          /\ sale' = [sale EXCEPT ![q.sale].by = q.user]
          /\ Answer(t, [View(q, "ok") EXCEPT !.data.checkout = q.sale])
  /\ UNCHANGED <<row, mailed>>

SyncRefusedUnpaid(q) == sale[q.sale].plan = None

SyncRefused(q) ==
  \/ q.read.checkout # q.sale
  \/ sale[q.sale].by # q.user
  \/ sale[q.sale].plan = None

(* UserSyncStripeSerializer: what the session remembers is gone either way. *)
SyncCheckout(t) ==
  LET q == tab[t]
      me == [q.me EXCEPT !.customer = q.sale]
      v == [View(q, "ok") EXCEPT !.data.checkout = None]
  IN
  /\ Asks(t, {"sync"}) /\ Admitted(t)
  /\ IF q.me.customer # None
     THEN Answer(t, View(q, "refused")) /\ UNCHANGED row
     ELSE IF SyncRefused(q)
     THEN Answer(t, [v EXCEPT !.result = "refused"]) /\ UNCHANGED row
     ELSE /\ row' = [row EXCEPT ![q.user] = me]
          /\ Answer(t, [v EXCEPT !.me = me])
  /\ UNCHANGED <<sale, mailed>>

(* AuthTokenValidateView, and with force_reload_from_stripe in the body.    *)
Validate(t) ==
  LET q == tab[t] IN
  /\ Asks(t, Validations)
  /\ Answer(t, View(q, IF CookieUser(q, q.user) = None THEN "unauthorized" ELSE "ok"))
  /\ UNCHANGED <<row, sale, mailed>>

(* django.contrib.auth.login: a key is kept if it is this user's already.   *)
LogIn(t, u, me) ==
  LET q == tab[t]
      own == q.read # None /\ q.read.user = u /\ q.read.password = me.password
      Free(s) == /\ session[s] = None /\ cookie.sid # s
                 /\ \A x \in Tab : tab[x] # Idle => s \notin {tab[x].sid, tab[x].setSid}
  IN  \E key \in Sid :
        /\ IF own THEN key = q.sid ELSE Free(key)
        /\ Answer(t, [result |-> "ok", user |-> u, me |-> me, key |-> key,
                      data |-> IF own THEN q.read ELSE
                        [user |-> u, password |-> me.password, checkout |-> None]])

(* ModelAuthentication. A wrong password is refused. For who has none it     *)
(* answers None, and the serializer goes on to sign in None.                *)
Login(t) ==
  LET q == tab[t]
      r == row[q.who]
  IN
  /\ Asks(t, {"login"})
  /\ IF r = None THEN Answer(t, View(q, "refused"))
     ELSE IF q.who \in Social THEN Answer(t, View(q, "crashed"))
     ELSE \/ Answer(t, View(q, "refused"))
          \/ FullyAuthenticated(r) /\ LogIn(t, q.who, r)
          \/ ~ FullyAuthenticated(r) /\ Answer(t, View(q, "unauthorized"))
  /\ UNCHANGED <<row, sale, mailed>>

NewRow(verified) ==
  [active |-> TRUE, verified |-> verified, password |-> 0, customer |-> None]

(* get_or_create_from_social_token. A token that Google refuses changes      *)
(* nothing, and neither does one of somebody new who is not on the waitlist. *)
SocialLogin(t) ==
  LET q == tab[t]
      r == IF row[q.who] = None THEN NewRow(TRUE)
           ELSE [row[q.who] EXCEPT !.verified = TRUE]
  IN
  /\ Asks(t, {"social"})
  /\ \/ UNCHANGED row /\ Answer(t, View(q, "refused"))
     \/ /\ row' = [row EXCEPT ![q.who] = r]
        /\ IF r.active THEN LogIn(t, q.who, r) ELSE Answer(t, View(q, "unauthorized"))
  /\ UNCHANGED <<sale, mailed>>

Logout(t) ==
  /\ Asks(t, {"logout"})
  /\ Answer(t, View(tab[t], "ok"))
  /\ UNCHANGED <<row, sale, mailed>>

(* UserRegistrationView: who is not on the waitlist is refused. If the mail  *)
(* cannot be sent the user is told of an error, and the account is there.   *)
Register(t) ==
  LET q == tab[t] IN
  /\ Asks(t, {"register"})
  /\ \/ Answer(t, View(q, "refused")) /\ UNCHANGED <<row, mailed>>
     \/ /\ row[q.who] = None
        /\ row' = [row EXCEPT ![q.who] = NewRow(FALSE)]
        /\ \/ mailed' = mailed \cup {q.who} /\ Answer(t, View(q, "ok"))
           \/ UNCHANGED mailed /\ Answer(t, View(q, "refused"))
  /\ UNCHANGED sale

(* Whom VerifyEmailView and RecoverPasswordView send a mail, if it is taken. *)
MaySend(q) ==
  LET r == row[q.who] IN
  r # None /\ r.active /\ (r.verified <=> q.kind = "recover")

SendMail(t) ==
  LET q == tab[t] IN
  /\ Asks(t, {"ask", "recover"})
  /\ \/ MaySend(q) /\ mailed' = mailed \cup {q.who} /\ Answer(t, View(q, "ok"))
     \/ UNCHANGED mailed /\ Answer(t, View(q, "refused"))
  /\ UNCHANGED <<row, sale>>

(* EmailTokenValidateView and PasswordResetTokenValidateView: one column.   *)
FollowMail(t) ==
  LET q == tab[t]
      r == row[q.who]
      new == IF q.kind = "verify" THEN [r EXCEPT !.verified = TRUE]
             ELSE [r EXCEPT !.password = Fresh]
  IN
  /\ Asks(t, {"verify", "reset"})
  /\ IF q.who \in mailed /\ r.active /\ (r.verified <=> q.kind = "reset")
     THEN row' = [row EXCEPT ![q.who] = new] /\ Answer(t, View(q, "ok"))
     ELSE UNCHANGED row /\ Answer(t, View(q, "refused"))
  /\ UNCHANGED <<sale, mailed>>

AnswerRequest(t) ==
  /\ \/ TurnAway(t) \/ Serve(t) \/ UpdateUser(t) \/ ChangePassword(t)
     \/ BeginCheckout(t) \/ SyncCheckout(t) \/ Validate(t)
     \/ Login(t) \/ SocialLogin(t) \/ Logout(t)
     \/ Register(t) \/ SendMail(t) \/ FollowMail(t)
  /\ Noted

-----------------------------------------------------------------------------
(* What happens elsewhere. *)

(* At Stripe a checkout is paid, once the browser is sent there.            *)
Pay(c) ==
  /\ sale[c].by # None /\ sale[c].plan = None
  /\ \A t \in Tab : tab[t].kind = "checkout" => tab[t].sale # c
  /\ sale' = [sale EXCEPT ![c].plan = "active"]
  /\ UNCHANGED <<row, session, cookie, mailed, tab, since, mixed, out, begun, overlap>>

(* At Stripe a subscription ends or begins anew. An answer of a request that *)
(* nothing overlapped may as well have been delivered before.               *)
ChangePlan(c) ==
  /\ sale[c].plan # None
  /\ \A t \in Tab : tab[t] # Idle /\ tab[t].calm => tab[t].result = "sent"
  /\ sale' = [sale EXCEPT ![c].plan = IF @ = "active" THEN "expired" ELSE "active"]
  /\ UNCHANGED <<row, session, cookie, mailed, tab, mixed, out, begun, overlap>>
  /\ Noted

(* The cookie of the JWT runs out, and that of the session does not.        *)
Lapse ==
  /\ cookie.jwt # None
  /\ cookie' = [cookie EXCEPT !.jwt = None] /\ mixed' = TRUE
  /\ UNCHANGED <<row, sale, session, mailed, tab, since, out, begun, overlap>>

(* The token of a link runs out.                                            *)
ExpireMail(u) ==
  /\ u \in mailed
  /\ mailed' = mailed \ {u}
  /\ UNCHANGED <<row, sale, session, cookie, tab, since, mixed, out, begun, overlap>>

(* A user is barred, in the database: no request does it.                   *)
Disable(u) ==
  /\ row[u] # None /\ row[u].active
  /\ row' = [row EXCEPT ![u].active = FALSE] /\ begun' = None
  /\ UNCHANGED <<sale, session, cookie, mailed, tab, since, mixed, out, overlap>>

Init ==
  /\ row = [u \in User |-> None]
  /\ sale = [c \in Checkout |-> [by |-> None, plan |-> None]]
  /\ session = [s \in Sid |-> None]
  /\ cookie = [sid |-> None, jwt |-> None]
  /\ mailed = {} /\ tab = [t \in Tab |-> Idle]
  /\ since = [u \in User |-> {None}]
  /\ mixed = FALSE /\ out = FALSE /\ begun = None /\ overlap = 0

Next ==
  \/ \E t \in Tab :
       \/ \E kind \in Asked, who \in User \cup {None}, c \in Checkout \cup {None} :
            Send(t, kind, who, c)
       \/ AnswerRequest(t) \/ Deliver(t)
  \/ \E c \in Checkout : Pay(c) \/ ChangePlan(c)
  \/ \E u \in User : ExpireMail(u) \/ Disable(u)
  \/ Lapse

Spec == Init /\ [][Next]_vars

-----------------------------------------------------------------------------
(* Properties. *)

(* Every row is of a user with one customer at Stripe at most, of his own   *)
(* checkout and paid for: UserSyncStripeSerializer lets nobody take over    *)
(* what another one has paid.                                               *)
TypeOK ==
  /\ \A u \in User : row[u] # None =>
       /\ row[u].active \in BOOLEAN /\ row[u].verified \in BOOLEAN
       /\ row[u].password \in 0..MaxPassword
       /\ row[u].customer # None => /\ sale[row[u].customer].by = u
                                     /\ sale[row[u].customer].plan # None
  /\ \A c \in Checkout : sale[c].plan \in Plans
  /\ \A s \in Sid : session[s] # None => session[s].user \in User
  /\ cookie.sid \in Sid \cup {None} /\ mailed \subseteq User
  /\ \A t \in Tab : tab[t] # Idle => tab[t].kind \in Kinds

(* Whoever the session of the browser signs in, the JWT beside it is of the *)
(* same user, unless sign-ins have overlapped or the JWT ran out first: the *)
(* billing middleware answers anything else with an error of the server,    *)
(* and AuthTokenCookieMiddleware relies on noticing it in a validation.     *)
TokenGoesAlong ==
  LET u == UserOf(Loaded(cookie.sid)) IN
  u # None /\ ~ mixed => cookie.jwt # None /\ cookie.jwt.user = u

(* What the JWT says of a subscription, and what the next requests take     *)
(* over from it, is what Stripe has said of this user since his last        *)
(* sign-in, sync or forced reload. If other requests overlapped with that   *)
(* one, it may also be what one of them, still under way as its answer      *)
(* arrived, had been sent with, or what that answer itself says: a write    *)
(* that is answered later puts back what the reload has refuted.            *)
BillingTrue ==
  cookie.jwt # None => cookie.jwt.status \in since[cookie.jwt.user]

(* Who comes back from a paid checkout with the browser that began it, with *)
(* one request after the other, is linked to what he paid for.              *)
PaidIsLinked ==
  \A t \in Tab :
    LET q == tab[t] IN
    q # Idle /\ q.kind = "sync" /\ q.calm /\ q.due => q.result \in {"sent", "ok"}

(* Once signed out, a browser stays so until a sign-in is sent, whatever    *)
(* was under way: no late request saves the session anew. A sign-out while  *)
(* the cookies may come from two sign-ins (`mixed`) is excepted.            *)
StaysOut == out => UserOf(Loaded(cookie.sid)) = None
=============================================================================
