-------------------------- MODULE SessionsProofs --------------------------
(* Theorems about signing in and staying signed in, for any users, keys of  *)
(* sessions, checkouts and requests under way, and whatever the bounds are. *)
(* Each handler is first brought to what it may do to the rows, the         *)
(* checkouts and the sessions (Handles, Outcome); the invariants are then   *)
(* kept by a few kinds of steps, not by thirteen views.                     *)
EXTENDS Sessions, FiniteSetTheorems, TLAPS

-----------------------------------------------------------------------------
(* The shape of the state.                                                  *)

Results == {"sent", "ok", "unauthorized", "refused", "crashed", "interrupted"}

Requests ==
  [kind : Kinds, who : User \cup {None}, sale : Checkout \cup {None},
   sid : Sid \cup {None}, jwt : Tokens \cup {None}, read : Opened \cup {None},
   user : User \cup {None}, me : Rows \cup {None}, due : BOOLEAN, calm : BOOLEAN,
   result : Results, setSid : Sid \cup {None, Keep}, setJwt : Tokens \cup {None, Keep}]

Typed ==
  /\ row \in [User -> Rows \cup {None}]
  /\ sale \in [Checkout -> [by : User \cup {None}, plan : Plans]]
  /\ session \in [Sid -> Opened \cup {None}]
  /\ cookie \in [sid : Sid \cup {None}, jwt : Tokens \cup {None}]
  /\ mailed \in SUBSET User
  /\ tab \in [Tab -> Requests \cup {Idle}]
  /\ since \in [User -> SUBSET Plans]
  /\ mixed \in BOOLEAN /\ out \in BOOLEAN
  /\ begun \in Checkout \cup {None}

(* What a request brings with it until it is answered, and what is left of  *)
(* it afterwards.                                                           *)
Authenticating == Guarded \cup Validations

Fits(q) ==
  /\ q.result = "sent" =>
       /\ q.who # None <=> q.kind \in SignIns \cup Mailing
       /\ q.sale # None <=> q.kind \in {"checkout", "sync"}
       /\ q.kind \notin Authenticating => q.user = None /\ q.jwt = None
       /\ q.user # None =>
            q.me # None /\ q.read # None /\ q.read.user = q.user
       /\ q.read # None => q.sid # None
       /\ q.setSid = Keep /\ q.setJwt = Keep
  /\ q.result # "sent" =>
       /\ q.sid = None /\ q.jwt = None /\ q.read = None /\ q.me = None
       /\ q.setSid = Keep => q.setJwt = Keep

Formed == \A t \in Tab : tab[t] # Idle => Fits(tab[t])

(* Who has a link in his mail has an account.                               *)
Mails == \A u \in mailed : row[u] # None

-----------------------------------------------------------------------------

LEMMA IdleApart == Idle \notin Requests /\ Idle.kind \notin Kinds /\ Idle.result # "sent"
BY DEF Idle, Requests, Kinds, Guarded, Validations, SignIns, Mailing

(* A request is under way exactly if its kind is one of the kinds.          *)
LEMMA Busy ==
  ASSUME Typed, NEW t \in Tab
  PROVE  /\ tab[t] # Idle => tab[t] \in Requests /\ tab[t].kind \in Kinds
         /\ tab[t] = Idle => tab[t].kind \notin Kinds /\ tab[t].result # "sent"
BY IdleApart DEF Typed, Requests

LEMMA NonesApart ==
  /\ None # Keep /\ None \notin Rows /\ None \notin Opened /\ None \notin Tokens
  /\ Keep \notin Tokens /\ None \notin Sid /\ Keep \notin Sid /\ None \notin User
  /\ None \notin Checkout /\ None # "active" /\ None # "expired"
BY SessionsAssumption

-----------------------------------------------------------------------------
(* What a handler does.                                                     *)

(* v is of whoever asked; its session is the one that was read, but for the *)
(* checkout that it remembers.                                              *)
AsRead(q, v) ==
  /\ v.user = q.user /\ v.key = q.sid
  /\ q.read # None => /\ v.data \in Opened
                      /\ v.data.user = q.read.user /\ v.data.password = q.read.password
                      /\ q.kind \notin {"checkout", "sync"} => v.data = q.read
  /\ q.user # None => v.me \in Rows
  /\ v.result \in Results \ {"sent"}
  /\ v.result = "crashed" => q.kind \in SignIns
  /\ v.result = "unauthorized" => CookieUser(q, q.user) = None \/ Crashes(q)
  /\ q.kind \in Guarded /\ q.user = None => v.result = "unauthorized"
  /\ /\ q.kind = "sync" /\ q.user # None /\ q.me.customer = None
     /\ ~ SyncRefused(q)
     => v.result = "ok"

FreeKey(s) ==
  /\ session[s] = None /\ cookie.sid # s
  /\ \A x \in Tab : tab[x] # Idle => s \notin {tab[x].sid, tab[x].setSid}

(* v signs somebody in, under a key of his own or under a new one.          *)
AsSignedIn(q, v) ==
  /\ q.kind \in SignIns /\ v.result = "ok" /\ v.user \in User /\ v.me \in Rows
  /\ v.key \in Sid /\ v.data \in Opened /\ v.data.user = v.user
  /\ \/ v.key = q.sid /\ v.data = q.read
     \/ FreeKey(v.key) /\ v.data.password = v.me.password

(* Of the subscription, the user's row is as it was loaded, or it is linked *)
(* to the checkout of the request.                                          *)
AsBilled(q, v) ==
  /\ \/ /\ q.user # None => v.me.customer = q.me.customer
        /\ q.kind = "sync" => v.result # "ok"
     \/ /\ q.kind = "sync" /\ q.me.customer = None /\ v.me.customer = q.sale
        /\ row' = [row EXCEPT ![q.user] = v.me] /\ sale' = sale
        /\ sale[q.sale].by = q.user /\ sale[q.sale].plan # None
  /\ q.kind = "checkout" /\ v.result = "ok" =>
       v.data.checkout = q.sale /\ q.me.customer = None /\ sale'[q.sale].by = q.user

(* A request that has nothing to do with it keeps what there is.            *)
Harmless == {"read", "write", "profile"} \cup Validations

Keeps(q) ==
  /\ q.kind \in Harmless \cup {"checkout"} =>
       row' = row \/ (q.kind = "profile" /\ q.user # None
                      /\ row' = [row EXCEPT ![q.user] = q.me])
  /\ q.kind \in Harmless => sale' = sale

Handled(t, v) ==
  /\ tab[t] \in Requests /\ tab[t].result = "sent" /\ Answer(t, v)
  /\ \/ AsRead(tab[t], v) /\ AsBilled(tab[t], v)
     \/ /\ AsSignedIn(tab[t], v) /\ sale' = sale
        /\ row' \in [User -> Rows \cup {None}] /\ row'[v.user] = v.me
  /\ Keeps(tab[t])

LEMMA AskedBy ==
  ASSUME Typed, Formed, NEW t \in Tab, NEW K, K \subseteq Kinds, Asks(t, K)
  PROVE  /\ tab[t] \in Requests /\ tab[t] # Idle
         /\ tab[t].result = "sent" /\ tab[t].kind \in K /\ Fits(tab[t])
BY Busy DEF Asks, Formed

(* The plain view of a request is of whoever asked, with what was read.     *)
LEMMA ViewAsRead ==
  ASSUME NEW q \in Requests, Fits(q), q.result = "sent",
         NEW r \in {"ok", "refused"}, q.kind \in Guarded => q.user # None,
         r = "ok" => q.kind \notin {"checkout", "sync"},
         r = "refused" /\ q.kind = "sync" => q.me.customer # None
  PROVE  AsRead(q, View(q, r)) /\ AsBilled(q, View(q, r))
BY DEF AsRead, AsBilled, View, Requests, Fits, Results

LEMMA TurnedAwayAsRead ==
  ASSUME NEW q \in Requests, Fits(q), q.result = "sent", q.kind \notin Validations,
         NEW r \in {"unauthorized", "crashed"}, r = "crashed" => q.kind \in SignIns,
         q.user = None \/ Crashes(q)
  PROVE  AsRead(q, View(q, r)) /\ AsBilled(q, View(q, r))
BY DEF AsRead, AsBilled, View, Requests, Fits, Results, CookieUser, Crashes, Guarded, SignIns
(* What becomes of the row of a user u.                                     *)
CustomerFrom(t, u) ==
  \/ row'[u].customer = None
  \/ row[u] # None /\ row'[u].customer = row[u].customer
  \/ /\ tab[t].user = u /\ tab[t].me # None
     /\ row'[u].customer = tab[t].me.customer
  \/ /\ row'[u].customer = tab[t].sale /\ tab[t].sale \in Checkout
     /\ sale[tab[t].sale].by = u /\ sale[tab[t].sale].plan # None

PasswordFrom(t, u) ==
  \/ row'[u].password = 0
  \/ row[u] # None /\ row'[u].password = row[u].password
  \/ tab[t].me # None /\ row'[u].password = tab[t].me.password
  \/ tab[t].kind \in {"password", "reset"} /\ row'[u].password = Fresh

RowStep(t) ==
  /\ row' \in [User -> Rows \cup {None}]
  /\ \A u \in User :
       \/ row'[u] = row[u]
       \/ row'[u] # None /\ CustomerFrom(t, u) /\ PasswordFrom(t, u)

SaleStep(t) ==
  \/ sale' = sale
  \/ \E c \in Checkout : /\ sale[c].by = None /\ tab[t].user # None
                         /\ sale' = [sale EXCEPT ![c].by = tab[t].user]

MailStep == \A u \in mailed' : u \in mailed \/ (u \in User /\ row'[u] # None)

Handles(t) ==
  RowStep(t) /\ SaleStep(t) /\ MailStep /\ \E v : Handled(t, v)

LEMMA RowsKept ==
  ASSUME Typed, row' = row, sale' = sale, mailed' = mailed, NEW t \in Tab
  PROVE  RowStep(t) /\ SaleStep(t) /\ MailStep
BY DEF RowStep, SaleStep, MailStep, Typed

(* An answer with a plain view, the rows being as they were.                *)
LEMMA PlainHandled ==
  ASSUME Typed, NEW t \in Tab, tab[t] \in Requests, Fits(tab[t]),
         tab[t].result = "sent", row' = row, sale' = sale, mailed' = mailed,
         NEW r \in {"ok", "refused"}, Answer(t, View(tab[t], r)),
         tab[t].kind \in Guarded => tab[t].user # None,
         r = "ok" => tab[t].kind \notin {"checkout", "sync"},
         r = "refused" /\ tab[t].kind = "sync" => tab[t].me.customer # None
  PROVE  Handles(t)
<1> USE DEF Keeps, Harmless, Guarded, Validations, SignIns, Mailing, Admitted
<1>1. Handled(t, View(tab[t], r))  BY ViewAsRead DEF Handled, Keeps
<1> QED  BY <1>1, RowsKept DEF Handles

LEMMA TurnAwayHandles ==
  ASSUME Typed, Formed, NEW t \in Tab, TurnAway(t)
  PROVE  Handles(t)
<1> USE DEF Keeps, Harmless, Guarded, Validations, SignIns, Mailing, Admitted
<1>1. /\ tab[t] \in Requests /\ Fits(tab[t]) /\ tab[t].result = "sent"
      /\ tab[t].kind \in Guarded
  BY AskedBy DEF TurnAway, Kinds
<1>2. Answer(t, View(tab[t], "unauthorized")) /\ UNCHANGED <<row, sale, mailed>>
  BY DEF TurnAway
<1>3. Handled(t, View(tab[t], "unauthorized"))
  BY <1>1, <1>2, TurnedAwayAsRead DEF TurnAway, Admitted, Handled, Guarded, Validations
<1> QED  BY <1>2, <1>3, RowsKept DEF Handles

LEMMA ServeHandles ==
  ASSUME Typed, Formed, NEW t \in Tab, Serve(t)
  PROVE  Handles(t)
<1> USE DEF Keeps, Harmless, Guarded, Validations, SignIns, Mailing, Admitted
<1>1. /\ tab[t] \in Requests /\ Fits(tab[t]) /\ tab[t].result = "sent"
      /\ tab[t].kind \in {"read", "write"} /\ tab[t].user # None
  BY AskedBy DEF Serve, Kinds
<1> QED  BY <1>1, PlainHandled DEF Serve

LEMMA LogoutHandles ==
  ASSUME Typed, Formed, NEW t \in Tab, Logout(t)
  PROVE  Handles(t)
<1> USE DEF Keeps, Harmless, Guarded, Validations, SignIns, Mailing, Admitted
<1>1. /\ tab[t] \in Requests /\ Fits(tab[t]) /\ tab[t].result = "sent"
      /\ tab[t].kind = "logout"
  BY AskedBy DEF Logout, Kinds
<1> QED  BY <1>1, PlainHandled DEF Logout

LEMMA ValidateHandles ==
  ASSUME Typed, Formed, NEW t \in Tab, Validate(t)
  PROVE  Handles(t)
<1> USE DEF Keeps, Harmless, Guarded, Validations, SignIns, Mailing, Admitted
<1>1. /\ tab[t] \in Requests /\ Fits(tab[t]) /\ tab[t].result = "sent"
      /\ tab[t].kind \in Validations
  BY AskedBy DEF Validate, Kinds
<1>2. UNCHANGED <<row, sale, mailed>>  BY DEF Validate
<1>3. CASE CookieUser(tab[t], tab[t].user) = None
  <2>1. Answer(t, View(tab[t], "unauthorized"))  BY <1>3 DEF Validate
  <2>2. AsRead(tab[t], View(tab[t], "unauthorized"))
        /\ AsBilled(tab[t], View(tab[t], "unauthorized"))
    BY <1>1, <1>3 DEF AsRead, AsBilled, View, Requests, Fits, Results
  <2>3. Handled(t, View(tab[t], "unauthorized"))  BY <1>1, <1>2, <2>1, <2>2 DEF Handled
  <2> QED  BY <1>2, <2>3, RowsKept DEF Handles
<1>4. CASE CookieUser(tab[t], tab[t].user) # None
  BY <1>1, <1>2, <1>4, PlainHandled DEF Validate
<1> QED  BY <1>3, <1>4

LEMMA UpdateUserHandles ==
  ASSUME Typed, Formed, NEW t \in Tab, UpdateUser(t)
  PROVE  Handles(t)
<1> USE DEF Keeps, Harmless, Guarded, Validations, SignIns, Mailing, Admitted
<1> DEFINE q == tab[t]
<1>1. /\ q \in Requests /\ Fits(q) /\ q.result = "sent" /\ q.kind = "profile"
      /\ q.user \in User /\ q.user # None /\ q.me \in Rows /\ q.me # None
  BY AskedBy, NonesApart DEF UpdateUser, Kinds, Fits, Requests
<1>2. /\ row' = [row EXCEPT ![q.user] = q.me] /\ sale' = sale /\ mailed' = mailed
      /\ Answer(t, View(q, "ok"))
  BY DEF UpdateUser
<1>3. RowStep(t)
  BY <1>1, <1>2 DEF RowStep, CustomerFrom, PasswordFrom, Typed
<1>4. Handled(t, View(q, "ok"))  BY <1>1, <1>2, ViewAsRead DEF Handled
<1> QED  BY <1>2, <1>3, <1>4 DEF Handles, SaleStep, MailStep

LEMMA ChangePasswordHandles ==
  ASSUME Typed, Formed, NEW t \in Tab, ChangePassword(t), Fresh \in Nat
  PROVE  Handles(t)
<1> USE DEF Keeps, Harmless, Guarded, Validations, SignIns, Mailing, Admitted
<1> DEFINE q == tab[t]
           me == [q.me EXCEPT !.password = Fresh]
           v == [View(q, "ok") EXCEPT !.me = me]
<1>1. /\ q \in Requests /\ Fits(q) /\ q.result = "sent" /\ q.kind = "password"
      /\ q.user \in User /\ q.user # None /\ q.me \in Rows /\ q.me # None
  BY AskedBy, NonesApart DEF ChangePassword, Kinds, Fits, Requests
<1>2. CASE row' = row /\ Answer(t, View(q, "refused")) /\ UNCHANGED <<sale, mailed>>
  BY <1>1, <1>2, PlainHandled
<1>3. CASE row' = [row EXCEPT ![q.user] = me] /\ Answer(t, v) /\ UNCHANGED <<sale, mailed>>
  <2>1. me \in Rows /\ me.customer = q.me.customer /\ me.password = Fresh /\ me # None
    BY <1>1, NonesApart DEF Rows
  <2> HIDE DEF me
  <2>2. RowStep(t)
    BY <1>1, <1>3, <2>1 DEF RowStep, CustomerFrom, PasswordFrom, Typed
  <2>3. AsRead(q, v) /\ AsBilled(q, v)
    BY <1>1, <2>1 DEF AsRead, AsBilled, View, Requests, Fits, Results, CookieUser
  <2>4. Handled(t, v)  BY <1>1, <1>3, <2>3 DEF Handled
  <2> QED  BY <1>3, <2>2, <2>4 DEF Handles, SaleStep, MailStep
<1> QED  BY <1>2, <1>3 DEF ChangePassword

LEMMA BeginCheckoutHandles ==
  ASSUME Typed, Formed, NEW t \in Tab, BeginCheckout(t)
  PROVE  Handles(t)
<1> USE DEF Keeps, Harmless, Guarded, Validations, SignIns, Mailing, Admitted
<1> DEFINE q == tab[t]
           v == [View(q, "ok") EXCEPT !.data.checkout = q.sale]
<1>1. /\ q \in Requests /\ Fits(q) /\ q.result = "sent" /\ q.kind = "checkout"
      /\ q.user \in User /\ q.user # None
      /\ q.me \in Rows /\ q.read \in Opened /\ q.sale \in Checkout
  BY AskedBy, NonesApart DEF BeginCheckout, Kinds, Fits, Requests
<1>2. CASE row' = row /\ sale' = sale /\ mailed' = mailed /\ Answer(t, View(q, "refused"))
  BY <1>1, <1>2, PlainHandled
<1>3. CASE /\ sale[q.sale].by = None /\ sale' = [sale EXCEPT ![q.sale].by = q.user]
           /\ Answer(t, v) /\ row' = row /\ mailed' = mailed /\ q.me.customer = None
  <2>1. /\ v.result = "ok" /\ v.user = q.user /\ v.me = q.me /\ v.key = q.sid
        /\ v.data = [q.read EXCEPT !.checkout = q.sale]
    BY DEF View
  <2>0. /\ v.data \in Opened /\ v.data.user = q.read.user
        /\ v.data.password = q.read.password /\ v.data.checkout = q.sale
    BY <1>1, <2>1 DEF Opened
  <2>5. sale'[q.sale].by = q.user  BY <1>1, <1>3 DEF Typed
  <2> HIDE DEF v
  <2>6. AsRead(q, v) /\ AsBilled(q, v)
    BY <1>1, <1>3, <2>0, <2>1, <2>5 DEF AsRead, AsBilled, Results
  <2>2. Handled(t, v)  BY <1>1, <1>3, <2>6 DEF Handled
  <2>3. SaleStep(t)  BY <1>1, <1>3, NonesApart DEF SaleStep
  <2>4. RowStep(t) /\ MailStep  BY <1>3 DEF RowStep, MailStep, Typed
  <2> QED  BY <2>2, <2>3, <2>4 DEF Handles
<1> QED  BY <1>2, <1>3 DEF BeginCheckout

LEMMA SyncCheckoutHandles ==
  ASSUME Typed, Formed, NEW t \in Tab, SyncCheckout(t)
  PROVE  Handles(t)
<1> USE DEF Keeps, Harmless, Guarded, Validations, SignIns, Mailing, Admitted
<1> DEFINE q == tab[t]
           me == [q.me EXCEPT !.customer = q.sale]
           w == [View(q, "ok") EXCEPT !.data.checkout = None]
           no == [w EXCEPT !.result = "refused"]
           yes == [w EXCEPT !.me = me]
<1>1. /\ q \in Requests /\ Fits(q) /\ q.result = "sent" /\ q.kind = "sync"
      /\ q.user \in User /\ q.user # None /\ q.me \in Rows /\ q.me # None
      /\ q.read \in Opened /\ q.sale \in Checkout
  BY AskedBy, NonesApart DEF SyncCheckout, Kinds, Fits, Requests
<1>2. CASE /\ q.me.customer # None
           /\ row' = row /\ Answer(t, View(q, "refused")) /\ UNCHANGED <<sale, mailed>>
  BY <1>1, <1>2, PlainHandled
<1>3. CASE SyncRefused(q) /\ row' = row /\ Answer(t, no) /\ UNCHANGED <<sale, mailed>>
  <2>1. AsRead(q, no) /\ AsBilled(q, no)
    BY <1>1, <1>3 DEF AsRead, AsBilled, View, Requests, Fits, Results, CookieUser, Opened
  <2>2. Handled(t, no)  BY <1>1, <1>3, <2>1 DEF Handled
  <2> QED  BY <1>3, <2>2, RowsKept DEF Handles
<1>4. CASE /\ q.me.customer = None /\ ~ SyncRefused(q)
           /\ row' = [row EXCEPT ![q.user] = me] /\ Answer(t, yes)
           /\ UNCHANGED <<sale, mailed>>
  <2>1. me \in Rows /\ me.customer = q.sale /\ me.password = q.me.password /\ me # None
    BY <1>1, NonesApart DEF Rows
  <2> HIDE DEF me
  <2>2. sale[q.sale].by = q.user /\ sale[q.sale].plan # None
    BY <1>4 DEF SyncRefused
  <2>3. RowStep(t)
    BY <1>1, <1>4, <2>1, <2>2 DEF RowStep, CustomerFrom, PasswordFrom, Typed
  <2>4. AsRead(q, yes) /\ AsBilled(q, yes)
    BY <1>1, <1>4, <2>1, <2>2
    DEF AsRead, AsBilled, View, Requests, Fits, Results, CookieUser, Opened
  <2>5. Handled(t, yes)  BY <1>1, <1>4, <2>4 DEF Handled
  <2> QED  BY <1>4, <2>3, <2>5 DEF Handles, SaleStep, MailStep
<1> QED  BY <1>2, <1>3, <1>4 DEF SyncCheckout

(* Signing in a user u whose row is me.                                     *)
LEMMA LogInSigns ==
  ASSUME Typed, NEW t \in Tab, tab[t] \in Requests, Fits(tab[t]),
         tab[t].kind \in SignIns, NEW u \in User, NEW me \in Rows, LogIn(t, u, me)
  PROVE  \E v : Answer(t, v) /\ AsSignedIn(tab[t], v) /\ v.user = u /\ v.me = me
<1> DEFINE q == tab[t]
           opened == [user |-> u, password |-> me.password, checkout |-> None]
           own == q.read # None /\ q.read.user = u /\ q.read.password = me.password
           V(k, d) == [result |-> "ok", user |-> u, me |-> me, key |-> k, data |-> d]
<1>1. opened \in Opened  BY DEF Opened, Rows
<1>2. CASE own
  <2>1. PICK k \in Sid : k = q.sid /\ Answer(t, V(k, q.read))
    BY <1>2 DEF LogIn
  <2>2. AsSignedIn(q, V(k, q.read))
    BY <1>2, <2>1 DEF AsSignedIn, Requests
  <2> QED  BY <2>1, <2>2
<1>3. CASE ~ own
  <2>1. PICK k \in Sid : FreeKey(k) /\ Answer(t, V(k, opened))
    BY <1>3 DEF LogIn, FreeKey
  <2>2. AsSignedIn(q, V(k, opened))
    BY <1>1, <2>1 DEF AsSignedIn, Requests
  <2> QED  BY <2>1, <2>2
<1> QED  BY <1>2, <1>3

LEMMA LoginHandles ==
  ASSUME Typed, Formed, NEW t \in Tab, Login(t)
  PROVE  Handles(t)
<1> USE DEF Keeps, Harmless, Guarded, Validations, SignIns, Mailing, Admitted
<1> DEFINE q == tab[t]
<1>1. /\ q \in Requests /\ Fits(q) /\ q.result = "sent" /\ q.kind = "login"
      /\ q.who \in User /\ q.user = None
  BY AskedBy, NonesApart
  DEF Login, Kinds, SignIns, Guarded, Validations, Fits, Requests, Authenticating
<1>2. UNCHANGED <<row, sale, mailed>>  BY DEF Login
<1>3. CASE Answer(t, View(q, "refused"))
  BY <1>1, <1>2, <1>3, PlainHandled
<1>4. ASSUME NEW r \in {"unauthorized", "crashed"}, Answer(t, View(q, r))
      PROVE  Handles(t)
  <2>1. Handled(t, View(q, r))
    BY <1>1, <1>4, TurnedAwayAsRead DEF Handled, Validations, SignIns
  <2> QED  BY <1>2, <2>1, RowsKept DEF Handles
<1>5. CASE row[q.who] # None /\ LogIn(t, q.who, row[q.who])
  <2>1. row[q.who] \in Rows  BY <1>1, <1>5 DEF Typed
  <2>2. PICK v : Answer(t, v) /\ AsSignedIn(q, v) /\ v.user = q.who /\ v.me = row[q.who]
    BY <1>1, <1>5, <2>1, LogInSigns DEF SignIns
  <2>3. Handled(t, v)  BY <1>1, <1>2, <2>2 DEF Handled, Typed
  <2> QED  BY <1>2, <2>3, RowsKept DEF Handles
<1> QED  BY <1>3, <1>4, <1>5 DEF Login

LEMMA NewRowIsRow ==
  ASSUME NEW b \in BOOLEAN
  PROVE  NewRow(b) \in Rows /\ NewRow(b).customer = None /\ NewRow(b).password = 0
BY DEF NewRow, Rows

LEMMA SocialLoginHandles ==
  ASSUME Typed, Formed, NEW t \in Tab, SocialLogin(t)
  PROVE  Handles(t)
<1> USE DEF Keeps, Harmless, Guarded, Validations, SignIns, Mailing, Admitted
<1> DEFINE q == tab[t]
           r == IF row[q.who] = None THEN NewRow(TRUE)
                ELSE [row[q.who] EXCEPT !.verified = TRUE]
<1>1. /\ q \in Requests /\ Fits(q) /\ q.result = "sent" /\ q.kind = "social"
      /\ q.who \in User /\ q.user = None
  BY AskedBy, NonesApart
  DEF SocialLogin, Kinds, SignIns, Guarded, Validations, Fits, Requests, Authenticating
<1>2. sale' = sale /\ mailed' = mailed  BY DEF SocialLogin
<1>3. CASE row' = row /\ Answer(t, View(q, "refused"))
  BY <1>1, <1>2, <1>3, PlainHandled
<1>4. CASE /\ row' = [row EXCEPT ![q.who] = r]
           /\ IF r.active THEN LogIn(t, q.who, r) ELSE Answer(t, View(q, "unauthorized"))
  <2>1. /\ r \in Rows /\ r # None
        /\ \/ r.customer = None /\ r.password = 0
           \/ row[q.who] # None /\ r.customer = row[q.who].customer
              /\ r.password = row[q.who].password
    <3>1. CASE row[q.who] = None  BY <3>1, NewRowIsRow, NonesApart
    <3>2. CASE row[q.who] # None
      <4>1. row[q.who] \in Rows  BY <1>1, <3>2 DEF Typed
      <4>2. r = [row[q.who] EXCEPT !.verified = TRUE]  BY <3>2
      <4> QED  BY <3>2, <4>1, <4>2, NonesApart DEF Rows
    <3> QED  BY <3>1, <3>2
  <2> HIDE DEF r
  <2>2. RowStep(t)
    BY <1>1, <1>4, <2>1 DEF RowStep, CustomerFrom, PasswordFrom, Typed
  <2>3. SaleStep(t) /\ MailStep  BY <1>2 DEF SaleStep, MailStep
  <2>4. row' \in [User -> Rows \cup {None}] /\ row'[q.who] = r
    BY <1>1, <1>4, <2>1 DEF Typed
  <2>5. CASE LogIn(t, q.who, r)
    <3>1. PICK v : Answer(t, v) /\ AsSignedIn(q, v) /\ v.user = q.who /\ v.me = r
      BY <1>1, <2>1, <2>5, LogInSigns DEF SignIns
    <3>2. Handled(t, v)  BY <1>1, <1>2, <2>4, <3>1 DEF Handled
    <3> QED  BY <2>2, <2>3, <3>2 DEF Handles
  <2>6. CASE Answer(t, View(q, "unauthorized"))
    <3>1. Handled(t, View(q, "unauthorized"))
      BY <1>1, <2>6, TurnedAwayAsRead DEF Handled, Validations
    <3> QED  BY <2>2, <2>3, <3>1 DEF Handles
  <2> QED  BY <1>4, <2>5, <2>6
<1> QED  BY <1>3, <1>4 DEF SocialLogin

LEMMA RegisterHandles ==
  ASSUME Typed, Formed, NEW t \in Tab, Register(t)
  PROVE  Handles(t)
<1> USE DEF Keeps, Harmless, Guarded, Validations, SignIns, Mailing, Admitted
<1> DEFINE q == tab[t]
<1>1. /\ q \in Requests /\ Fits(q) /\ q.result = "sent" /\ q.kind = "register"
      /\ q.who \in User
  BY AskedBy, NonesApart DEF Register, Kinds, Mailing, Fits, Requests
<1>2. sale' = sale  BY DEF Register
<1>3. CASE row' = row /\ mailed' = mailed
  BY <1>1, <1>2, <1>3, PlainHandled DEF Register
<1>4. CASE row[q.who] = None /\ row' = [row EXCEPT ![q.who] = NewRow(FALSE)]
  <2>1. /\ \/ mailed' = mailed \cup {q.who}
           \/ mailed' = mailed
        /\ Answer(t, View(q, "ok")) \/ Answer(t, View(q, "refused"))
    BY <1>4 DEF Register
  <2>2. NewRow(FALSE) \in Rows /\ NewRow(FALSE).customer = None
        /\ NewRow(FALSE).password = 0 /\ NewRow(FALSE) # None
    BY NewRowIsRow, NonesApart
  <2>3. RowStep(t)
    BY <1>1, <1>4, <2>2 DEF RowStep, CustomerFrom, PasswordFrom, Typed
  <2>4. row'[q.who] # None  BY <1>1, <1>4, <2>2 DEF Typed
  <2>5. MailStep  BY <1>1, <2>1, <2>4 DEF MailStep
  <2>6. \E v : Handled(t, v)  BY <1>1, <2>1, ViewAsRead DEF Handled
  <2> QED  BY <1>2, <2>3, <2>5, <2>6 DEF Handles, SaleStep
<1> QED  BY <1>3, <1>4 DEF Register

LEMMA SendMailHandles ==
  ASSUME Typed, Formed, NEW t \in Tab, SendMail(t)
  PROVE  Handles(t)
<1> USE DEF Keeps, Harmless, Guarded, Validations, SignIns, Mailing, Admitted
<1> DEFINE q == tab[t]
<1>1. /\ q \in Requests /\ Fits(q) /\ q.result = "sent" /\ q.kind \in {"ask", "recover"}
      /\ q.who \in User
  BY AskedBy, NonesApart DEF SendMail, Kinds, Mailing, Fits, Requests
<1>2. row' = row /\ sale' = sale  BY DEF SendMail
<1>3. /\ \/ mailed' = mailed \cup {q.who} /\ row[q.who] # None
         \/ mailed' = mailed
      /\ Answer(t, View(q, "ok")) \/ Answer(t, View(q, "refused"))
  BY DEF SendMail, MaySend
<1>4. \E v : Handled(t, v)  BY <1>1, <1>2, <1>3, ViewAsRead DEF Handled
<1> QED  BY <1>1, <1>2, <1>3, <1>4 DEF Handles, RowStep, SaleStep, MailStep, Typed

LEMMA FollowMailHandles ==
  ASSUME Typed, Formed, Mails, NEW t \in Tab, FollowMail(t), Fresh \in Nat
  PROVE  Handles(t)
<1> USE DEF Keeps, Harmless, Guarded, Validations, SignIns, Mailing, Admitted
<1> DEFINE q == tab[t]
           r == row[q.who]
           new == IF q.kind = "verify" THEN [r EXCEPT !.verified = TRUE]
                  ELSE [r EXCEPT !.password = Fresh]
<1>1. /\ q \in Requests /\ Fits(q) /\ q.result = "sent" /\ q.kind \in {"verify", "reset"}
      /\ q.who \in User
  BY AskedBy, NonesApart DEF FollowMail, Kinds, Mailing, Fits, Requests
<1>2. sale' = sale /\ mailed' = mailed  BY DEF FollowMail
<1>3. CASE row' = row /\ Answer(t, View(q, "refused"))
  BY <1>1, <1>2, <1>3, PlainHandled
<1>4. CASE /\ q.who \in mailed /\ row' = [row EXCEPT ![q.who] = new]
           /\ Answer(t, View(q, "ok"))
  <2>1. r \in Rows  BY <1>1, <1>4 DEF Typed, Mails
  <2>2. /\ new \in Rows /\ new # None /\ new.customer = r.customer
        /\ new.password = r.password \/ (q.kind = "reset" /\ new.password = Fresh)
    <3>1. CASE q.kind = "verify"
      <4>1. new = [r EXCEPT !.verified = TRUE]  BY <3>1
      <4> QED  BY <2>1, <4>1, NonesApart DEF Rows
    <3>2. CASE q.kind = "reset"
      <4>1. new = [r EXCEPT !.password = Fresh]  BY <3>2
      <4> QED  BY <2>1, <3>2, <4>1, NonesApart DEF Rows
    <3> QED  BY <1>1, <3>1, <3>2
  <2>3. r # None  BY <2>1, NonesApart
  <2> HIDE DEF new
  <2>4. RowStep(t)
    BY <1>1, <1>4, <2>2, <2>3 DEF RowStep, CustomerFrom, PasswordFrom, Typed
  <2>5. Handled(t, View(q, "ok"))  BY <1>1, <1>4, ViewAsRead DEF Handled
  <2> QED  BY <1>2, <2>4, <2>5 DEF Handles, SaleStep, MailStep
<1> QED  BY <1>3, <1>4 DEF FollowMail

LEMMA FreshIsNat == Fresh \in 1 .. MaxPassword + 1
<1> DEFINE S == {n \in 1..MaxPassword :
             \/ \E u \in User : row[u] # None /\ row[u].password >= n
             \/ \E s \in Sid : session[s] # None /\ session[s].password >= n
             \/ \E t \in Tab : tab[t] # Idle /\ tab[t].me # None
                               /\ tab[t].me.password >= n}
<1>1. MaxPassword \in Nat  BY SessionsAssumption
<1>2. IsFiniteSet(1..MaxPassword) /\ Cardinality(1..MaxPassword) = MaxPassword
  BY <1>1, FS_Interval
<1>3. S \subseteq 1..MaxPassword  OBVIOUS
<1> HIDE DEF S
<1>4. Cardinality(S) \in Nat /\ Cardinality(S) <= MaxPassword
  BY <1>1, <1>2, <1>3, FS_Subset, FS_CardinalityType
<1>5. Fresh = 1 + Cardinality(S)  BY DEF Fresh, S
<1> QED  BY <1>1, <1>4, <1>5

LEMMA AnswerHandles ==
  ASSUME Typed, Formed, Mails, NEW t \in Tab, AnswerRequest(t)
  PROVE  Handles(t)
<1> USE FreshIsNat, SessionsAssumption
<1>1. Fresh \in Nat  OBVIOUS
<1> QED
  BY <1>1, TurnAwayHandles, ServeHandles, UpdateUserHandles, ChangePasswordHandles,
     BeginCheckoutHandles, SyncCheckoutHandles, ValidateHandles, LoginHandles,
     SocialLoginHandles, LogoutHandles, RegisterHandles, SendMailHandles,
     FollowMailHandles DEF AnswerRequest

-----------------------------------------------------------------------------
(* What an answer comes to.                                                 *)

Live(k) == k \in Sid /\ session[k] # None

(* Where the status in a new JWT comes from.                                *)
StatusFrom(q, me, s) ==
  \/ me.customer = None /\ s = None
  \/ /\ me.customer \in Checkout /\ s = sale[me.customer].plan
     /\ \/ q.kind \in SignIns \cup {"revalidate"}
        \/ q.kind = "sync" /\ q.me.customer = None
  \/ /\ me.customer # None /\ q.jwt \in Tokens /\ q.jwt.user = q.user /\ s = q.jwt.status
     /\ q.kind \notin SignIns \cup {"revalidate"}
     /\ ~ (q.kind = "sync" /\ q.me.customer = None)

(* The cookies stay as they are: the billing of the request cannot be told, *)
(* or its session is gone.                                                  *)
LeavesAlone(t) ==
  /\ session' = session
  /\ \/ Answered(t, "crashed", Keep, Keep) /\ tab[t].user # None /\ Crashes(tab[t])
     \/ /\ Answered(t, "interrupted", Keep, Keep)
        /\ ~ Live(tab[t].sid) /\ tab[t].read # None /\ tab[t].kind # "logout"

LogsOut(t) ==
  \E r \in Results \ {"sent"}, j \in {None, Keep} :
    /\ Answered(t, r, None, j)
    /\ tab[t].kind \in Guarded => tab[t].user = None /\ r = "unauthorized"
    /\ \/ session' = [session EXCEPT ![tab[t].sid] = None]
       \/ tab[t].kind \in SignIns /\ session' = session

SavesAs(t, v, j) ==
  LET q == tab[t] IN
  /\ q.user # None /\ Live(q.sid) /\ q.read \in Opened /\ q.read.user = q.user
  /\ AsRead(q, v) /\ AsBilled(q, v) /\ q.kind \in Authenticating
  /\ session' = [session EXCEPT ![q.sid] = v.data] /\ Answered(t, v.result, q.sid, j)
  /\ j = Keep => q.kind = "read"
  /\ j # Keep =>
       /\ j \in Tokens /\ j.user = q.user
       /\ \E me \in Rows : /\ StatusFrom(q, me, j.status)
                           /\ me = IF q.kind \in Validations THEN row[q.user] ELSE v.me

SignsIn(t, v, j) ==
  LET q == tab[t] IN
  /\ AsSignedIn(q, v) /\ sale' = sale /\ row'[v.user] = v.me
  /\ v.key = q.sid => Live(q.sid)
  /\ session' = [session EXCEPT ![q.sid] = None, ![v.key] = v.data]
  /\ Answered(t, "ok", v.key, j)
  /\ j \in Tokens /\ j.user = v.user /\ StatusFrom(q, v.me, j.status)

Outcome(t) ==
  LeavesAlone(t) \/ LogsOut(t) \/ (\E v, j : SavesAs(t, v, j)) \/ (\E v, j : SignsIn(t, v, j))

LEMMA StatusIsFrom ==
  ASSUME Typed, NEW q \in Requests, Fits(q), q.result = "sent", NEW me \in Rows,
         q.kind \in SignIns \/ (q.user # None /\ q.jwt \in Tokens /\ q.jwt.user = q.user)
                            \/ me.customer = None
                            \/ (q.kind = "sync" /\ q.me.customer = None)
  PROVE  StatusFrom(q, me, BillingStatus(q, me)) /\ BillingStatus(q, me) \in Plans
<1>1. me.customer \in Checkout \cup {None}  BY DEF Rows
<1>2. CASE me.customer = None  BY <1>2 DEF BillingStatus, StatusFrom, Plans
<1>3. CASE /\ me.customer # None
           /\ \/ q.kind \in SignIns \cup {"revalidate"}
              \/ q.kind = "sync" /\ q.me.customer = None
  <2>1. BillingStatus(q, me) = sale[me.customer].plan  BY <1>3 DEF BillingStatus
  <2>2. sale[me.customer].plan \in Plans  BY <1>1, <1>3 DEF Typed
  <2> QED  BY <1>1, <1>3, <2>1, <2>2 DEF StatusFrom
<1>4. CASE /\ me.customer # None
           /\ ~ \/ q.kind \in SignIns \cup {"revalidate"}
                \/ q.kind = "sync" /\ q.me.customer = None
  <2>1. BillingStatus(q, me) = q.jwt.status  BY <1>4 DEF BillingStatus
  <2>2. q.jwt \in Tokens /\ q.jwt.user = q.user /\ q.jwt.status \in Plans
    BY <1>4 DEF Tokens
  <2> QED  BY <1>4, <2>1, <2>2 DEF StatusFrom
<1> QED  BY <1>2, <1>3, <1>4

LEMMA ReadAnswered ==
  ASSUME Typed, NEW t \in Tab, tab[t] \in Requests, Fits(tab[t]), tab[t].result = "sent",
         NEW v, Answer(t, v), AsRead(tab[t], v), AsBilled(tab[t], v)
  PROVE  LeavesAlone(t) \/ LogsOut(t) \/ (\E j : SavesAs(t, v, j))
<1> DEFINE q == tab[t]
           user == CookieUser(q, v.user)
           logout == user = None \/ user # v.user
           me == IF q.kind \in Validations THEN row[user] ELSE v.me
           j == [user |-> user, status |-> BillingStatus(q, me)]
<1>0. v.user = q.user /\ v.key = q.sid /\ v.result \in Results \ {"sent"}  BY DEF AsRead
<1>1. CASE Crashes(q)
  BY <1>1 DEF Answer, LeavesAlone, Crashes
<1>2. CASE ~ Crashes(q) /\ logout
  <2>1. Answered(t, v.result, None, IF q.kind = "logout" THEN None ELSE Keep)
    BY <1>2 DEF Answer
  <2>2. session' = IF v.result = "crashed" THEN session
                   ELSE [session EXCEPT ![q.sid] = None]
    BY <1>2 DEF Answer
  <2>3. \/ session' = [session EXCEPT ![q.sid] = None]
        \/ q.kind \in SignIns /\ session' = session
    BY <2>2 DEF AsRead
  <2>4. q.kind \in Guarded => q.user = None /\ v.result = "unauthorized"
    BY <1>0, <1>2 DEF CookieUser, Guarded, Validations, AsRead
  <2> QED  BY <1>0, <2>1, <2>3, <2>4 DEF LogsOut
<1>3. CASE ~ Crashes(q) /\ ~ logout /\ Interrupted(q, v)
  BY <1>0, <1>3 DEF Answer, LeavesAlone, Interrupted, Live, Fits, Authenticating,
     Guarded, Validations
<1>4. CASE ~ Crashes(q) /\ ~ logout /\ ~ Interrupted(q, v)
  <2>1. /\ q.user # None /\ user = q.user /\ q.user \in User
        /\ q.kind \in Authenticating /\ q.read \in Opened /\ q.read.user = q.user
        /\ q.sid \in Sid /\ q.me \in Rows
    BY <1>0, <1>4 DEF Fits, Requests
  <2>2. Live(q.sid)  BY <1>0, <1>4, <2>1 DEF Interrupted, Live
  <2>3. session' = [session EXCEPT ![q.sid] = v.data]
    BY <1>0, <1>4, <2>1 DEF Answer, Typed
  <2>4. Answered(t, v.result, q.sid, IF ShouldPersist(q, v) THEN j ELSE Keep)
    BY <1>0, <1>4 DEF Answer
  <2>5. q.kind \in Validations =>
          q.jwt \in Tokens /\ q.jwt.user = q.user /\ row[q.user] \in Rows
    BY <1>0, <2>1 DEF CookieUser, FullyAuthenticated, Typed, Requests
  <2>6. me \in Rows /\ me = IF q.kind \in Validations THEN row[q.user] ELSE v.me
    BY <2>1, <2>5 DEF AsRead
  <2>7. \/ q.jwt \in Tokens /\ q.jwt.user = q.user
        \/ me.customer = None
        \/ q.kind = "sync" /\ q.me.customer = None
    <3>1. CASE q.kind \in Validations  BY <2>5, <3>1
    <3>2. CASE q.kind \notin Validations /\ v.me.customer = q.me.customer
      BY <1>4, <2>1, <3>2 DEF Crashes, Requests, Validations
    <3> QED  BY <2>1, <3>1, <3>2 DEF AsBilled, Validations
  <2> HIDE DEF me
  <2>8. StatusFrom(q, me, BillingStatus(q, me)) /\ BillingStatus(q, me) \in Plans
    BY <2>1, <2>6, <2>7, StatusIsFrom
  <2>9. j \in Tokens /\ j.user = q.user /\ j.status = BillingStatus(q, me)
    BY <2>1, <2>8 DEF Tokens
  <2>10. ~ ShouldPersist(q, v) => q.kind = "read"
    BY <1>0, <1>4, <2>1 DEF ShouldPersist, AsRead, CookieUser, Authenticating
  <2> HIDE DEF j, user
  <2>11. CASE ShouldPersist(q, v)
    <3>1. Answered(t, v.result, q.sid, j)  BY <2>4, <2>11
    <3>2. j # Keep  BY <2>9, NonesApart
    <3>3. SavesAs(t, v, j)
      BY <2>1, <2>2, <2>3, <2>6, <2>8, <2>9, <3>1, <3>2 DEF SavesAs
    <3> QED  BY <3>3
  <2>12. CASE ~ ShouldPersist(q, v)
    <3>1. Answered(t, v.result, q.sid, Keep)  BY <2>4, <2>12
    <3>2. SavesAs(t, v, Keep)
      BY <2>1, <2>2, <2>3, <2>10, <2>12, <3>1 DEF SavesAs
    <3> QED  BY <3>2
  <2> QED  BY <2>11, <2>12
<1> QED  BY <1>1, <1>2, <1>3, <1>4

LEMMA SignInAnswered ==
  ASSUME Typed, NEW t \in Tab, tab[t] \in Requests, Fits(tab[t]), tab[t].result = "sent",
         NEW v, Answer(t, v), AsSignedIn(tab[t], v), sale' = sale, row'[v.user] = v.me
  PROVE  LeavesAlone(t) \/ (\E j : SignsIn(t, v, j))
<1> DEFINE q == tab[t]
           j == [user |-> v.user, status |-> BillingStatus(q, v.me)]
<1>1. /\ q.user = None /\ ~ Crashes(q) /\ q.kind \notin Validations /\ q.kind # "read"
      /\ CookieUser(q, v.user) = v.user /\ v.user # None /\ v.me \in Rows
      /\ v.result = "ok" /\ q.kind # "logout"
  BY NonesApart DEF AsSignedIn, Fits, Crashes, CookieUser, Authenticating, SignIns,
     Validations, Guarded
<1>2. CASE Interrupted(q, v)
  <2>1. q.read # None
    BY <1>2, NonesApart, IdleApart DEF Interrupted, AsSignedIn, FreeKey
  <2> QED  BY <1>1, <1>2, <2>1 DEF Answer, LeavesAlone, Interrupted, Live
<1>3. CASE ~ Interrupted(q, v)
  <2>1. session' = [session EXCEPT ![q.sid] = None, ![v.key] = v.data]
    BY <1>1, <1>3 DEF Answer
  <2>2. ShouldPersist(q, v)  BY <1>1 DEF ShouldPersist
  <2>3. Answered(t, "ok", v.key, j)
    BY <1>1, <1>3, <2>2 DEF Answer
  <2>4. v.key = q.sid => Live(q.sid)
    BY <1>3 DEF Interrupted, Live, AsSignedIn
  <2>5. StatusFrom(q, v.me, BillingStatus(q, v.me)) /\ BillingStatus(q, v.me) \in Plans
    BY <1>1, StatusIsFrom DEF AsSignedIn
  <2>6. j \in Tokens /\ j.user = v.user /\ j.status = BillingStatus(q, v.me)
    BY <2>5 DEF Tokens, AsSignedIn
  <2> HIDE DEF j
  <2>7. SignsIn(t, v, j)  BY <2>1, <2>3, <2>4, <2>5, <2>6 DEF SignsIn
  <2> QED  BY <2>7
<1> QED  BY <1>2, <1>3

LEMMA AnswerRequestDoes ==
  ASSUME Typed, Formed, Mails, NEW t \in Tab, AnswerRequest(t)
  PROVE  /\ tab[t] \in Requests /\ Fits(tab[t]) /\ tab[t].result = "sent"
         /\ RowStep(t) /\ SaleStep(t) /\ MailStep
         /\ Keeps(tab[t]) /\ Outcome(t)
         /\ out' = (out \/ (tab[t].kind = "logout" /\ ~ mixed))
         /\ UNCHANGED <<cookie, mixed, begun, overlap>>
         /\ Noted
<1>1. Handles(t)  BY AnswerHandles
<1>2. PICK v : Handled(t, v)  BY <1>1 DEF Handles
<1>3. /\ tab[t] \in Requests /\ Fits(tab[t]) /\ tab[t].result = "sent" /\ Answer(t, v)
  BY <1>2, IdleApart DEF Handled, Formed
<1>4. Outcome(t)
  BY <1>2, <1>3, ReadAnswered, SignInAnswered DEF Handled, Outcome
<1> QED  BY <1>1, <1>2, <1>3, <1>4 DEF Handles, Handled, Answer, AnswerRequest

-----------------------------------------------------------------------------
(* What each action does, field by field.                                   *)

(* Request t gets an answer, and only its outcome and its cookies change.   *)
GetsAnswer(t) ==
  /\ tab' \in [Tab -> Requests \cup {Idle}]
  /\ \A x \in Tab : x # t => tab'[x] = tab[x]
  /\ tab'[t] \in Requests /\ tab'[t] # Idle /\ Fits(tab'[t])
  /\ tab'[t].result # "sent" /\ tab'[t].sid = None
  /\ tab'[t].me = None /\ tab'[t].jwt = None
  /\ tab'[t].kind = tab[t].kind /\ tab'[t].calm = tab[t].calm
  /\ tab'[t].user = tab[t].user /\ tab'[t].due = tab[t].due
  /\ tab'[t].sale = tab[t].sale

LEMMA AnsweredDoes ==
  ASSUME Typed, NEW t \in Tab, tab[t] \in Requests, NEW r \in Results \ {"sent"},
         NEW sid \in Sid \cup {None, Keep}, NEW j \in Tokens \cup {None, Keep},
         sid = Keep => j = Keep, Answered(t, r, sid, j)
  PROVE  /\ GetsAnswer(t)
         /\ tab'[t].result = r /\ tab'[t].setSid = sid /\ tab'[t].setJwt = j
<1> DEFINE q == [tab[t] EXCEPT !.result = r, !.setSid = sid, !.setJwt = j, !.sid = None,
                               !.who = None, !.jwt = None, !.read = None, !.me = None]
<1>1. tab' = [tab EXCEPT ![t] = q]  BY DEF Answered
<1>2. /\ q \in Requests /\ q.kind = tab[t].kind /\ q.calm = tab[t].calm
      /\ q.user = tab[t].user /\ q.due = tab[t].due /\ q.sale = tab[t].sale
      /\ q.result = r /\ q.setSid = sid /\ q.setJwt = j
      /\ q.sid = None /\ q.me = None /\ q.jwt = None /\ q.read = None
  BY DEF Requests
<1> HIDE DEF q
<1>3. q # Idle  BY <1>2, IdleApart
<1>4. Fits(q)  BY <1>2 DEF Fits
<1> QED  BY <1>1, <1>2, <1>3, <1>4 DEF GetsAnswer, Typed

Asking(q, kind, who, c) ==
  /\ q.kind = kind /\ q.who = who /\ q.sale = c /\ q.sid = cookie.sid
  /\ q.read = IF kind = "logout" THEN None ELSE Loaded(cookie.sid)
  /\ kind \in Authenticating => q.jwt = cookie.jwt /\ q.user = UserOf(Loaded(cookie.sid))
  /\ q.user # None => q.me = row[q.user]
  /\ q.user = None => q.me = None
  /\ q.due = TRUE <=> (c # None /\ c = begun /\ sale[c].plan # None)
  /\ q.calm = TRUE <=> Calm
  /\ q.result = "sent"

LEMMA LoadedIs ==
  ASSUME Typed
  PROVE  /\ Loaded(cookie.sid) \in Opened \cup {None}
         /\ Loaded(cookie.sid) # None => cookie.sid \in Sid /\ Live(cookie.sid)
                                         /\ Loaded(cookie.sid) = session[cookie.sid]
         /\ UserOf(Loaded(cookie.sid)) \in User \cup {None}
         /\ UserOf(Loaded(cookie.sid)) # None =>
              /\ Loaded(cookie.sid) # None
              /\ Loaded(cookie.sid).user = UserOf(Loaded(cookie.sid))
              /\ row[UserOf(Loaded(cookie.sid))] \in Rows
<1>1. /\ Loaded(cookie.sid) \in Opened \cup {None}
      /\ Loaded(cookie.sid) # None => cookie.sid \in Sid /\ Live(cookie.sid)
                                      /\ Loaded(cookie.sid) = session[cookie.sid]
  BY NonesApart DEF Loaded, Typed, Live
<1> DEFINE s == Loaded(cookie.sid)
<1> HIDE DEF s
<1>2. s # None => s.user \in User  BY <1>1 DEF Opened, s
<1>3. UserOf(s) # None => SignedIn(s) /\ UserOf(s) = s.user  BY DEF UserOf
<1>4. SignedIn(s) => s # None /\ row[s.user] # None  BY DEF SignedIn, FullyAuthenticated
<1>5. UserOf(s) \in User \cup {None}  BY <1>2, <1>3, <1>4
<1>6. UserOf(s) # None => row[UserOf(s)] \in Rows  BY <1>2, <1>3, <1>4 DEF Typed
<1> QED  BY <1>1, <1>3, <1>4, <1>5, <1>6 DEF s

LEMMA SendDoes ==
  ASSUME Typed, NEW t \in Tab, NEW kind \in Asked,
         NEW who \in User \cup {None}, NEW c \in Checkout \cup {None}, Send(t, kind, who, c)
  PROVE  /\ tab[t] = Idle /\ Sensible(kind, who, c)
         /\ \E q \in Requests :
              /\ Asking(q, kind, who, c) /\ Fits(q)
              /\ tab' = [x \in Tab |-> IF x # t THEN Overlapped(tab[x]) ELSE q]
         /\ UNCHANGED <<row, sale, session, cookie, mailed, since>>
<1> DEFINE s == Loaded(cookie.sid)
           auth == kind \in Guarded \cup Validations
           u == IF auth THEN UserOf(s) ELSE None
           q == [kind |-> kind, who |-> who, sale |-> c, sid |-> cookie.sid,
                 jwt |-> IF auth THEN cookie.jwt ELSE None,
                 read |-> IF kind = "logout" THEN None ELSE s, user |-> u,
                 me |-> IF u = None THEN None ELSE row[u],
                 due |-> c # None /\ c = begun /\ sale[c].plan # None,
                 calm |-> Calm, result |-> "sent", setSid |-> Keep, setJwt |-> Keep]
<1>1. /\ tab[t] = Idle /\ Sensible(kind, who, c)
      /\ tab' = [x \in Tab |-> IF x # t THEN Overlapped(tab[x]) ELSE q]
      /\ UNCHANGED <<row, sale, session, cookie, mailed, since>>
  BY DEF Send
<1>2. kind \in Kinds  BY SessionsAssumption
<1>3. cookie.sid \in Sid \cup {None} /\ cookie.jwt \in Tokens \cup {None}  BY DEF Typed
<1>4. /\ s \in Opened \cup {None} /\ u \in User \cup {None}
      /\ s # None => cookie.sid \in Sid
      /\ u # None => s # None /\ s.user = u /\ row[u] \in Rows /\ auth /\ u = UserOf(s)
      /\ auth => u = UserOf(s)
  BY LoadedIs
<1>5. u # None => kind # "logout"
  BY <1>4 DEF Guarded, Validations
<1> DEFINE due == c # None /\ c = begun /\ sale[c].plan # None
           calm == Calm
           jwt == IF auth THEN cookie.jwt ELSE None
           read == IF kind = "logout" THEN None ELSE s
           me == IF u = None THEN None ELSE row[u]
           p == [kind |-> kind, who |-> who, sale |-> c, sid |-> cookie.sid,
                 jwt |-> jwt, read |-> read, user |-> u, me |-> me, due |-> due,
                 calm |-> calm, result |-> "sent", setSid |-> Keep, setJwt |-> Keep]
<1>6. due \in BOOLEAN /\ calm \in BOOLEAN  BY DEF Calm
<1>7. /\ jwt \in Tokens \cup {None} /\ read \in Opened \cup {None} /\ me \in Rows \cup {None}
      /\ auth => jwt = cookie.jwt
      /\ ~ auth => jwt = None /\ u = None
      /\ u # None => me = row[u] /\ me # None /\ read # None /\ read.user = u
      /\ u = None => me = None
      /\ read # None => cookie.sid # None
  BY <1>3, <1>4, <1>5, NonesApart
<1>8. q = p  OBVIOUS
<1>9. (calm = TRUE <=> Calm) /\ (due = TRUE <=> (c # None /\ c = begun /\ sale[c].plan # None))
  OBVIOUS
<1>10. read = IF kind = "logout" THEN None ELSE Loaded(cookie.sid)  OBVIOUS
<1>11. u \in User \cup {None} /\ (auth => u = UserOf(Loaded(cookie.sid)))  BY <1>4
<1>12. auth <=> kind \in Authenticating  BY DEF Authenticating
<1> HIDE DEF due, calm, jwt, read, me, u, auth, s, q
<1>13. /\ p \in Requests /\ p.kind = kind /\ p.who = who /\ p.sale = c /\ p.sid = cookie.sid
       /\ p.jwt = jwt /\ p.read = read /\ p.user = u /\ p.me = me /\ p.due = due
       /\ p.calm = calm /\ p.result = "sent" /\ p.setSid = Keep /\ p.setJwt = Keep
  BY <1>2, <1>3, <1>6, <1>7, <1>11 DEF Requests, Results
<1> HIDE DEF p
<1>14. Asking(p, kind, who, c)
  BY <1>7, <1>9, <1>10, <1>11, <1>12, <1>13 DEF Asking
<1>15. (who # None <=> kind \in SignIns \cup Mailing)
       /\ (c # None <=> kind \in {"checkout", "sync"})
  BY <1>1 DEF Sensible
<1>16. Fits(p)  BY <1>7, <1>12, <1>13, <1>15 DEF Fits
<1> QED  BY <1>1, <1>8, <1>13, <1>14, <1>16

(* A request that another one overlaps is as it was, but no longer alone.   *)
LEMMA OverlappedIs ==
  ASSUME Typed, NEW x \in Tab
  PROVE  /\ tab[x] = Idle => Overlapped(tab[x]) = Idle
         /\ tab[x] # Idle =>
              LET q == tab[x]  p == Overlapped(q) IN
              /\ p \in Requests /\ p # Idle /\ p.calm = FALSE /\ (Fits(q) => Fits(p))
              /\ p.kind = q.kind /\ p.user = q.user /\ p.sid = q.sid /\ p.jwt = q.jwt
              /\ p.read = q.read /\ p.me = q.me /\ p.result = q.result /\ p.sale = q.sale
              /\ p.setSid = q.setSid /\ p.setJwt = q.setJwt
<1>1. CASE tab[x] # Idle
  <2>1. PICK q \in Requests : q = tab[x]  BY <1>1, Busy
  <2> DEFINE no == FALSE
             p == [q EXCEPT !.calm = no]
  <2>2. no \in BOOLEAN /\ no = FALSE  OBVIOUS
  <2>3. Overlapped(tab[x]) = p  BY <1>1, <2>1 DEF Overlapped
  <2> HIDE DEF no
  <2>4. /\ p \in Requests /\ p.calm = no
        /\ p.kind = q.kind /\ p.user = q.user /\ p.sid = q.sid /\ p.jwt = q.jwt
        /\ p.read = q.read /\ p.me = q.me /\ p.result = q.result /\ p.sale = q.sale
        /\ p.setSid = q.setSid /\ p.setJwt = q.setJwt /\ p.who = q.who
    BY <2>2 DEF Requests
  <2> HIDE DEF p
  <2>5. p # Idle  BY <2>4, IdleApart
  <2>6. Fits(q) => Fits(p)  BY <2>4 DEF Fits
  <2> QED  BY <1>1, <2>1, <2>2, <2>3, <2>4, <2>5, <2>6
<1> QED  BY <1>1 DEF Overlapped

(* The keys of sessions that somebody still has.                            *)
Held(k) ==
  \/ k = cookie.sid
  \/ \E x \in Tab : tab[x] # Idle /\ k \in {tab[x].sid, tab[x].setSid}

LEMMA DeliverDoes ==
  ASSUME Typed, NEW t \in Tab, Deliver(t)
  PROVE  /\ tab[t] \in Requests /\ tab[t] # Idle /\ tab[t].result # "sent"
         /\ cookie' \in [sid : Sid \cup {None}, jwt : Tokens \cup {None}]
         /\ cookie'.sid = IF tab[t].setSid = Keep THEN cookie.sid ELSE tab[t].setSid
         /\ cookie'.jwt = IF tab[t].setJwt = Keep THEN cookie.jwt ELSE tab[t].setJwt
         /\ tab' \in [Tab -> Requests \cup {Idle}]
         /\ tab'[t] = Idle /\ \A x \in Tab : x # t => tab'[x] = tab[x]
         /\ session' \in [Sid -> Opened \cup {None}]
         /\ \A k \in Sid : session'[k] = session[k] \/ session'[k] = None
         /\ \A k \in Sid : Held(k)' => session'[k] = session[k]
         /\ UNCHANGED <<row, sale, mailed, out, overlap>>
<1> DEFINE q == tab[t]
           Put(new, old) == IF new = Keep THEN old ELSE new
<1>1. /\ q # Idle /\ q.result # "sent"
      /\ cookie' = [sid |-> Put(q.setSid, cookie.sid), jwt |-> Put(q.setJwt, cookie.jwt)]
      /\ tab' = [tab EXCEPT ![t] = Idle]
      /\ session' = [s \in Sid |->
           IF \/ s = cookie'.sid
              \/ \E x \in Tab \ {t} : tab[x] # Idle /\ s \in {tab[x].sid, tab[x].setSid}
           THEN session[s] ELSE None]
      /\ UNCHANGED <<row, sale, mailed, out, overlap>>
  BY DEF Deliver
<1>2. q \in Requests  BY <1>1, Busy
<1>3. Put(q.setSid, cookie.sid) \in Sid \cup {None}
      /\ Put(q.setJwt, cookie.jwt) \in Tokens \cup {None}
  BY <1>2 DEF Typed, Requests
<1>4. /\ cookie' \in [sid : Sid \cup {None}, jwt : Tokens \cup {None}]
      /\ cookie'.sid = Put(q.setSid, cookie.sid) /\ cookie'.jwt = Put(q.setJwt, cookie.jwt)
  BY <1>1, <1>3
<1>5. /\ tab' \in [Tab -> Requests \cup {Idle}]
      /\ tab'[t] = Idle /\ \A x \in Tab : x # t => tab'[x] = tab[x]
  BY <1>1 DEF Typed
<1>6. /\ session' \in [Sid -> Opened \cup {None}]
      /\ \A k \in Sid : session'[k] = session[k] \/ session'[k] = None
  BY <1>1 DEF Typed
<1>7. ASSUME NEW k \in Sid, Held(k)'  PROVE  session'[k] = session[k]
  <2>1. \/ k = cookie'.sid
        \/ \E x \in Tab : tab'[x] # Idle /\ k \in {tab'[x].sid, tab'[x].setSid}
    BY <1>7 DEF Held
  <2>2. \/ k = cookie'.sid
        \/ \E x \in Tab \ {t} : tab[x] # Idle /\ k \in {tab[x].sid, tab[x].setSid}
    BY <2>1, <1>5
  <2> QED  BY <1>1, <2>2
<1> QED  BY <1>1, <1>2, <1>4, <1>5, <1>6, <1>7

-----------------------------------------------------------------------------
(* The shape is kept.                                                       *)

Base == Typed /\ Formed /\ Mails

(* What an answer makes of the sessions and of the requests under way.      *)
LEMMA OutcomeTyped ==
  ASSUME Typed, NEW t \in Tab, tab[t] \in Requests, Fits(tab[t]), tab[t].result = "sent",
         Outcome(t)
  PROVE  session' \in [Sid -> Opened \cup {None}] /\ GetsAnswer(t)
<1> USE NonesApart
<1>1. CASE LeavesAlone(t)
  <2>1. session' \in [Sid -> Opened \cup {None}]  BY <1>1 DEF LeavesAlone, Typed
  <2>2. PICK r \in {"crashed", "interrupted"} : Answered(t, r, Keep, Keep)
    BY <1>1 DEF LeavesAlone
  <2> QED  BY <2>1, <2>2, AnsweredDoes DEF Results
<1>2. CASE LogsOut(t)
  <2>1. session' \in [Sid -> Opened \cup {None}]  BY <1>2 DEF LogsOut, Typed
  <2>2. PICK r \in Results \ {"sent"}, j \in {None, Keep} : Answered(t, r, None, j)
    BY <1>2 DEF LogsOut
  <2> QED  BY <2>1, <2>2, AnsweredDoes
<1>3. ASSUME NEW v, NEW j, SavesAs(t, v, j)
      PROVE  session' \in [Sid -> Opened \cup {None}] /\ GetsAnswer(t)
  <2>1. session' \in [Sid -> Opened \cup {None}] /\ j \in Tokens \cup {Keep}
    BY <1>3 DEF SavesAs, AsRead, Typed, Live
  <2>2. PICK r \in Results \ {"sent"}, k \in Sid : Answered(t, r, k, j)
    BY <1>3 DEF SavesAs, AsRead, Live
  <2> QED  BY <2>1, <2>2, AnsweredDoes
<1>4. ASSUME NEW v, NEW j, SignsIn(t, v, j)
      PROVE  session' \in [Sid -> Opened \cup {None}] /\ GetsAnswer(t)
  <2>1. session' \in [Sid -> Opened \cup {None}] /\ j \in Tokens
    BY <1>4 DEF SignsIn, AsSignedIn, Typed
  <2>2. PICK k \in Sid : Answered(t, "ok", k, j)  BY <1>4 DEF SignsIn, AsSignedIn
  <2> QED  BY <2>1, <2>2, AnsweredDoes DEF Results
<1> QED  BY <1>1, <1>2, <1>3, <1>4 DEF Outcome

LEMMA BaseInit == Init => Base
<1> SUFFICES ASSUME Init PROVE Base  OBVIOUS
<1>1. row \in [User -> Rows \cup {None}] /\ session \in [Sid -> Opened \cup {None}]
  BY DEF Init
<1>2. sale \in [Checkout -> [by : User \cup {None}, plan : Plans]]
      /\ since \in [User -> SUBSET Plans]
  BY DEF Init, Plans
<1>3. cookie \in [sid : Sid \cup {None}, jwt : Tokens \cup {None}]
      /\ tab \in [Tab -> Requests \cup {Idle}] /\ mailed = {}
      /\ \A t \in Tab : tab[t] = Idle
  BY DEF Init
<1>4. mixed \in BOOLEAN /\ out \in BOOLEAN /\ begun \in Checkout \cup {None}
  BY DEF Init
<1> QED  BY <1>1, <1>2, <1>3, <1>4 DEF Base, Typed, Formed, Mails

LEMMA NotedTyped ==
  ASSUME Typed, Noted, row' \in [User -> Rows \cup {None}],
         sale' \in [Checkout -> [by : User \cup {None}, plan : Plans]]
  PROVE  since' \in [User -> SUBSET Plans]
<1>1. ASSUME NEW u \in User  PROVE  Truth(u)' \in Plans
  <2>1. Truth(u)' = IF row'[u] = None \/ row'[u].customer = None THEN None
                    ELSE sale'[row'[u].customer].plan
    BY DEF Truth
  <2>2. row'[u] # None => row'[u].customer \in Checkout \cup {None}  BY DEF Rows
  <2> QED  BY <2>1, <2>2 DEF Plans
<1> QED  BY <1>1 DEF Noted, Typed

LEMMA BaseStep == Base /\ [Next]_vars => Base'
<1> SUFFICES ASSUME Base, [Next]_vars PROVE Base'  OBVIOUS
<1> USE NonesApart DEF Base
<1>1. ASSUME NEW t \in Tab, NEW kind \in Asked, NEW who \in User \cup {None},
             NEW c \in Checkout \cup {None}, Send(t, kind, who, c)
      PROVE  Base'
  <2>1. PICK q \in Requests :
          /\ Fits(q) /\ tab' = [x \in Tab |-> IF x # t THEN Overlapped(tab[x]) ELSE q]
    BY <1>1, SendDoes
  <2>2. UNCHANGED <<row, sale, session, cookie, mailed, since>>  BY <1>1, SendDoes
  <2>3. tab' \in [Tab -> Requests \cup {Idle}]  BY <2>1, OverlappedIs
  <2>4. mixed' \in BOOLEAN /\ out' \in BOOLEAN /\ begun' \in Checkout \cup {None}
    BY <1>1 DEF Send, Typed
  <2>5. Formed'  BY <2>1, OverlappedIs DEF Formed
  <2> QED  BY <2>2, <2>3, <2>4, <2>5 DEF Typed, Mails
<1>2. ASSUME NEW t \in Tab, AnswerRequest(t)  PROVE  Base'
  <2>1. /\ tab[t] \in Requests /\ Fits(tab[t]) /\ tab[t].result = "sent"
        /\ RowStep(t) /\ SaleStep(t) /\ MailStep /\ Outcome(t)
        /\ out' = (out \/ (tab[t].kind = "logout" /\ ~ mixed))
        /\ UNCHANGED <<cookie, mixed, begun, overlap>>
        /\ Noted
    BY <1>2, AnswerRequestDoes
  <2>2. sale' \in [Checkout -> [by : User \cup {None}, plan : Plans]]
    <3>1. tab[t].user \in User \cup {None}  BY <2>1 DEF Requests
    <3>2. CASE sale' = sale  BY <3>2 DEF Typed
    <3>3. ASSUME NEW c \in Checkout, sale' = [sale EXCEPT ![c].by = tab[t].user]
          PROVE  sale' \in [Checkout -> [by : User \cup {None}, plan : Plans]]
      BY <3>1, <3>3 DEF Typed
    <3> QED  BY <2>1, <3>2, <3>3 DEF SaleStep
  <2>3. row' \in [User -> Rows \cup {None}]  BY <2>1 DEF RowStep
  <2>4. since' \in [User -> SUBSET Plans]  BY <2>1, <2>2, <2>3, NotedTyped
  <2>5. /\ session' \in [Sid -> Opened \cup {None}] /\ tab' \in [Tab -> Requests \cup {Idle}]
        /\ \A x \in Tab : x # t => tab'[x] = tab[x]
        /\ Fits(tab'[t])
    BY <2>1, OutcomeTyped DEF GetsAnswer
  <2>6. mixed' \in BOOLEAN /\ out' \in BOOLEAN /\ begun' \in Checkout \cup {None}
    BY <2>1 DEF Typed
  <2>7. mailed' \subseteq User /\ Mails'
    BY <2>1 DEF MailStep, Mails, RowStep, Typed
  <2>8. Formed'  BY <2>5 DEF Formed
  <2> QED  BY <2>1, <2>2, <2>3, <2>4, <2>5, <2>6, <2>7, <2>8 DEF Typed
<1>3. ASSUME NEW t \in Tab, Deliver(t)  PROVE  Base'
  <2>1. /\ tab[t] \in Requests
        /\ cookie' \in [sid : Sid \cup {None}, jwt : Tokens \cup {None}]
        /\ tab' \in [Tab -> Requests \cup {Idle}]
        /\ tab'[t] = Idle /\ \A x \in Tab : x # t => tab'[x] = tab[x]
        /\ session' \in [Sid -> Opened \cup {None}]
        /\ UNCHANGED <<row, sale, mailed, out, overlap>>
    BY <1>3, DeliverDoes
  <2>2. \A u \in User : Truth(u) \in Plans
    BY DEF Truth, Typed, Plans, Rows
  <2>6. \A q, u : Carried(q, u) \subseteq Plans
    BY DEF Carried, Tokens, Plans
  <2>7. PICK S : S = [u \in User |-> UNION {Carried(tab[x], u) : x \in {y \in Tab :
                                        tab[y] # Idle /\ ~ tab[y].calm}}]
    OBVIOUS
  <2>8. \A u \in User : S[u] \subseteq Plans  BY <2>6, <2>7
  <2>9. \A u \in User : since'[u] \in {{Truth(u)} \cup S[u], since[u]}
    BY <1>3, <2>7 DEF Deliver
  <2>10. since' = [u \in User |-> since'[u]]  BY <1>3 DEF Deliver
  <2>11. \A u \in User : since'[u] \subseteq Plans  BY <2>2, <2>8, <2>9 DEF Typed
  <2>3. since' \in [User -> SUBSET Plans]  BY <2>10, <2>11
  <2>4. mixed' \in BOOLEAN  BY <1>3 DEF Deliver, Typed
  <2>5. begun' \in Checkout \cup {None}
    <3>1. begun' \in {tab[t].sale, None, begun}  BY <1>3 DEF Deliver
    <3> QED  BY <2>1, <3>1 DEF Requests, Typed
  <2> QED  BY <2>1, <2>3, <2>4, <2>5 DEF Typed, Formed, Mails
<1>4. ASSUME NEW c \in Checkout, Pay(c) \/ ChangePlan(c)  PROVE  Base'
  <2>1. PICK p \in Plans : sale' = [sale EXCEPT ![c].plan = p]
    BY <1>4 DEF Pay, ChangePlan, Plans
  <2>2. sale' \in [Checkout -> [by : User \cup {None}, plan : Plans]]  BY <2>1 DEF Typed
  <2>3. UNCHANGED <<row, session, cookie, mailed, tab, mixed, out, begun>>
    BY <1>4 DEF Pay, ChangePlan
  <2>4. since' \in [User -> SUBSET Plans]
    <3>1. CASE Pay(c)  BY <3>1 DEF Pay, Typed
    <3>2. CASE ChangePlan(c)
      <4>1. row' \in [User -> Rows \cup {None}]  BY <2>3 DEF Typed
      <4> QED  BY <2>2, <3>2, <4>1, NotedTyped DEF ChangePlan
    <3> QED  BY <1>4, <3>1, <3>2
  <2> QED  BY <2>2, <2>3, <2>4 DEF Typed, Formed, Mails
<1>5. ASSUME NEW u \in User, ExpireMail(u)  PROVE  Base'
  BY <1>5 DEF ExpireMail, Typed, Formed, Mails
<1>6. ASSUME NEW u \in User, Disable(u)  PROVE  Base'
  <2>1. row[u] \in Rows  BY <1>6 DEF Disable, Typed
  <2> DEFINE r == [row[u] EXCEPT !.active = FALSE]
  <2>2. r \in Rows  BY <2>1 DEF Rows
  <2>3. row' = [row EXCEPT ![u] = r]  BY <1>6 DEF Disable
  <2> HIDE DEF r
  <2>4. row' \in [User -> Rows \cup {None}] /\ \A w \in User : row[w] # None => row'[w] # None
    BY <2>2, <2>3 DEF Typed
  <2>5. UNCHANGED <<sale, session, cookie, mailed, tab, since, mixed, out>> /\ begun' = None
    BY <1>6 DEF Disable
  <2> QED  BY <2>4, <2>5 DEF Typed, Formed, Mails
<1>7. CASE Lapse
  <2>1. cookie' \in [sid : Sid \cup {None}, jwt : Tokens \cup {None}]
    BY <1>7 DEF Lapse, Typed
  <2>2. UNCHANGED <<row, sale, session, mailed, tab, since, out, begun>> /\ mixed' = TRUE
    BY <1>7 DEF Lapse
  <2> QED  BY <2>1, <2>2 DEF Typed, Formed, Mails
<1>8. CASE UNCHANGED vars
  BY <1>8 DEF vars, Typed, Formed, Mails
<1> QED  BY <1>1, <1>2, <1>3, <1>4, <1>5, <1>6, <1>7, <1>8 DEF Next

-----------------------------------------------------------------------------
(* Sessions, their users, and the JWT beside them.                          *)

SigningIn == \E x \in Tab : tab[x].kind \in SignIns

(* A request with which no other overlaps sees what is there.               *)
CalmAlone ==
  \A t \in Tab : tab[t] # Idle /\ tab[t].calm = TRUE =>
    /\ \A x \in Tab : x # t => tab[x] = Idle
    /\ tab[t].result = "sent" =>
         /\ tab[t].sid = cookie.sid
         /\ tab[t].kind # "logout" => tab[t].read = Loaded(cookie.sid)

Matches(jwt, k) == jwt \in Tokens /\ jwt.user = session[k].user

SameAs(a, b) == a.user = b.user /\ a.password = b.password

(* The session of a key stays a session of the same user, and an answer     *)
(* that sets both cookies sets two of the same user.                        *)
SameUser ==
  \A t \in Tab : tab[t] # Idle =>
    /\ tab[t].result = "sent" /\ tab[t].read # None /\ Live(tab[t].sid) =>
         SameAs(session[tab[t].sid], tab[t].read)
    /\ tab[t].result # "sent" /\ Live(tab[t].setSid) =>
         tab[t].setJwt = Keep \/ Matches(tab[t].setJwt, tab[t].setSid)

(* Of what is under way, every key that still has a session is the cookie's.*)
OneKey ==
  /\ \A k \in Sid : Held(k) /\ Live(k) => k = cookie.sid
  /\ Live(cookie.sid) =>
       \A x \in Tab : tab[x] # Idle =>
         /\ tab[x].result = "sent" => tab[x].sid = cookie.sid
         /\ tab[x].result # "sent" => tab[x].setSid \in {cookie.sid, Keep}

(* While sign-ins have not overlapped and the JWT has not run out.          *)
Unmixed ==
  mixed = FALSE =>
    /\ \A t \in Tab : tab[t].kind \in SignIns => tab[t].calm = TRUE
    /\ ~ SigningIn => OneKey
    /\ Live(cookie.sid) => Matches(cookie.jwt, cookie.sid)

(* What ends a mix-up: a sign-in, a logout or a validation on its own.      *)
Clears(q) ==
  /\ q.calm = TRUE /\ q.result # "sent"
  /\ \/ q.kind \in SignIns \cup {"logout"}
     \/ q.kind \in Validations /\ q.result \in {"ok", "unauthorized"}

Clearing ==
  \A t \in Tab : tab[t] # Idle /\ Clears(tab[t]) =>
    \/ tab[t].setSid = None
    \/ Live(tab[t].setSid) /\ Matches(tab[t].setJwt, tab[t].setSid)

SignedOut ==
  out = TRUE =>
    /\ ~ SigningIn
    /\ \A k \in Sid : Held(k) => ~ Live(k)

Pairs == CalmAlone /\ SameUser /\ Unmixed /\ Clearing /\ SignedOut

(* What an answer makes of each session.                                    *)
SessionStep(t) ==
  \A k \in Sid :
    \/ session'[k] = session[k]
    \/ session'[k] = None
    \/ /\ k = tab[t].sid /\ session[k] # None /\ tab[t].read # None
       /\ session'[k] # None /\ SameAs(session'[k], tab[t].read)
    \/ /\ FreeKey(k) /\ tab[t].kind \in SignIns
       /\ \E u \in User : row'[u] # None /\ session'[k].password = row'[u].password

(* What it sets the cookies to.                                             *)
CookieStep(t) ==
  LET q == tab[t]  p == tab'[t] IN
  /\ \/ p.setSid = Keep /\ p.setJwt = Keep
     \/ /\ p.setSid = None
        /\ q.kind \notin SignIns => \A k \in Sid : k = q.sid => session'[k] = None
     \/ p.setSid = q.sid /\ session[q.sid] # None /\ q.kind # "logout"
     \/ FreeKey(p.setSid) /\ q.kind \in SignIns
  /\ p.setSid \in Sid =>
       /\ session'[p.setSid] # None
       /\ \/ p.setJwt = Keep /\ q.kind = "read"
          \/ p.setJwt \in Tokens /\ p.setJwt.user = session'[p.setSid].user
  /\ p.setSid = Keep =>
       \/ p.result = "crashed" /\ q.user # None
       \/ q.read # None /\ ~ Live(q.sid) /\ p.result = "interrupted" /\ q.kind # "logout"

LEMMA OutcomeDoes ==
  ASSUME Typed, NEW t \in Tab, tab[t] \in Requests, Fits(tab[t]), tab[t].result = "sent",
         Outcome(t)
  PROVE  SessionStep(t) /\ CookieStep(t)
<1> USE NonesApart DEF SameAs
<1>1. CASE LeavesAlone(t)
  <2>1. session' = session  BY <1>1 DEF LeavesAlone
  <2>2. PICK r \in {"crashed", "interrupted"} :
          /\ Answered(t, r, Keep, Keep)
          /\ r = "crashed" => tab[t].user # None
          /\ r = "interrupted" =>
               tab[t].read # None /\ ~ Live(tab[t].sid) /\ tab[t].kind # "logout"
    BY <1>1 DEF LeavesAlone
  <2>3. tab'[t].result = r /\ tab'[t].setSid = Keep /\ tab'[t].setJwt = Keep
    BY <2>2, AnsweredDoes DEF Results
  <2> QED  BY <2>1, <2>2, <2>3 DEF SessionStep, CookieStep
<1>2. CASE LogsOut(t)
  <2>1. PICK r \in Results \ {"sent"}, j \in {None, Keep} :
          /\ Answered(t, r, None, j)
          /\ \/ session' = [session EXCEPT ![tab[t].sid] = None]
             \/ tab[t].kind \in SignIns /\ session' = session
    BY <1>2 DEF LogsOut
  <2>2. tab'[t].setSid = None  BY <2>1, AnsweredDoes
  <2>3. SessionStep(t)  BY <2>1 DEF SessionStep, Typed
  <2>4. tab[t].kind \notin SignIns => \A k \in Sid : k = tab[t].sid => session'[k] = None
    BY <2>1 DEF Typed
  <2> QED  BY <2>2, <2>3, <2>4 DEF CookieStep
<1>3. ASSUME NEW v, NEW j, SavesAs(t, v, j)
      PROVE  SessionStep(t) /\ CookieStep(t)
  <2> DEFINE q == tab[t]
  <2>1. /\ q.sid \in Sid /\ session[q.sid] # None
        /\ q.read \in Opened /\ q.read # None /\ q.read.user = q.user
        /\ v.data \in Opened /\ v.data # None /\ v.data.user = q.user
        /\ v.data.password = q.read.password
        /\ session' = [session EXCEPT ![q.sid] = v.data] /\ q.kind # "logout"
    BY <1>3 DEF SavesAs, AsRead, Live, Authenticating, Guarded, Validations
  <2>2. /\ (j = Keep /\ q.kind = "read") \/ (j \in Tokens /\ j.user = q.user)
        /\ v.result \in Results \ {"sent"}
        /\ Answered(t, v.result, q.sid, j)
    BY <1>3 DEF SavesAs, AsRead
  <2>3. session'[q.sid] = v.data /\ \A k \in Sid : k # q.sid => session'[k] = session[k]
    BY <2>1 DEF Typed
  <2>4. tab'[t].setSid = q.sid /\ tab'[t].setJwt = j
    <3>1. PICK r \in Results \ {"sent"}, k \in Sid : k = q.sid /\ Answered(t, r, k, j)
      BY <2>1, <2>2
    <3> QED  BY <2>2, <3>1, AnsweredDoes
  <2>5. SessionStep(t)  BY <2>1, <2>3 DEF SessionStep
  <2>6. CookieStep(t)  BY <2>1, <2>2, <2>3, <2>4 DEF CookieStep
  <2> QED  BY <2>5, <2>6
<1>4. ASSUME NEW v, NEW j, SignsIn(t, v, j)
      PROVE  SessionStep(t) /\ CookieStep(t)
  <2> DEFINE q == tab[t]
  <2>1. /\ v.key \in Sid /\ v.data \in Opened /\ v.data.user = v.user /\ v.data # None
        /\ \/ v.key = q.sid /\ v.data = q.read /\ session[q.sid] # None
           \/ FreeKey(v.key) /\ v.data.password = v.me.password
        /\ v.me \in Rows /\ v.user \in User /\ row'[v.user] = v.me
        /\ session' = [session EXCEPT ![q.sid] = None, ![v.key] = v.data]
        /\ j \in Tokens /\ j.user = v.user /\ q.kind \in SignIns
        /\ Answered(t, "ok", v.key, j) /\ q.kind # "logout"
    BY <1>4 DEF SignsIn, AsSignedIn, Live, SignIns
  <2>2. tab'[t].setSid = v.key /\ tab'[t].setJwt = j
    <3>1. PICK k \in Sid : k = v.key /\ Answered(t, "ok", k, j)  BY <2>1
    <3> QED  BY <2>1, <3>1, AnsweredDoes DEF Results
  <2>3. session'[v.key] = v.data /\ \A k \in Sid : k # v.key => session'[k] \in {session[k], None}
    BY <2>1 DEF Typed
  <2>4. SessionStep(t)
    BY <2>1, <2>3 DEF SessionStep
  <2>5. CookieStep(t)  BY <2>1, <2>2, <2>3 DEF CookieStep
  <2> QED  BY <2>4, <2>5
<1> QED  BY <1>1, <1>2, <1>3, <1>4 DEF Outcome

LEMMA PairsInit == Init => Pairs
BY IdleApart, NonesApart
DEF Init, Pairs, CalmAlone, SameUser, Unmixed, SigningIn, OneKey, Held, Live, Clearing,
    SignedOut, Kinds

LEMMA SendKeepsPairs ==
  ASSUME Base, Pairs, NEW t \in Tab, NEW kind \in Asked, NEW who \in User \cup {None},
         NEW c \in Checkout \cup {None}, Send(t, kind, who, c)
  PROVE  Pairs'
<1> USE NonesApart DEF Base, Pairs, SameAs
<1>1. PICK q \in Requests :
        /\ Asking(q, kind, who, c) /\ Fits(q)
        /\ tab' = [x \in Tab |-> IF x # t THEN Overlapped(tab[x]) ELSE q]
  BY SendDoes
<1>2. /\ tab[t] = Idle /\ tab'[t] = q /\ q # Idle
      /\ UNCHANGED <<row, sale, session, cookie, mailed, since>>
  BY <1>1, SendDoes, IdleApart
<1>3. ASSUME NEW x \in Tab, x # t
      PROVE  /\ tab'[x] = Idle <=> tab[x] = Idle
             /\ tab[x] = Idle => tab'[x].kind \notin Kinds
             /\ tab[x] # Idle =>
                  /\ tab'[x].calm = FALSE /\ tab'[x].kind = tab[x].kind
                  /\ tab'[x].sid = tab[x].sid /\ tab'[x].read = tab[x].read
                  /\ tab'[x].result = tab[x].result /\ tab'[x].setSid = tab[x].setSid
                  /\ tab'[x].setJwt = tab[x].setJwt
  BY <1>1, <1>3, OverlappedIs, IdleApart
<1>4. /\ mixed' = (mixed \/ (~ Calm /\ (kind \in SignIns \/ SigningIn)))
      /\ out' = (out /\ kind \notin SignIns)
  BY DEF Send, SigningIn
<1>5. /\ q.kind = kind /\ q.sid = cookie.sid /\ q.result = "sent" /\ q.setSid = Keep
      /\ q.read = IF kind = "logout" THEN None ELSE Loaded(cookie.sid)
      /\ q.calm = TRUE <=> Calm
  BY <1>1 DEF Asking, Fits
<1>6. /\ Live(cookie.sid)' <=> Live(cookie.sid)
      /\ \A k : Live(k)' <=> Live(k)
      /\ Loaded(cookie.sid)' = Loaded(cookie.sid)
  BY <1>2 DEF Live, Loaded
<1>7. Calm => \A x \in Tab : tab[x] = Idle  BY DEF Calm
<1>8. CalmAlone'
  BY <1>2, <1>3, <1>5, <1>6, <1>7 DEF CalmAlone
<1>9. SameUser'
  <2>1. Live(q.sid) /\ q.read # None => SameAs(session[q.sid], q.read)
    BY <1>5, LoadedIs
  <2>2. ASSUME NEW x \in Tab, tab'[x] # Idle
        PROVE  /\ tab'[x].result = "sent" /\ tab'[x].read # None /\ Live(tab'[x].sid)
                  => SameAs(session[tab'[x].sid], tab'[x].read)
               /\ tab'[x].result # "sent" /\ Live(tab'[x].setSid)
                  => tab'[x].setJwt = Keep \/ Matches(tab'[x].setJwt, tab'[x].setSid)
    <3>1. CASE x = t  BY <1>2, <1>5, <2>1, <3>1
    <3>2. CASE x # t  BY <1>3, <2>2, <3>2 DEF SameUser
    <3> QED  BY <3>1, <3>2
  <2> QED  BY <1>2, <2>2 DEF SameUser, Matches, Live
<1>10. SigningIn' <=> SigningIn \/ kind \in SignIns
  BY <1>2, <1>3, <1>5, Busy DEF SigningIn, Kinds
<1>11. ASSUME NEW k \in Sid, Held(k)'  PROVE  Held(k)
  BY <1>2, <1>3, <1>5, <1>11 DEF Held
<1>12. Unmixed'
  <2> SUFFICES ASSUME mixed' = FALSE
               PROVE  /\ \A x \in Tab : tab'[x].kind \in SignIns => tab'[x].calm = TRUE
                      /\ ~ SigningIn' => OneKey'
                      /\ Live(cookie.sid)' => Matches(cookie.jwt, cookie.sid)'
    BY DEF Unmixed
  <2>1. mixed = FALSE /\ (Calm \/ (kind \notin SignIns /\ ~ SigningIn))
    BY <1>4 DEF Typed
  <2>2. \A x \in Tab : tab'[x].kind \in SignIns => tab'[x].calm = TRUE
    BY <1>2, <1>3, <1>5, <1>7, <2>1 DEF SigningIn, Kinds
  <2>3. ~ SigningIn' => OneKey'
    <3>1. SUFFICES ASSUME ~ SigningIn' PROVE OneKey'  OBVIOUS
    <3>2. OneKey  BY <1>10, <2>1, <3>1 DEF Unmixed
    <3>3. \A k \in Sid : Held(k)' /\ Live(k)' => k = cookie'.sid
      BY <1>2, <1>6, <1>11, <3>2 DEF OneKey
    <3>4. ASSUME Live(cookie.sid), NEW x \in Tab, tab'[x] # Idle
          PROVE  /\ tab'[x].result = "sent" => tab'[x].sid = cookie.sid
                 /\ tab'[x].result # "sent" => tab'[x].setSid \in {cookie.sid, Keep}
      <4>1. CASE x = t  BY <1>2, <1>5, <4>1
      <4>2. CASE x # t  BY <1>3, <3>2, <3>4, <4>2 DEF OneKey
      <4> QED  BY <4>1, <4>2
    <3> QED  BY <1>2, <1>6, <3>3, <3>4 DEF OneKey
  <2>4. Live(cookie.sid)' => Matches(cookie.jwt, cookie.sid)'
    BY <1>2, <1>6, <2>1 DEF Unmixed, Matches
  <2> QED  BY <2>2, <2>3, <2>4
<1>13. Clearing'
  BY <1>2, <1>3, <1>5 DEF Clearing, Clears
<1>14. SignedOut'
  <2>1. out' = TRUE => out = TRUE /\ kind \notin SignIns  BY <1>4 DEF Typed
  <2> QED  BY <1>2, <1>6, <1>10, <1>11, <2>1 DEF SignedOut, Live
<1> QED  BY <1>8, <1>9, <1>12, <1>13, <1>14

LEMMA AnswerKeepsPairs ==
  ASSUME Base, Pairs, NEW t \in Tab, AnswerRequest(t)
  PROVE  Pairs'
<1> USE NonesApart DEF Base, Pairs, SameAs
<1> DEFINE q == tab[t]
<1>1. /\ tab[t] \in Requests /\ Fits(tab[t]) /\ tab[t].result = "sent" /\ tab[t] # Idle
      /\ Outcome(t)
      /\ out' = (out \/ (tab[t].kind = "logout" /\ ~ mixed))
      /\ cookie' = cookie /\ mixed' = mixed
  BY AnswerRequestDoes, IdleApart
<1>2. /\ SessionStep(t) /\ CookieStep(t) /\ GetsAnswer(t)
      /\ session' \in [Sid -> Opened \cup {None}]
  BY <1>1, OutcomeDoes, OutcomeTyped
<1>3. \A x \in Tab : x # t => tab'[x] = tab[x]  BY <1>2 DEF GetsAnswer
<1>4. /\ tab'[t] # Idle /\ tab'[t].result # "sent" /\ tab'[t].sid = None
      /\ tab'[t].kind = tab[t].kind /\ tab'[t].calm = tab[t].calm
  BY <1>2 DEF GetsAnswer
<1>5. SigningIn' <=> SigningIn  BY <1>3, <1>4 DEF SigningIn
(* A session is there afterwards only if it was before, unless it is new.   *)
<1>6. ASSUME NEW k \in Sid, Live(k)', Held(k)  PROVE  Live(k) /\ SameAs(session'[k], session[k])
  <2>1. ~ FreeKey(k)  BY <1>6 DEF Held, FreeKey
  <2>2. session'[k] # None  BY <1>6 DEF Live
  <2>3. CASE session'[k] = session[k]  BY <2>2, <2>3 DEF Live
  <2>4. CASE /\ k = q.sid /\ session[k] # None /\ q.read # None
             /\ SameAs(session'[k], q.read)
    <3>1. SameAs(session[k], q.read)  BY <1>1, <2>4 DEF SameUser, Live
    <3> QED  BY <2>4, <3>1 DEF Live
  <2> QED  BY <1>2, <2>1, <2>2, <2>3, <2>4 DEF SessionStep
<1>7. q.setSid \notin Sid /\ Held(q.sid)  BY <1>1 DEF Held, Fits
<1>8. CalmAlone'
  <2>1. ASSUME NEW x \in Tab, x # t, tab[x] # Idle  PROVE  tab[x].calm # TRUE
    BY <1>1, <2>1 DEF CalmAlone
  <2> QED  BY <1>1, <1>3, <1>4, <2>1 DEF CalmAlone
<1>9. SameUser'
  <2>1. ASSUME NEW x \in Tab, tab'[x] # Idle, tab'[x].result = "sent", tab'[x].read # None,
               Live(tab[x].sid)'
        PROVE  SameAs(session'[tab'[x].sid], tab'[x].read)
    <3>1. x # t /\ tab'[x] = tab[x]  BY <1>3, <1>4, <2>1
    <3>2. Held(tab[x].sid) /\ tab[x].sid \in Sid  BY <2>1, <3>1 DEF Held, Live
    <3>3. Live(tab[x].sid) /\ SameAs(session'[tab[x].sid], session[tab[x].sid])
      BY <1>6, <2>1, <3>1, <3>2
    <3> QED  BY <2>1, <3>1, <3>3 DEF SameUser
  <2>2. ASSUME NEW x \in Tab, tab'[x] # Idle, tab'[x].result # "sent", Live(tab[x].setSid)',
               tab'[x].setJwt # Keep
        PROVE  tab'[x].setJwt \in Tokens /\ tab'[x].setJwt.user = session'[tab'[x].setSid].user
    <3>1. CASE x = t
      <4>1. tab'[t].setSid \in Sid  BY <2>2, <3>1 DEF Live
      <4> QED  BY <1>2, <2>2, <3>1, <4>1 DEF CookieStep
    <3>2. CASE x # t
      <4>1. tab'[x] = tab[x]  BY <1>3, <3>2
      <4>2. Held(tab[x].setSid) /\ tab[x].setSid \in Sid  BY <2>2, <4>1 DEF Held, Live
      <4>3. Live(tab[x].setSid) /\ session'[tab[x].setSid].user = session[tab[x].setSid].user
        BY <1>6, <2>2, <4>1, <4>2
      <4> QED  BY <2>2, <4>1, <4>3 DEF SameUser, Matches
    <3> QED  BY <3>1, <3>2
  <2> QED  BY <2>1, <2>2 DEF SameUser, Matches
<1>10. ASSUME NEW k \in Sid, Held(k)', ~ SigningIn  PROVE  Held(k)
  <2>1. k # tab'[t].sid  BY <1>4
  <2>2. CASE k = tab'[t].setSid
    <3>1. k = q.sid  BY <1>1, <1>2, <1>10, <2>2 DEF CookieStep, SigningIn
    <3> QED  BY <1>7, <3>1
  <2>3. CASE k # tab'[t].setSid  BY <1>1, <1>3, <1>10, <2>1, <2>3 DEF Held
  <2> QED  BY <2>2, <2>3
<1>11. Unmixed'
  <2>1. SUFFICES ASSUME mixed = FALSE
                 PROVE  /\ \A x \in Tab : tab'[x].kind \in SignIns => tab'[x].calm = TRUE
                        /\ ~ SigningIn' => OneKey'
                        /\ Live(cookie.sid)' => Matches(cookie.jwt, cookie.sid)'
    BY <1>1 DEF Unmixed
  <2>2. \A x \in Tab : tab'[x].kind \in SignIns => tab'[x].calm = TRUE
    BY <1>3, <1>4, <2>1 DEF Unmixed
  <2>3. ~ SigningIn' => OneKey'
    <3>1. SUFFICES ASSUME ~ SigningIn PROVE OneKey'  BY <1>5
    <3>2. OneKey  BY <2>1, <3>1 DEF Unmixed
    <3>3. \A k \in Sid : Held(k)' /\ Live(k)' => k = cookie.sid
      BY <1>6, <1>10, <3>1, <3>2 DEF OneKey
    <3>4. ASSUME Live(cookie.sid)', NEW x \in Tab, tab'[x] # Idle
          PROVE  /\ tab'[x].result = "sent" => tab'[x].sid = cookie.sid
                 /\ tab'[x].result # "sent" => tab'[x].setSid \in {cookie.sid, Keep}
      <4>1. cookie.sid \in Sid /\ session'[cookie.sid] # None  BY <1>1, <3>4 DEF Live
      <4>2. Live(cookie.sid)  BY <1>1, <1>6, <3>4, <4>1 DEF Held, Live
      <4>3. CASE x = t
        <5>1. q.sid = cookie.sid  BY <1>1, <3>2, <4>2 DEF OneKey
        <5>2. q.kind \notin SignIns  BY <3>1 DEF SigningIn
        <5>3. tab'[t].setSid # None  BY <1>2, <4>1, <5>1, <5>2 DEF CookieStep
        <5> QED  BY <1>2, <1>4, <4>3, <5>1, <5>2, <5>3 DEF CookieStep
      <4>4. CASE x # t  BY <1>3, <3>2, <3>4, <4>2, <4>4 DEF OneKey
      <4> QED  BY <4>3, <4>4
    <3> QED  BY <1>1, <3>3, <3>4 DEF OneKey
  <2>4. Live(cookie.sid)' => Matches(cookie.jwt, cookie.sid)'
    <3>1. SUFFICES ASSUME Live(cookie.sid)'
                   PROVE  cookie.jwt \in Tokens /\ cookie.jwt.user = session'[cookie.sid].user
      BY <1>1 DEF Matches
    <3>2. cookie.sid \in Sid /\ Held(cookie.sid)  BY <1>1, <3>1 DEF Live, Held
    <3>3. Live(cookie.sid) /\ session'[cookie.sid].user = session[cookie.sid].user
      BY <1>1, <1>6, <3>1, <3>2 DEF Live
    <3> QED  BY <2>1, <3>3 DEF Unmixed, Matches
  <2> QED  BY <2>2, <2>3, <2>4
<1>12. Clearing'
  <2> SUFFICES ASSUME NEW x \in Tab, tab'[x] # Idle, Clears(tab'[x])
               PROVE  \/ tab'[x].setSid = None
                      \/ Live(tab[x].setSid)' /\ Matches(tab[x].setJwt, tab[x].setSid)'
    BY DEF Clearing, Clears
  <2>1. tab'[x].calm = TRUE  BY DEF Clears
  <2>2. x = t  BY <1>1, <1>3, <2>1 DEF CalmAlone
  <2>3. q.calm = TRUE  BY <1>4, <2>1, <2>2
  <2>4. q.sid = cookie.sid /\ (q.kind # "logout" => q.read = Loaded(cookie.sid))
    BY <1>1, <2>3 DEF CalmAlone
  <2>5. /\ q.kind \in SignIns \cup Validations \cup {"logout"}
        /\ q.kind \in Validations => tab'[t].result \in {"ok", "unauthorized"}
    BY <1>4, <2>2 DEF Clears, SignIns, Validations
  <2>6. q.kind # "read" /\ (q.kind \notin Validations => q.user = None)
    BY <1>1, <2>5 DEF Fits, Authenticating, SignIns, Validations, Guarded
  <2>7. tab'[t].setSid # Keep
    <3>1. q.read # None => Live(q.sid) \/ q.kind = "logout"  BY <2>4, LoadedIs
    <3> QED  BY <1>2, <2>5, <2>6, <3>1 DEF CookieStep
  <2>8. tab'[t].setSid \in Sid \/ tab'[t].setSid = None
    BY <1>2, <2>7 DEF GetsAnswer, Requests
  <2> QED  BY <1>2, <2>2, <2>6, <2>8 DEF CookieStep, Live, Matches
<1>13. SignedOut'
  <2> SUFFICES ASSUME out' = TRUE
               PROVE  ~ SigningIn' /\ \A k \in Sid : Held(k)' => ~ Live(k)'
    BY DEF SignedOut
  <2>1. CASE out = TRUE
    <3>1. ~ SigningIn /\ \A k \in Sid : Held(k) => ~ Live(k)  BY <2>1 DEF SignedOut
    <3> QED  BY <1>5, <1>6, <1>10, <3>1
  <2>2. CASE q.kind = "logout" /\ mixed = FALSE
    <3>1. ~ SigningIn
      <4>1. SUFFICES ASSUME NEW x \in Tab, tab[x].kind \in SignIns PROVE FALSE
        BY DEF SigningIn
      <4>2. tab[x].calm = TRUE /\ tab[x] # Idle
        BY <2>2, <4>1, Busy DEF Unmixed, Kinds
      <4>3. x # t  BY <2>2, <4>1 DEF SignIns
      <4> QED  BY <1>1, <4>2, <4>3 DEF CalmAlone
    <3>2. OneKey  BY <2>2, <3>1 DEF Unmixed
    <3>3. q.kind \notin SignIns /\ q.user = None
      BY <1>1, <2>2 DEF Fits, Authenticating, Guarded, Validations, SignIns
    <3>4. tab'[t].setSid = None  BY <1>2, <2>2, <3>3 DEF CookieStep
    <3>5. \A k \in Sid : k = q.sid => session'[k] = None  BY <1>2, <3>3, <3>4 DEF CookieStep
    <3>6. ASSUME NEW k \in Sid, Held(k)', Live(k)'  PROVE  FALSE
      <4>1. Held(k)  BY <1>10, <3>1, <3>6
      <4>2. Live(k)  BY <1>6, <3>6, <4>1
      <4>3. k = cookie.sid  BY <3>2, <4>1, <4>2 DEF OneKey
      <4>4. q.sid = k  BY <1>1, <3>2, <4>2, <4>3 DEF OneKey
      <4> QED  BY <3>5, <3>6, <4>4 DEF Live
    <3> QED  BY <1>5, <3>1, <3>6
  <2> QED  BY <1>1, <2>1, <2>2 DEF Typed
<1> QED  BY <1>8, <1>9, <1>11, <1>12, <1>13

LEMMA DeliverKeepsPairs ==
  ASSUME Base, Pairs, NEW t \in Tab, Deliver(t)
  PROVE  Pairs'
<1> USE NonesApart DEF Base, Pairs, SameAs
<1> DEFINE q == tab[t]
<1>1. /\ q \in Requests /\ q # Idle /\ q.result # "sent" /\ Fits(q)
      /\ cookie' \in [sid : Sid \cup {None}, jwt : Tokens \cup {None}]
      /\ cookie'.sid = IF q.setSid = Keep THEN cookie.sid ELSE q.setSid
      /\ cookie'.jwt = IF q.setJwt = Keep THEN cookie.jwt ELSE q.setJwt
      /\ tab'[t] = Idle /\ \A x \in Tab : x # t => tab'[x] = tab[x]
      /\ session' \in [Sid -> Opened \cup {None}]
      /\ \A k \in Sid : session'[k] = session[k] \/ session'[k] = None
      /\ UNCHANGED <<row, sale, mailed, out, overlap>>
  BY DeliverDoes DEF Formed
<1>2. ASSUME NEW k \in Sid, Live(k)'  PROVE  Live(k) /\ session'[k] = session[k]
  BY <1>1, <1>2 DEF Live
<1>3. ASSUME NEW k \in Sid, Held(k)'  PROVE  Held(k)
  BY <1>1, <1>3 DEF Held
<1>4. ASSUME NEW x \in Tab, x # t, tab[x] # Idle  PROVE  tab[x].calm # TRUE
  BY <1>1, <1>4 DEF CalmAlone
<1>5. CalmAlone'  BY <1>1, <1>4 DEF CalmAlone
<1>6. SameUser'
  <2>1. ASSUME NEW x \in Tab, tab'[x] # Idle
        PROVE  /\ tab'[x].result = "sent" /\ tab'[x].read # None /\ Live(tab[x].sid)'
                  => SameAs(session'[tab'[x].sid], tab'[x].read)
               /\ tab'[x].result # "sent" /\ Live(tab[x].setSid)'
                  => \/ tab'[x].setJwt = Keep
                     \/ /\ tab'[x].setJwt \in Tokens
                        /\ tab'[x].setJwt.user = session'[tab'[x].setSid].user
    <3>1. x # t /\ tab'[x] = tab[x]  BY <1>1, <2>1
    <3>2. \A k : Live(k)' => k \in Sid /\ Live(k) /\ session'[k] = session[k]
      BY <1>2 DEF Live
    <3> QED  BY <2>1, <3>1, <3>2 DEF SameUser, Matches
  <2> QED  BY <2>1 DEF SameUser, Matches
<1>7. Clearing'
  BY <1>1, <1>4 DEF Clearing, Clears
<1>8. SignedOut'
  <2>1. SigningIn' => SigningIn  BY <1>1, Busy DEF SigningIn, Idle, SignIns
  <2> QED  BY <1>1, <1>2, <1>3, <2>1 DEF SignedOut
<1>9. Unmixed'
  <2> SUFFICES ASSUME mixed' = FALSE
               PROVE  /\ \A x \in Tab : tab'[x].kind \in SignIns => tab'[x].calm = TRUE
                      /\ ~ SigningIn' => OneKey'
                      /\ Live(cookie.sid)' => Matches(cookie.jwt, cookie.sid)'
    BY DEF Unmixed
  <2>1. Live(cookie.sid)' =>
          cookie'.sid \in Sid /\ Live(cookie'.sid) /\ session'[cookie'.sid] = session[cookie'.sid]
    BY <1>2 DEF Live
  <2>2. CASE Clears(q)
    <3>1. q.calm = TRUE  BY <2>2 DEF Clears
    <3>2. \A x \in Tab : tab'[x] = Idle  BY <1>1, <3>1 DEF CalmAlone
    <3>3. \A x \in Tab : tab'[x].kind \notin SignIns  BY <3>2, IdleApart DEF Kinds
    <3>4. \A k \in Sid : Held(k)' => k = cookie'.sid  BY <3>2 DEF Held
    <3>5. OneKey'  BY <3>2, <3>4 DEF OneKey
    <3>6. \/ q.setSid = None
          \/ /\ Live(q.setSid) /\ q.setJwt \in Tokens
             /\ q.setJwt.user = session[q.setSid].user
      BY <1>1, <2>2 DEF Clearing, Matches
    <3>7. Live(cookie.sid)' => Matches(cookie.jwt, cookie.sid)'
      BY <1>1, <2>1, <3>6 DEF Matches, Live
    <3> QED  BY <3>3, <3>5, <3>7
  <2>3. CASE mixed = FALSE /\ ~ Clears(q)
    <3>1. q.kind \notin SignIns
      BY <1>1, <2>3 DEF Unmixed, Clears
    <3>2. ~ SigningIn
      <4>1. SUFFICES ASSUME NEW x \in Tab, tab[x].kind \in SignIns PROVE FALSE
        BY DEF SigningIn
      <4>2. tab[x].calm = TRUE /\ tab[x] # Idle
        BY <2>3, <4>1, Busy DEF Unmixed, Kinds
      <4>3. x # t  BY <3>1, <4>1
      <4> QED  BY <1>4, <4>2, <4>3
    <3>3. OneKey  BY <2>3, <3>2 DEF Unmixed
    <3>4. \A x \in Tab : tab'[x].kind \notin SignIns
      BY <1>1, <3>2, IdleApart DEF SigningIn, Kinds
    <3>5. Live(cookie.sid) => q.setSid \in {cookie.sid, Keep}
      BY <1>1, <3>3 DEF OneKey
    <3>6. ASSUME NEW k \in Sid, Held(k)', Live(k)'  PROVE  k = cookie'.sid
      <4>1. k = cookie.sid /\ Live(k)  BY <1>2, <1>3, <3>3, <3>6 DEF OneKey
      <4> QED  BY <1>1, <3>5, <4>1
    <3>7. ASSUME Live(cookie.sid)'  PROVE  cookie'.sid = cookie.sid /\ Live(cookie.sid)
      <4>1. cookie'.sid \in Sid /\ Live(cookie'.sid)  BY <2>1, <3>7
      <4>2. Held(cookie'.sid)  BY <1>1 DEF Held
      <4> QED  BY <3>3, <4>1, <4>2 DEF OneKey
    <3>8. OneKey'
      <4>1. ASSUME Live(cookie.sid)', NEW x \in Tab, tab'[x] # Idle
            PROVE  /\ tab'[x].result = "sent" => tab'[x].sid = cookie'.sid
                   /\ tab'[x].result # "sent" => tab'[x].setSid \in {cookie'.sid, Keep}
        BY <1>1, <3>3, <3>7, <4>1 DEF OneKey
      <4> QED  BY <3>6, <4>1 DEF OneKey
    <3>9. ASSUME Live(cookie.sid)'
          PROVE  cookie'.jwt \in Tokens /\ cookie'.jwt.user = session'[cookie'.sid].user
      <4>1. cookie'.sid = cookie.sid /\ Live(cookie.sid)  BY <3>7, <3>9
      <4>2. session'[cookie.sid] = session[cookie.sid]  BY <2>1, <3>9, <4>1
      <4>3. cookie.jwt \in Tokens /\ cookie.jwt.user = session[cookie.sid].user
        BY <2>3, <4>1 DEF Unmixed, Matches
      <4>4. CASE q.setJwt = Keep  BY <1>1, <4>1, <4>2, <4>3, <4>4
      <4>5. CASE q.setJwt # Keep
        <5>1. q.setSid = cookie.sid  BY <1>1, <3>5, <4>1, <4>5 DEF Fits
        <5>2. q.setJwt \in Tokens /\ q.setJwt.user = session[cookie.sid].user
          BY <1>1, <4>1, <4>5, <5>1 DEF SameUser, Matches
        <5> QED  BY <1>1, <4>1, <4>2, <4>5, <5>2
      <4> QED  BY <4>4, <4>5
    <3> QED  BY <3>4, <3>8, <3>9 DEF Matches
  <2>4. mixed = FALSE \/ Clears(q)
    BY <1>1 DEF Deliver, Clears, Typed
  <2> QED  BY <2>2, <2>3, <2>4
<1> QED  BY <1>5, <1>6, <1>7, <1>8, <1>9

LEMMA PairsStep == Base /\ Pairs /\ [Next]_vars => Pairs'
<1> SUFFICES ASSUME Base, Pairs, [Next]_vars PROVE Pairs'  OBVIOUS
<1>1. ASSUME UNCHANGED <<session, cookie, tab, mixed, out>>  PROVE  Pairs'
  BY <1>1 DEF Pairs, CalmAlone, SameUser, Unmixed, SigningIn, OneKey, Held, Live, Loaded,
     Matches, Clearing, Clears, SignedOut
<1>2. CASE \E c \in Checkout : Pay(c) \/ ChangePlan(c)
  BY <1>1, <1>2 DEF Pay, ChangePlan
<1>3. CASE \E u \in User : ExpireMail(u) \/ Disable(u)
  BY <1>1, <1>3 DEF ExpireMail, Disable
<1>4. CASE Lapse
  <2>1. UNCHANGED <<session, tab, out>> /\ cookie'.sid = cookie.sid /\ mixed' = TRUE
    BY <1>4 DEF Lapse, Base, Typed
  <2> QED
    BY <2>1 DEF Pairs, CalmAlone, SameUser, Unmixed, SigningIn, Held, Live, Loaded,
       Matches, Clearing, Clears, SignedOut
<1>5. CASE UNCHANGED vars  BY <1>1, <1>5 DEF vars
<1> QED
  BY <1>2, <1>3, <1>4, <1>5, SendKeepsPairs, AnswerKeepsPairs, DeliverKeepsPairs DEF Next

LEMMA PairsHold == Spec => [](Base /\ Pairs)
<1>1. Init => Base /\ Pairs  BY BaseInit, PairsInit
<1>2. Base /\ Pairs /\ [Next]_vars => (Base /\ Pairs)'  BY BaseStep, PairsStep
<1> QED  BY <1>1, <1>2, PTL DEF Spec

(* Unless sign-ins overlapped or the JWT ran out first, whoever the session *)
(* of the browser signs in has a JWT beside it, and it is his own: the      *)
(* answers of AuthTokenCookieMiddleware set the two cookies together.       *)
THEOREM TokenGoesAlongCorrect == Spec => []TokenGoesAlong
<1>1. Base /\ Pairs => TokenGoesAlong
  <2> SUFFICES ASSUME Base, Pairs, UserOf(Loaded(cookie.sid)) # None, ~ mixed
               PROVE  cookie.jwt # None /\ cookie.jwt.user = UserOf(Loaded(cookie.sid))
    BY DEF TokenGoesAlong
  <2> USE NonesApart DEF Base, Pairs
  <2>1. /\ Live(cookie.sid) /\ Loaded(cookie.sid) = session[cookie.sid]
        /\ Loaded(cookie.sid).user = UserOf(Loaded(cookie.sid))
    BY LoadedIs
  <2>2. mixed = FALSE  BY DEF Typed
  <2>3. cookie.jwt \in Tokens /\ cookie.jwt.user = session[cookie.sid].user
    BY <2>1, <2>2 DEF Unmixed, Matches
  <2> QED  BY <2>1, <2>3
<1> QED  BY <1>1, PairsHold, PTL

(* Once signed out, and not while sign-ins have overlapped or the JWT ran   *)
(* out first, a browser stays so until a sign-in is sent, whatever was      *)
(* under way: SessionMiddleware lets no late request save the session anew, *)
(* and no key that anybody still has is that of a session.                  *)
THEOREM StaysOutCorrect == Spec => []StaysOut
<1>1. Base /\ Pairs => StaysOut
  <2> SUFFICES ASSUME Base, Pairs, out, UserOf(Loaded(cookie.sid)) # None PROVE FALSE
    BY DEF StaysOut
  <2> USE DEF Base, Pairs
  <2>1. cookie.sid \in Sid /\ Live(cookie.sid)  BY LoadedIs
  <2>2. out = TRUE  BY DEF Typed
  <2>3. Held(cookie.sid)  BY DEF Held
  <2> QED  BY <2>1, <2>2, <2>3 DEF SignedOut
<1> QED  BY <1>1, PairsHold, PTL

-----------------------------------------------------------------------------
(* Customers, what is known of their subscriptions, and passwords.          *)

Linked(u, c) == sale[c].by = u /\ sale[c].plan # None

Customers ==
  /\ \A u \in User : row[u] # None /\ row[u].customer # None => Linked(u, row[u].customer)
  /\ \A t \in Tab : tab[t] # Idle /\ tab[t].me # None /\ tab[t].me.customer # None =>
       Linked(tab[t].user, tab[t].me.customer)
  /\ \A c \in Checkout : sale[c].by = None => sale[c].plan = None

(* What a JWT says of its user was so at some time that counts.             *)
Noticed(jwt) == jwt \in Tokens => jwt.status \in since[jwt.user]

(* An answer from which the time that counts begins anew.                   *)
Renewal(q) ==
  /\ q.calm = TRUE /\ q.result = "ok" /\ q.setJwt \in Tokens
  /\ q.kind \in SignIns \cup {"sync", "revalidate"}

Statuses ==
  /\ \A u \in User : Truth(u) \in since[u]
  /\ Noticed(cookie.jwt)
  /\ \A t \in Tab : tab[t] # Idle =>
       /\ Noticed(tab[t].jwt) /\ Noticed(tab[t].setJwt)
       /\ tab[t].result = "sent" /\ tab[t].user # None /\ tab[t].me.customer = None =>
            None \in since[tab[t].user]
       /\ Renewal(tab[t]) => tab[t].setJwt.status = Truth(tab[t].setJwt.user)

(* A password of number n or above is in use.                               *)
Reached(n) ==
  \/ \E u \in User : row[u] # None /\ row[u].password >= n
  \/ \E s \in Sid : session[s] # None /\ session[s].password >= n
  \/ \E t \in Tab : tab[t] # Idle /\ tab[t].me # None /\ tab[t].me.password >= n

Changes == {"password", "reset"}

Passwords ==
  /\ \A u \in User : row[u] # None => row[u].password <= MaxPassword
  /\ \A t \in Tab : tab[t] # Idle /\ tab[t].me # None => tab[t].me.password <= MaxPassword
  /\ \A t \in Tab : tab[t].kind \in Changes /\ tab[t].result = "sent" => Fresh <= MaxPassword
  /\ \A t, x \in Tab : tab[t].kind \in Changes /\ tab[x].kind \in Changes => t = x

LEMMA SaleStepKeeps ==
  ASSUME Typed, Customers, NEW t \in Tab, tab[t] \in Requests, SaleStep(t)
  PROVE  /\ \A u, c : c \in Checkout /\ u # None /\ Linked(u, c) => Linked(u, c)'
         /\ \A c \in Checkout : sale'[c].by = None => sale'[c].plan = None
         /\ \A c \in Checkout : sale[c].by # None => sale'[c] = sale[c]
         /\ \A c \in Checkout : sale'[c].plan = sale[c].plan
<1>1. CASE sale' = sale  BY <1>1 DEF Linked, Customers
<1>2. ASSUME NEW d \in Checkout, sale[d].by = None, tab[t].user # None,
             sale' = [sale EXCEPT ![d].by = tab[t].user]
      PROVE  /\ \A c \in Checkout : sale[c].by # None => sale'[c] = sale[c]
             /\ \A c \in Checkout : sale'[c].by = None => sale[c].by = None
             /\ \A c \in Checkout : sale'[c].plan = sale[c].plan
  BY <1>2 DEF Typed
<1>3. ASSUME \A c \in Checkout : sale[c].by # None => sale'[c] = sale[c],
             \A c \in Checkout : sale'[c].by = None => sale[c].by = None,
             \A c \in Checkout : sale'[c].plan = sale[c].plan
      PROVE  /\ \A u, c : c \in Checkout /\ u # None /\ Linked(u, c) => Linked(u, c)'
             /\ \A c \in Checkout : sale'[c].by = None => sale'[c].plan = None
  BY <1>3 DEF Linked, Customers
<1> QED  BY <1>1, <1>2, <1>3 DEF SaleStep

LEMMA CustomersInit == Init => Customers
BY DEF Init, Customers

LEMMA CustomersStep == Base /\ Customers /\ [Next]_vars => Customers'
<1> SUFFICES ASSUME Base, Customers, [Next]_vars PROVE Customers'  OBVIOUS
<1> USE NonesApart DEF Base
<1>1. ASSUME NEW t \in Tab, NEW kind \in Asked, NEW who \in User \cup {None},
             NEW c \in Checkout \cup {None}, Send(t, kind, who, c)
      PROVE  Customers'
  <2>1. PICK q \in Requests :
          /\ Asking(q, kind, who, c)
          /\ tab' = [x \in Tab |-> IF x # t THEN Overlapped(tab[x]) ELSE q]
    BY <1>1, SendDoes
  <2>2. UNCHANGED <<row, sale>>  BY <1>1, SendDoes
  <2>3. ASSUME NEW x \in Tab, tab'[x] # Idle, tab'[x].me # None, tab'[x].me.customer # None
        PROVE  Linked(tab'[x].user, tab'[x].me.customer)
    <3>1. CASE x = t
      <4>1. q.user # None /\ q.me = row[q.user]  BY <2>1, <2>3, <3>1 DEF Asking
      <4>2. q.user \in User  BY <4>1 DEF Requests
      <4> QED  BY <2>1, <2>3, <3>1, <4>1, <4>2 DEF Customers
    <3>2. CASE x # t
      <4>1. tab'[x] = Overlapped(tab[x])  BY <2>1, <3>2
      <4> QED  BY <2>3, <4>1, OverlappedIs DEF Customers
    <3> QED  BY <3>1, <3>2
  <2> QED  BY <2>2, <2>3 DEF Customers, Linked
<1>2. ASSUME NEW t \in Tab, AnswerRequest(t)  PROVE  Customers'
  <2>1. /\ tab[t] \in Requests /\ Fits(tab[t]) /\ tab[t].result = "sent"
        /\ RowStep(t) /\ SaleStep(t) /\ Outcome(t) /\ tab[t] # Idle
    BY <1>2, AnswerRequestDoes, IdleApart
  <2>2. GetsAnswer(t)  BY <2>1, OutcomeTyped
  <2>3. /\ \A u, c : c \in Checkout /\ u # None /\ Linked(u, c) => Linked(u, c)'
        /\ \A c \in Checkout : sale'[c].by = None => sale'[c].plan = None
    BY <2>1, SaleStepKeeps
  <2>4. ASSUME NEW u \in User, row'[u] # None, row'[u].customer # None
        PROVE  Linked(u, row[u].customer)'
    <3>1. row'[u].customer \in Checkout  BY <2>1, <2>4 DEF RowStep, Rows
    <3>2. CASE row'[u] = row[u]  BY <2>3, <2>4, <3>1, <3>2 DEF Customers, Linked
    <3>3. CASE CustomerFrom(t, u)
      BY <2>1, <2>3, <2>4, <3>1, <3>3 DEF CustomerFrom, Customers, Linked
    <3> QED  BY <2>1, <2>4, <3>2, <3>3 DEF RowStep
  <2>5. ASSUME NEW x \in Tab, tab'[x] # Idle, tab'[x].me # None, tab'[x].me.customer # None
        PROVE  Linked(tab[x].user, tab[x].me.customer)' /\ tab'[x] = tab[x]
    <3>1. tab'[x] = tab[x]  BY <2>2, <2>5 DEF GetsAnswer
    <3>2. tab[x] \in Requests  BY <2>5, <3>1, Busy
    <3>3. tab[x].me.customer \in Checkout  BY <2>5, <3>1, <3>2 DEF Requests, Rows
    <3>4. Linked(tab[x].user, tab[x].me.customer)  BY <2>5, <3>1 DEF Customers
    <3>5. tab[x].user # None  BY <3>3, <3>4 DEF Linked, Customers
    <3>6. PICK u, c : u = tab[x].user /\ c = tab[x].me.customer  OBVIOUS
    <3>7. Linked(u, c)'  BY <2>3, <3>3, <3>4, <3>5, <3>6
    <3> QED  BY <3>1, <3>6, <3>7 DEF Linked
  <2> QED  BY <2>3, <2>4, <2>5 DEF Customers, Linked
<1>3. ASSUME NEW t \in Tab, Deliver(t)  PROVE  Customers'
  <2>1. /\ tab'[t] = Idle /\ \A x \in Tab : x # t => tab'[x] = tab[x]
        /\ UNCHANGED <<row, sale>>
    BY <1>3, DeliverDoes
  <2> QED  BY <2>1 DEF Customers, Linked
<1>4. ASSUME NEW c \in Checkout, Pay(c) \/ ChangePlan(c)  PROVE  Customers'
  <2>1. PICK p \in Plans : p # None /\ sale' = [sale EXCEPT ![c].plan = p]
    BY <1>4 DEF Pay, ChangePlan, Plans
  <2>2. sale[c].by # None  BY <1>4 DEF Pay, ChangePlan, Customers
  <2>3. UNCHANGED <<row, tab>>  BY <1>4 DEF Pay, ChangePlan
  <2>4. ASSUME NEW u, NEW d \in Checkout, Linked(u, d)
        PROVE  sale'[d].by = u /\ sale'[d].plan # None
    BY <2>1, <2>4 DEF Typed, Linked
  <2>5. ASSUME NEW d \in Checkout, sale'[d].by = None  PROVE  sale'[d].plan = None
    BY <2>1, <2>2, <2>5 DEF Typed, Customers
  <2>6. ASSUME NEW u \in User, row[u] # None, row[u].customer # None
        PROVE  row[u].customer \in Checkout
    BY <2>6 DEF Typed, Rows
  <2>7. ASSUME NEW x \in Tab, tab[x] # Idle, tab[x].me # None, tab[x].me.customer # None
        PROVE  tab[x].me.customer \in Checkout
    BY <2>7, Busy DEF Requests, Rows
  <2> QED  BY <2>3, <2>4, <2>5, <2>6, <2>7 DEF Customers, Linked
<1>5. ASSUME NEW u \in User, ExpireMail(u)  PROVE  Customers'
  BY <1>5 DEF ExpireMail, Customers, Linked
<1>6. ASSUME NEW u \in User, Disable(u)  PROVE  Customers'
  <2>1. row[u] \in Rows  BY <1>6 DEF Disable, Typed
  <2> DEFINE r == [row[u] EXCEPT !.active = FALSE]
  <2>2. r.customer = row[u].customer /\ row[u] # None  BY <2>1 DEF Rows
  <2>3. row' = [row EXCEPT ![u] = r]  BY <1>6 DEF Disable
  <2> HIDE DEF r
  <2>4. \A w \in User : row'[w] # None => row[w] # None /\ row'[w].customer = row[w].customer
    BY <2>2, <2>3 DEF Typed
  <2>5. UNCHANGED <<sale, tab>>  BY <1>6 DEF Disable
  <2> QED  BY <2>4, <2>5 DEF Customers, Linked
<1>7. CASE Lapse  BY <1>7 DEF Lapse, Customers, Linked
<1>8. CASE UNCHANGED vars  BY <1>8 DEF vars, Customers, Linked
<1> QED  BY <1>1, <1>2, <1>3, <1>4, <1>5, <1>6, <1>7, <1>8 DEF Next

(* What Stripe says of a user, spelt out after a step.                      *)
LEMMA TruthNext ==
  ASSUME NEW u, NEW r, row'[u] = r, r # None
  PROVE  /\ r.customer = None => Truth(u)' = None
         /\ r.customer # None => Truth(u)' = sale'[r.customer].plan
BY DEF Truth

(* The status in a new JWT is what Stripe says now, or said before.         *)
LEMMA OutcomeBills ==
  ASSUME Base, Customers, Statuses, NEW t \in Tab, tab[t] \in Requests, tab[t] # Idle,
         Fits(tab[t]), tab[t].result = "sent", Outcome(t), Keeps(tab[t]), RowStep(t),
         NEW given \in Tokens, tab'[t].setJwt = given
  PROVE  /\ given.status \in since[given.user] \/ given.status = Truth(given.user)'
         /\ tab'[t].result = "ok" /\ tab[t].kind \in SignIns \cup {"sync", "revalidate"} =>
              given.status = Truth(given.user)'
<1> USE NonesApart DEF Base
<1> DEFINE q == tab[t]
<1>1. ~ LeavesAlone(t)
  <2> SUFFICES ASSUME LeavesAlone(t) PROVE FALSE  OBVIOUS
  <2>1. PICK r \in {"crashed", "interrupted"} : Answered(t, r, Keep, Keep)
    BY DEF LeavesAlone
  <2> QED  BY <2>1, AnsweredDoes DEF Results
<1>2. ~ LogsOut(t)
  <2> SUFFICES ASSUME LogsOut(t) PROVE FALSE  OBVIOUS
  <2>1. PICK r \in Results \ {"sent"}, j \in {None, Keep} : Answered(t, r, None, j)
    BY DEF LogsOut
  <2> QED  BY <2>1, AnsweredDoes
<1>3. ASSUME NEW v, NEW j, SignsIn(t, v, j)
      PROVE  /\ tab'[t].setJwt = j /\ j.status = Truth(j.user)'
  <2>1. /\ v.key \in Sid /\ v.me \in Rows /\ q.kind \in SignIns /\ sale' = sale
        /\ row'[v.user] = v.me /\ j \in Tokens /\ j.user = v.user
        /\ StatusFrom(q, v.me, j.status) /\ Answered(t, "ok", v.key, j)
    BY <1>3 DEF SignsIn, AsSignedIn
  <2>2. tab'[t].setJwt = j
    <3>1. PICK k \in Sid : Answered(t, "ok", k, j)  BY <2>1
    <3> QED  BY <2>1, <3>1, AnsweredDoes DEF Results
  <2>3. /\ v.me.customer = None => Truth(v.user)' = None
        /\ v.me.customer # None => Truth(v.user)' = sale'[v.me.customer].plan
    BY <2>1, TruthNext
  <2>4. j.status = Truth(v.user)'  BY <2>1, <2>3 DEF StatusFrom
  <2> QED  BY <2>1, <2>2, <2>4
<1>4. ASSUME NEW v, NEW j, SavesAs(t, v, j)
      PROVE  /\ tab'[t].setJwt = j
             /\ j.status \in since[j.user] \/ j.status = Truth(j.user)'
             /\ tab'[t].result = "ok" /\ q.kind \in SignIns \cup {"sync", "revalidate"} =>
                  j.status = Truth(j.user)'
  <2>1. /\ q.sid \in Sid /\ q.user # None /\ q.user \in User /\ v.result \in Results \ {"sent"}
        /\ Answered(t, v.result, q.sid, j) /\ AsBilled(q, v) /\ q.kind \in Authenticating
        /\ j \in Tokens \cup {Keep}
    BY <1>4 DEF SavesAs, AsRead, Live, Requests
  <2>2. tab'[t].setJwt = j /\ tab'[t].result = v.result
    <3>1. PICK k \in Sid, r \in Results \ {"sent"} :
            r = v.result /\ Answered(t, r, k, j)
      BY <2>1
    <3> QED  BY <2>1, <3>1, AnsweredDoes
  <2>3. j \in Tokens /\ j # Keep /\ j.user = q.user  BY <1>4, <2>2 DEF SavesAs
  <2>4. PICK me \in Rows : /\ StatusFrom(q, me, j.status)
                           /\ me = IF q.kind \in Validations THEN row[q.user] ELSE v.me
    BY <1>4, <2>3 DEF SavesAs
  <2>5. q.jwt \in Tokens /\ q.jwt.user = q.user => q.jwt.status \in since[q.user]
    BY DEF Statuses, Noticed
  <2>6. q.me.customer = None => None \in since[q.user]  BY <2>1 DEF Statuses
  <2>10. PICK u \in User : u = q.user  BY <2>1
  <2>11. Truth(u)' = Truth(j.user)'  BY <2>3, <2>10 DEF Truth
  <2>7. CASE q.kind \in Validations
    <3>1. me = row[u] /\ me # None  BY <2>4, <2>7, <2>10
    <3>2. /\ me.customer = None => Truth(u) = None
          /\ me.customer # None => Truth(u) = sale[me.customer].plan
      BY <3>1 DEF Truth
    <3>3. row' = row /\ sale' = sale
      BY <2>7 DEF Keeps, Harmless, Validations
    <3>4. Truth(u)' = Truth(u)  BY <3>3 DEF Truth
    <3>5. Truth(u) \in since[u]  BY DEF Statuses
    <3>6. j.status \in since[j.user]
      BY <2>3, <2>4, <2>5, <2>10, <3>2, <3>5 DEF StatusFrom
    <3>7. q.kind = "revalidate" => j.status = Truth(u)
      BY <2>4, <3>2 DEF StatusFrom
    <3> QED  BY <2>2, <2>7, <2>11, <3>4, <3>6, <3>7 DEF SignIns, Validations
  <2>8. CASE /\ q.kind \notin Validations /\ v.me.customer = q.me.customer
             /\ q.kind = "sync" => v.result # "ok"
    <3>1. me = v.me  BY <2>4, <2>8
    <3>2. q.kind \in Guarded  BY <2>1, <2>8 DEF Authenticating
    <3>3. j.status \in since[q.user]
      BY <2>4, <2>5, <2>6, <2>8, <3>1, <3>2 DEF StatusFrom, Guarded, SignIns
    <3> QED  BY <2>2, <2>3, <2>8, <3>2, <3>3 DEF Guarded, SignIns, Validations
  <2>9. CASE /\ q.kind = "sync" /\ q.me.customer = None /\ v.me.customer = q.sale
             /\ row' = [row EXCEPT ![q.user] = v.me] /\ sale' = sale
    <3>1. me = v.me /\ me # None  BY <2>4, <2>9 DEF Validations
    <3>2. q.sale # None  BY <2>9 DEF Fits
    <3>3. row'[u] = me  BY <2>1, <2>9, <2>10, <3>1 DEF Typed
    <3>4. me.customer # None => Truth(u)' = sale'[me.customer].plan
      BY <3>1, <3>3, TruthNext
    <3>5. j.status = Truth(u)'
      BY <2>4, <2>9, <3>1, <3>2, <3>4 DEF StatusFrom
    <3> QED  BY <2>2, <2>11, <3>5
  <2> QED  BY <2>1, <2>7, <2>8, <2>9 DEF AsBilled, Validations
<1> QED  BY <1>1, <1>2, <1>3, <1>4 DEF Outcome

LEMMA StatusesInit == Init => Statuses
BY NonesApart DEF Init, Statuses, Truth, Noticed

LEMMA StatusesStep == Base /\ Pairs /\ Customers /\ Statuses /\ [Next]_vars => Statuses'
<1> SUFFICES ASSUME Base, Pairs, Customers, Statuses, [Next]_vars PROVE Statuses'  OBVIOUS
<1> USE NonesApart DEF Base
<1>1. ASSUME NEW t \in Tab, NEW kind \in Asked, NEW who \in User \cup {None},
             NEW c \in Checkout \cup {None}, Send(t, kind, who, c)
      PROVE  Statuses'
  <2>1. PICK q \in Requests :
          /\ Asking(q, kind, who, c) /\ Fits(q)
          /\ tab' = [x \in Tab |-> IF x # t THEN Overlapped(tab[x]) ELSE q]
    BY <1>1, SendDoes
  <2>2. UNCHANGED <<row, sale, cookie, since>>  BY <1>1, SendDoes
  <2>3. \A u : Truth(u)' = Truth(u)  BY <2>2 DEF Truth
  <2>4. ASSUME NEW x \in Tab, tab'[x] # Idle
        PROVE  /\ Noticed(tab'[x].jwt) /\ Noticed(tab'[x].setJwt)
               /\ tab'[x].result = "sent" /\ tab'[x].user # None /\ tab'[x].me.customer = None =>
                    None \in since[tab'[x].user]
               /\ ~ Renewal(tab'[x])
    <3>1. CASE x = t
      <4>1. q.jwt \in {cookie.jwt, None} /\ q.setJwt = Keep /\ q.result = "sent"
        BY <2>1 DEF Asking, Fits
      <4>2. ASSUME q.user # None, q.me.customer = None  PROVE  None \in since[q.user]
        <5>1. q.user \in User /\ q.me = row[q.user]  BY <2>1, <4>2 DEF Asking, Requests
        <5>2. Truth(q.user) = None  BY <4>2, <5>1 DEF Truth
        <5> QED  BY <5>1, <5>2 DEF Statuses
      <4> QED  BY <2>1, <3>1, <4>1, <4>2 DEF Statuses, Noticed, Renewal
    <3>2. CASE x # t
      <4>1. tab'[x] = Overlapped(tab[x])  BY <2>1, <3>2
      <4> QED  BY <2>4, <4>1, OverlappedIs DEF Statuses, Renewal
    <3> QED  BY <3>1, <3>2
  <2> QED  BY <2>2, <2>3, <2>4 DEF Statuses, Noticed, Renewal
<1>2. ASSUME NEW t \in Tab, AnswerRequest(t)  PROVE  Statuses'
  <2>1. /\ tab[t] \in Requests /\ Fits(tab[t]) /\ tab[t].result = "sent" /\ tab[t] # Idle
        /\ RowStep(t) /\ Outcome(t) /\ Keeps(tab[t]) /\ cookie' = cookie
        /\ \A u \in User : since'[u] = since[u] \cup {Truth(u)'}
    BY <1>2, AnswerRequestDoes, IdleApart DEF Noted
  <2>2. GetsAnswer(t)  BY <2>1, OutcomeTyped
  <2>3. ASSUME NEW j, Noticed(j)  PROVE  j \in Tokens => j.status \in since'[j.user]
    BY <2>1, <2>3 DEF Noticed, Tokens
  <2>4. ASSUME NEW j \in Tokens, tab'[t].setJwt = j
        PROVE  /\ j.status \in since'[j.user]
               /\ Renewal(tab'[t]) => j.status = Truth(j.user)'
    <3>1. j.user \in User  BY DEF Tokens
    <3>2. /\ j.status \in since[j.user] \/ j.status = Truth(j.user)'
          /\ tab'[t].result = "ok" /\ tab[t].kind \in SignIns \cup {"sync", "revalidate"} =>
               j.status = Truth(j.user)'
      BY <2>1, <2>4, OutcomeBills
    <3> QED  BY <2>1, <2>2, <3>1, <3>2 DEF Renewal, GetsAnswer
  <2>5. ASSUME NEW x \in Tab, tab'[x] # Idle
        PROVE  /\ tab'[x].jwt \in Tokens => tab'[x].jwt.status \in since'[tab'[x].jwt.user]
               /\ tab'[x].setJwt \in Tokens =>
                    tab'[x].setJwt.status \in since'[tab'[x].setJwt.user]
               /\ tab'[x].result = "sent" /\ tab'[x].user # None /\ tab'[x].me.customer = None =>
                    None \in since'[tab'[x].user]
    <3>1. CASE x = t  BY <2>2, <2>4, <3>1 DEF GetsAnswer
    <3>2. CASE x # t
      <4>1. tab'[x] = tab[x] /\ tab[x] # Idle  BY <2>2, <2>5, <3>2 DEF GetsAnswer
      <4>2. Noticed(tab[x].jwt) /\ Noticed(tab[x].setJwt)  BY <4>1 DEF Statuses
      <4>3. tab[x].user # None => tab[x].user \in User  BY <4>1, Busy DEF Requests
      <4>4. ASSUME tab[x].result = "sent", tab[x].user # None, tab[x].me.customer = None
            PROVE  None \in since'[tab[x].user]
        BY <2>1, <4>1, <4>3, <4>4 DEF Statuses
      <4> QED  BY <2>3, <4>1, <4>2, <4>4
    <3> QED  BY <3>1, <3>2
  <2>6. ASSUME NEW x \in Tab, tab'[x] # Idle, Renewal(tab'[x])  PROVE  x = t
    <3>1. ASSUME x # t  PROVE  FALSE
      <4>1. tab'[x] = tab[x]  BY <2>2, <3>1 DEF GetsAnswer
      <4>2. tab[x].calm = TRUE  BY <2>6, <4>1 DEF Renewal
      <4> QED  BY <2>1, <2>6, <3>1, <4>1, <4>2 DEF Pairs, CalmAlone
    <3> QED  BY <3>1
  <2>7. \A u \in User : Truth(u)' \in since'[u]  BY <2>1
  <2>8. cookie.jwt \in Tokens => cookie.jwt.status \in since'[cookie.jwt.user]
    BY <2>3 DEF Statuses
  <2>9. ASSUME NEW x \in Tab, tab'[x] # Idle, Renewal(tab'[x]),
               NEW j, j = tab'[x].setJwt
        PROVE  j.status = Truth(j.user)'
    BY <2>4, <2>6, <2>9 DEF Renewal
  <2>10. ASSUME NEW x \in Tab, tab'[x] # Idle, Renewal(tab'[x])
         PROVE  (tab[x].setJwt.status = Truth(tab[x].setJwt.user))'
    <3>1. PICK j : j = tab'[x].setJwt  OBVIOUS
    <3>2. j.status = Truth(j.user)'  BY <2>9, <2>10, <3>1
    <3> QED  BY <3>1, <3>2 DEF Truth
  <2> QED  BY <2>1, <2>5, <2>7, <2>8, <2>10 DEF Statuses, Noticed, Renewal
<1>3. ASSUME NEW t \in Tab, Deliver(t)  PROVE  Statuses'
  <2> DEFINE q == tab[t]
             renewed == q.setJwt \notin {Keep, None} /\ q.result = "ok"
                        /\ q.kind \in SignIns \cup {"sync", "revalidate"}
             kept(u) == UNION {Carried(tab[x], u) : x \in {y \in Tab :
                                 tab[y] # Idle /\ ~ tab[y].calm}}
  <2>1. /\ q \in Requests /\ q # Idle
        /\ cookie'.jwt = IF q.setJwt = Keep THEN cookie.jwt ELSE q.setJwt
        /\ tab'[t] = Idle /\ \A x \in Tab : x # t => tab'[x] = tab[x]
        /\ UNCHANGED <<row, sale>>
    BY <1>3, DeliverDoes
  <2>2. since' = [u \in User |-> IF renewed /\ u = q.setJwt.user
                                THEN {Truth(u)} \cup kept(u) ELSE since[u]]
    BY <1>3 DEF Deliver
  <2>3. \A u : Truth(u)' = Truth(u)  BY <2>1 DEF Truth
  <2>4. CASE renewed
    <3> PICK u \in User : u = q.setJwt.user  BY <2>1, <2>4 DEF Requests, Tokens
    <3>1. q.setJwt \in Tokens  BY <2>1, <2>4 DEF Requests
    <3>2. since'[u] = {Truth(u)} \cup kept(u)  BY <2>2, <2>4
    <3>3. ASSUME NEW x \in Tab, tab[x] # Idle, ~ tab[x].calm, NEW p \in Carried(tab[x], u)
          PROVE  p \in since'[u]
      BY <3>2, <3>3
    <3>4. ASSUME NEW v \in User, v # u  PROVE  since'[v] = since[v]
      BY <2>2, <3>4
    <3>5. ASSUME NEW v \in User  PROVE  Truth(v)' \in since'[v]
      BY <2>2, <2>3, <3>5 DEF Statuses
    <3>6. q.setJwt.status \in since'[u]
      <4>1. CASE q.calm = TRUE
        <5>1. Renewal(q)  BY <2>4, <3>1, <4>1 DEF Renewal
        <5> QED  BY <2>1, <3>2, <5>1 DEF Statuses
      <4>2. CASE q.calm # TRUE
        <5>1. q.setJwt.status \in Carried(q, u)  BY <3>1 DEF Carried
        <5> QED  BY <2>1, <3>3, <4>2, <5>1
      <4> QED  BY <4>1, <4>2
    <3>7. cookie'.jwt = q.setJwt  BY <2>1, <3>1
    <3>8. ASSUME NEW x \in Tab, tab'[x] # Idle
          PROVE  /\ tab'[x] = tab[x] /\ tab[x] # Idle /\ tab[x].calm # TRUE
                 /\ tab[x] \in Requests
      <4>1. x # t /\ tab'[x] = tab[x]  BY <2>1, <3>8
      <4>2. tab[x].calm # TRUE  BY <2>1, <3>8, <4>1 DEF Pairs, CalmAlone
      <4> QED  BY <3>8, <4>1, <4>2 DEF Typed
    <3>9. ASSUME NEW x \in Tab, tab'[x] # Idle, NEW j \in Tokens, j \in {tab[x].jwt, tab[x].setJwt}
          PROVE  j.status \in since'[j.user]
      <4>1. CASE j.user = u
        <5>1. j.status \in Carried(tab[x], u)  BY <3>9, <4>1 DEF Carried
        <5> QED  BY <3>3, <3>8, <3>9, <4>1, <5>1
      <4>2. CASE j.user # u
        <5>1. j.status \in since[j.user]  BY <3>8, <3>9 DEF Statuses, Noticed
        <5> QED  BY <3>4, <4>2, <5>1 DEF Tokens
      <4> QED  BY <4>1, <4>2
    <3>10. ASSUME NEW x \in Tab, tab'[x] # Idle, tab[x].result = "sent", tab[x].user # None,
                  tab[x].me.customer = None
           PROVE  None \in since'[tab[x].user]
      <4>1. tab[x] \in Requests /\ tab[x] # Idle  BY <3>8, <3>10
      <4>2. tab[x].me # None  BY <4>1, <3>10 DEF Formed, Fits
      <4>3. CASE tab[x].user = u
        <5>1. None \in Carried(tab[x], u)  BY <3>10, <4>2, <4>3 DEF Carried
        <5> QED  BY <3>3, <3>8, <3>10, <4>3, <5>1
      <4>4. CASE tab[x].user # u
        <5>1. None \in since[tab[x].user]  BY <3>10, <4>1 DEF Statuses
        <5> QED  BY <3>4, <3>10, <4>1, <4>4, <5>1 DEF Requests
      <4> QED  BY <4>3, <4>4
    <3> HIDE DEF kept
    <3>11. ASSUME NEW x \in Tab, tab'[x] # Idle, Renewal(tab'[x])  PROVE FALSE
      BY <3>8, <3>11 DEF Renewal
    <3> QED  BY <3>5, <3>6, <3>7, <3>8, <3>9, <3>10, <3>11 DEF Statuses, Noticed
  <2>5. CASE ~ renewed
    <3>1. since' = since  BY <2>2, <2>5 DEF Typed
    <3>2. Noticed(q.setJwt) /\ Noticed(cookie.jwt)  BY <2>1 DEF Statuses
    <3>3. cookie'.jwt \in {cookie.jwt, q.setJwt}  BY <2>1
    <3>4. ASSUME NEW x \in Tab, tab'[x] # Idle  PROVE  tab'[x] = tab[x] /\ tab[x] # Idle
      BY <2>1, <3>4
    <3> QED  BY <2>3, <3>1, <3>2, <3>3, <3>4 DEF Statuses, Noticed, Renewal
  <2> QED  BY <2>4, <2>5
<1>4. ASSUME NEW c \in Checkout, Pay(c)  PROVE  Statuses'
  <2>1. UNCHANGED <<row, cookie, tab, since>>  BY <1>4 DEF Pay
  <2>2. \A d \in Checkout : sale[d].plan # None => sale'[d].plan = sale[d].plan
    BY <1>4 DEF Pay, Typed
  <2>3. \A u \in User : row[u] # None /\ row[u].customer # None =>
          row[u].customer \in Checkout /\ sale[row[u].customer].plan # None
    BY DEF Customers, Linked, Typed, Rows
  <2>4. \A u \in User : Truth(u)' = Truth(u)  BY <2>1, <2>2, <2>3 DEF Truth
  <2>5. \A x \in Tab : Renewal(tab[x]) => tab[x].setJwt.user \in User
    BY DEF Renewal, Tokens
  <2> QED  BY <2>1, <2>4, <2>5 DEF Statuses, Noticed, Renewal
<1>5. ASSUME NEW c \in Checkout, ChangePlan(c)  PROVE  Statuses'
  <2>1. /\ UNCHANGED <<row, cookie, tab>>
        /\ \A u \in User : since'[u] = since[u] \cup {Truth(u)'}
        /\ \A x \in Tab : tab[x] # Idle /\ tab[x].calm => tab[x].result = "sent"
    BY <1>5 DEF ChangePlan, Noted
  <2>2. ASSUME NEW j, Noticed(j)  PROVE  j \in Tokens => j.status \in since'[j.user]
    BY <2>1, <2>2 DEF Noticed, Tokens
  <2>3. \A x \in Tab : tab[x] # Idle => ~ Renewal(tab[x])  BY <2>1 DEF Renewal
  <2>4. ASSUME NEW x \in Tab, tab[x] # Idle
        PROVE  /\ tab[x].jwt \in Tokens => tab[x].jwt.status \in since'[tab[x].jwt.user]
               /\ tab[x].setJwt \in Tokens =>
                    tab[x].setJwt.status \in since'[tab[x].setJwt.user]
               /\ tab[x].result = "sent" /\ tab[x].user # None /\ tab[x].me.customer = None =>
                    None \in since'[tab[x].user]
    <3>1. Noticed(tab[x].jwt) /\ Noticed(tab[x].setJwt)  BY <2>4 DEF Statuses
    <3>2. tab[x].user # None => tab[x].user \in User  BY <2>4, Busy DEF Requests
    <3>3. ASSUME tab[x].result = "sent", tab[x].user # None, tab[x].me.customer = None
          PROVE  None \in since'[tab[x].user]
      BY <2>1, <2>4, <3>2, <3>3 DEF Statuses
    <3> QED  BY <2>2, <3>1, <3>3
  <2>5. cookie.jwt \in Tokens => cookie.jwt.status \in since'[cookie.jwt.user]
    BY <2>2 DEF Statuses
  <2>6. \A u \in User : Truth(u)' \in since'[u]  BY <2>1
  <2> QED  BY <2>1, <2>3, <2>4, <2>5, <2>6 DEF Statuses, Noticed, Renewal
<1>6. ASSUME NEW u \in User, ExpireMail(u)  PROVE  Statuses'
  BY <1>6 DEF ExpireMail, Statuses, Noticed, Renewal, Truth
<1>7. ASSUME NEW u \in User, Disable(u)  PROVE  Statuses'
  <2>1. row[u] \in Rows  BY <1>7 DEF Disable, Typed
  <2> DEFINE r == [row[u] EXCEPT !.active = FALSE]
  <2>2. r \in Rows /\ r.customer = row[u].customer /\ row[u] # None  BY <2>1 DEF Rows
  <2>3. row' = [row EXCEPT ![u] = r]  BY <1>7 DEF Disable
  <2> HIDE DEF r
  <2>4. \A w \in User : /\ row'[w] = None <=> row[w] = None
                        /\ row[w] # None => row'[w].customer = row[w].customer
    BY <2>2, <2>3 DEF Typed
  <2>5. UNCHANGED <<sale, cookie, tab, since>>  BY <1>7 DEF Disable
  <2>6. \A w \in User : Truth(w)' = Truth(w)  BY <2>4, <2>5 DEF Truth
  <2>7. \A x \in Tab : Renewal(tab[x]) => tab[x].setJwt.user \in User
    BY DEF Renewal, Tokens
  <2> QED  BY <2>5, <2>6, <2>7 DEF Statuses, Noticed, Renewal
<1>8. CASE Lapse
  <2>1. UNCHANGED <<row, sale, tab, since>> /\ cookie'.jwt = None
    BY <1>8 DEF Lapse, Typed
  <2> QED  BY <2>1 DEF Statuses, Noticed, Renewal, Truth
<1>9. CASE UNCHANGED vars  BY <1>9 DEF vars, Statuses, Noticed, Renewal, Truth
<1> QED  BY <1>1, <1>2, <1>3, <1>4, <1>5, <1>6, <1>7, <1>8, <1>9 DEF Next

LEMMA StatusesHold == Spec => [](Base /\ Pairs /\ Customers /\ Statuses)
<1>1. Init => Base /\ Pairs /\ Customers /\ Statuses
  BY BaseInit, PairsInit, CustomersInit, StatusesInit
<1>2. Base /\ Pairs /\ Customers /\ Statuses /\ [Next]_vars
        => (Base /\ Pairs /\ Customers /\ Statuses)'
  BY BaseStep, PairsStep, CustomersStep, StatusesStep
<1> QED  BY <1>1, <1>2, PTL DEF Spec

(* The JWT of the browser says of a subscription what Stripe has said since *)
(* it was last asked, by a sign-in, a sync or a forced reload, or what a    *)
(* request that overlapped with that one still carried as its answer        *)
(* arrived. Nothing else that was so before is ever brought back: not by    *)
(* AuthTokenCookieMiddleware, and not by answers in another order.          *)
THEOREM BillingTrueCorrect == Spec => []BillingTrue
<1>1. Base /\ Statuses => BillingTrue
  BY NonesApart DEF Base, Typed, Statuses, Noticed, BillingTrue
<1> QED  BY <1>1, StatusesHold, PTL

-----------------------------------------------------------------------------
(* Passwords are numbered up to the bound.                                  *)

LEMMA FreshKept ==
  ASSUME \A n \in 1..MaxPassword : Reached(n)' => Reached(n)
  PROVE  Fresh' <= Fresh
<1> DEFINE S == {n \in 1..MaxPassword : Reached(n)}
           T == {n \in 1..MaxPassword : Reached(n)'}
<1>1. IsFiniteSet(1..MaxPassword)  BY SessionsAssumption, FS_Interval
<1>2. S \subseteq 1..MaxPassword /\ T \subseteq S  OBVIOUS
<1>3. Fresh = 1 + Cardinality(S) /\ Fresh' = 1 + Cardinality(T)  BY DEF Fresh, Reached
<1> HIDE DEF S, T
<1>4. IsFiniteSet(S)  BY <1>1, <1>2, FS_Subset
<1>5. Cardinality(T) <= Cardinality(S) /\ IsFiniteSet(T)  BY <1>2, <1>4, FS_Subset
<1>6. Cardinality(T) \in Nat /\ Cardinality(S) \in Nat  BY <1>4, <1>5, FS_CardinalityType
<1> QED  BY <1>3, <1>5, <1>6

LEMMA PasswordsInit == Init => Passwords
BY IdleApart DEF Init, Passwords, Changes, Kinds, Guarded, Mailing

LEMMA PasswordsStep == Base /\ Pairs /\ Passwords /\ [Next]_vars => Passwords'
<1> SUFFICES ASSUME Base, Pairs, Passwords, [Next]_vars PROVE Passwords'  OBVIOUS
<1> USE NonesApart DEF Base
<1>0. Changes \subseteq Kinds  BY DEF Changes, Kinds, Guarded, Mailing
<1>1. ASSUME NEW t \in Tab, NEW kind \in Asked, NEW who \in User \cup {None},
             NEW c \in Checkout \cup {None}, Send(t, kind, who, c)
      PROVE  Passwords'
  <2>1. PICK q \in Requests :
          /\ Asking(q, kind, who, c) /\ Fits(q)
          /\ tab' = [x \in Tab |-> IF x # t THEN Overlapped(tab[x]) ELSE q]
    BY <1>1, SendDoes
  <2>2. UNCHANGED <<row, session>>  BY <1>1, SendDoes
  <2>3. tab'[t] = q /\ q.kind = kind /\ (q.me # None => q.user \in User /\ q.me = row[q.user])
    BY <2>1 DEF Asking, Requests
  <2>4. ASSUME NEW x \in Tab, x # t
        PROVE  /\ tab'[x].kind = tab[x].kind /\ tab'[x].result = tab[x].result
               /\ tab'[x] = Idle <=> tab[x] = Idle
               /\ tab[x] # Idle => tab'[x].me = tab[x].me
    <3>1. tab'[x] = Overlapped(tab[x])  BY <2>1, <2>4
    <3> QED  BY <3>1, OverlappedIs
  <2>5. \A n \in 1..MaxPassword : Reached(n)' => Reached(n)
    BY <2>2, <2>3, <2>4 DEF Reached
  <2>6. Fresh' <= Fresh  BY <2>5, FreshKept
  <2>7. kind \in Changes => /\ Fresh <= MaxPassword
                            /\ \A x \in Tab : tab[x].kind \notin Changes
    BY <1>1 DEF Send, Sensible, Changes
  <2>8. Fresh \in Int /\ Fresh' \in Int /\ MaxPassword \in Int
    <3>1. (Fresh \in 1 .. MaxPassword + 1)'  BY FreshIsNat, PTL
    <3> QED  BY <3>1, FreshIsNat, SessionsAssumption
  <2>9. \A x \in Tab : tab'[x].kind \in Changes /\ tab'[x].result = "sent" => Fresh' <= MaxPassword
    BY <2>3, <2>4, <2>6, <2>7, <2>8 DEF Passwords
  <2> QED  BY <2>2, <2>3, <2>4, <2>7, <2>9 DEF Passwords
<1>2. ASSUME NEW t \in Tab, AnswerRequest(t)  PROVE  Passwords'
  <2>1. /\ tab[t] \in Requests /\ Fits(tab[t]) /\ tab[t].result = "sent" /\ tab[t] # Idle
        /\ RowStep(t) /\ Outcome(t)
    BY <1>2, AnswerRequestDoes, IdleApart
  <2>2. GetsAnswer(t) /\ SessionStep(t)  BY <2>1, OutcomeTyped, OutcomeDoes
  <2>3. tab[t].me # None => tab[t].me \in Rows /\ tab[t].me.password <= MaxPassword
    BY <2>1 DEF Requests, Passwords
  <2>4. ASSUME tab[t].kind \notin Changes,
               NEW n \in 1..MaxPassword, NEW u \in User, row'[u] # None, row'[u].password >= n
        PROVE  Reached(n)
    <3>1. CASE row'[u] = row[u]  BY <2>4, <3>1 DEF Reached
    <3>2. CASE PasswordFrom(t, u)
      <4>1. row'[u].password # 0  BY <2>4, SessionsAssumption
      <4>2. row[u] # None /\ row'[u].password = row[u].password => Reached(n)
        BY <2>4 DEF Reached
      <4>3. tab[t].me # None /\ row'[u].password = tab[t].me.password => Reached(n)
        BY <2>1, <2>4 DEF Reached
      <4> QED  BY <2>4, <3>2, <4>1, <4>2, <4>3 DEF PasswordFrom, Changes
    <3> QED  BY <2>1, <3>1, <3>2 DEF RowStep
  <2>5. ASSUME tab[t].kind \notin Changes,
               NEW n \in 1..MaxPassword, NEW k \in Sid, session'[k] # None,
               session'[k].password >= n
        PROVE  Reached(n)
    <3>1. CASE session'[k] = session[k]  BY <2>5, <3>1 DEF Reached
    <3>2. CASE /\ k = tab[t].sid /\ session[k] # None /\ tab[t].read # None
               /\ SameAs(session'[k], tab[t].read)
      <4>1. session[k].password = session'[k].password
        BY <2>1, <2>5, <3>2 DEF Pairs, SameUser, SameAs, Live
      <4> QED  BY <2>5, <3>2, <4>1 DEF Reached
    <3>3. CASE \E u \in User : row'[u] # None /\ session'[k].password = row'[u].password
      BY <2>4, <2>5, <3>3
    <3> QED  BY <2>2, <2>5, <3>1, <3>2, <3>3 DEF SessionStep
  <2>6. ASSUME tab[t].kind \notin Changes, NEW n \in 1..MaxPassword, Reached(n)'
        PROVE  Reached(n)
    <3>1. \/ \E u \in User : row'[u] # None /\ row'[u].password >= n
          \/ \E s \in Sid : session'[s] # None /\ session'[s].password >= n
          \/ \E x \in Tab : tab'[x] # Idle /\ tab'[x].me # None /\ tab'[x].me.password >= n
      BY <2>6 DEF Reached
    <3>2. (\E x \in Tab : tab'[x] # Idle /\ tab'[x].me # None /\ tab'[x].me.password >= n)
            => Reached(n)
      BY <2>2 DEF GetsAnswer, Reached
    <3> QED  BY <2>4, <2>5, <2>6, <3>1, <3>2
  <2>7. tab[t].kind \notin Changes => Fresh' <= Fresh  BY <2>6, FreshKept
  <2>8. Fresh \in Int /\ Fresh' \in Int /\ MaxPassword \in Int
    <3>1. (Fresh \in 1 .. MaxPassword + 1)'  BY FreshIsNat, PTL
    <3> QED  BY <3>1, FreshIsNat, SessionsAssumption
  <2>9. ASSUME NEW x \in Tab, tab'[x].kind \in Changes, tab'[x].result = "sent"
        PROVE  Fresh' <= MaxPassword
    <3>1. x # t /\ tab'[x] = tab[x]  BY <2>2, <2>9 DEF GetsAnswer
    <3>2. Fresh <= MaxPassword /\ tab[t].kind \notin Changes
      BY <2>9, <3>1 DEF Passwords
    <3> QED  BY <2>7, <2>8, <3>2
  <2>10. ASSUME NEW u \in User, row'[u] # None  PROVE  row'[u].password <= MaxPassword
    <3>1. CASE row'[u] = row[u]  BY <2>10, <3>1 DEF Passwords
    <3>2. CASE PasswordFrom(t, u)
      <4>1. tab[t].kind \in Changes => Fresh <= MaxPassword  BY <2>1 DEF Passwords
      <4> QED  BY <2>3, <3>2, <4>1, SessionsAssumption DEF PasswordFrom, Changes, Passwords
    <3> QED  BY <2>1, <3>1, <3>2 DEF RowStep
  <2>11. \A x \in Tab : tab'[x].kind = tab[x].kind
    BY <2>2 DEF GetsAnswer
  <2>12. \A x \in Tab : tab'[x] # Idle /\ tab'[x].me # None => tab'[x] = tab[x]
    BY <2>2 DEF GetsAnswer
  <2> QED  BY <2>9, <2>10, <2>11, <2>12 DEF Passwords
<1>3. ASSUME NEW t \in Tab, Deliver(t)  PROVE  Passwords'
  <2>1. /\ tab'[t] = Idle /\ \A x \in Tab : x # t => tab'[x] = tab[x]
        /\ \A k \in Sid : session'[k] = session[k] \/ session'[k] = None
        /\ row' = row
    BY <1>3, DeliverDoes
  <2>2. \A n \in 1..MaxPassword : Reached(n)' => Reached(n)  BY <2>1 DEF Reached
  <2>3. Fresh' <= Fresh  BY <2>2, FreshKept
  <2>4. Fresh \in Int /\ Fresh' \in Int /\ MaxPassword \in Int
    <3>1. (Fresh \in 1 .. MaxPassword + 1)'  BY FreshIsNat, PTL
    <3> QED  BY <3>1, FreshIsNat, SessionsAssumption
  <2>5. Idle.kind \notin Changes  BY <1>0, IdleApart
  <2>6. \A x \in Tab : tab'[x].kind \in Changes => tab'[x] = tab[x]  BY <2>1, <2>5
  <2>7. \A x \in Tab : tab'[x].kind \in Changes /\ tab'[x].result = "sent" => Fresh' <= MaxPassword
    BY <2>3, <2>4, <2>6 DEF Passwords
  <2> QED  BY <2>1, <2>6, <2>7 DEF Passwords
<1>4. ASSUME NEW u \in User, Disable(u)  PROVE  Passwords'
  <2>1. row[u] \in Rows  BY <1>4 DEF Disable, Typed
  <2> DEFINE r == [row[u] EXCEPT !.active = FALSE]
  <2>2. r.password = row[u].password /\ row[u] # None  BY <2>1 DEF Rows
  <2>3. row' = [row EXCEPT ![u] = r]  BY <1>4 DEF Disable
  <2> HIDE DEF r
  <2>4. \A w \in User : row'[w] # None => row[w] # None /\ row'[w].password = row[w].password
    BY <2>2, <2>3 DEF Typed
  <2>5. UNCHANGED <<session, tab>>  BY <1>4 DEF Disable
  <2>6. \A n \in 1..MaxPassword : Reached(n)' => Reached(n)  BY <2>4, <2>5 DEF Reached
  <2>7. Fresh' <= Fresh  BY <2>6, FreshKept
  <2>8. Fresh \in Int /\ Fresh' \in Int /\ MaxPassword \in Int
    <3>1. (Fresh \in 1 .. MaxPassword + 1)'  BY FreshIsNat, PTL
    <3> QED  BY <3>1, FreshIsNat, SessionsAssumption
  <2> QED  BY <2>4, <2>5, <2>7, <2>8 DEF Passwords
<1>5. ASSUME UNCHANGED <<row, session, tab>>  PROVE  Passwords'
  <2>1. Fresh' = Fresh  BY <1>5 DEF Fresh
  <2> QED  BY <1>5, <2>1 DEF Passwords
<1>6. ASSUME NEW c \in Checkout, Pay(c) \/ ChangePlan(c)  PROVE  Passwords'
  BY <1>5, <1>6 DEF Pay, ChangePlan
<1>7. ASSUME NEW u \in User, ExpireMail(u)  PROVE  Passwords'
  BY <1>5, <1>7 DEF ExpireMail
<1>8. CASE Lapse  BY <1>5, <1>8 DEF Lapse
<1>9. CASE UNCHANGED vars  BY <1>5, <1>9 DEF vars
<1> QED  BY <1>1, <1>2, <1>3, <1>4, <1>6, <1>7, <1>8, <1>9 DEF Next

(* Rows, sessions and requests keep their shape, and every customer at      *)
(* Stripe that a row names is of a checkout which that very user began and  *)
(* has paid: UserSyncStripeSerializer links nobody to the checkout of       *)
(* another, however the requests of a browser overlap.                      *)
THEOREM TypeCorrect == Spec => []TypeOK
<1>1. Base /\ Customers /\ Passwords => TypeOK
  <2> SUFFICES ASSUME Base, Customers, Passwords PROVE TypeOK  OBVIOUS
  <2>1. ASSUME NEW u \in User, row[u] # None
        PROVE  /\ row[u].active \in BOOLEAN /\ row[u].verified \in BOOLEAN
               /\ row[u].password \in 0..MaxPassword
               /\ row[u].customer # None => /\ sale[row[u].customer].by = u
                                             /\ sale[row[u].customer].plan # None
    <3>1. row[u] \in Rows  BY <2>1 DEF Base, Typed
    <3> QED
      BY <2>1, <3>1, SessionsAssumption DEF Customers, Linked, Passwords, Rows
  <2>2. \A c \in Checkout : sale[c].plan \in Plans  BY DEF Base, Typed
  <2>3. \A s \in Sid : session[s] # None => session[s].user \in User
    BY DEF Base, Typed, Opened
  <2>4. \A t \in Tab : tab[t] # Idle => tab[t].kind \in Kinds  BY Busy DEF Base
  <2> QED  BY <2>1, <2>2, <2>3, <2>4 DEF TypeOK, Base, Typed
<1>2. Init => Base /\ Pairs /\ Customers /\ Passwords
  BY BaseInit, PairsInit, CustomersInit, PasswordsInit
<1>3. Base /\ Pairs /\ Customers /\ Passwords /\ [Next]_vars
        => (Base /\ Pairs /\ Customers /\ Passwords)'
  BY BaseStep, PairsStep, CustomersStep, PasswordsStep
<1> QED  BY <1>1, <1>2, <1>3, PTL DEF Spec

-----------------------------------------------------------------------------
(* From a checkout to the customer it makes.                                *)

(* The row of a user whose session s is has not changed but for being       *)
(* barred, and he is no customer yet.                                       *)
Unlinked(s) ==
  /\ row[s.user] # None /\ row[s.user].verified = TRUE
  /\ row[s.user].password = s.password /\ row[s.user].customer = None

(* The browser is signed in as whoever began the checkout.                  *)
Open ==
  LET s == session[cookie.sid] IN
  /\ Live(cookie.sid) /\ s.checkout = begun /\ sale[begun].by = s.user
  /\ Unlinked(s) /\ row[s.user].active = TRUE

Begun ==
  begun # None =>
    /\ \A t \in Tab : tab[t] # Idle =>
         /\ tab[t].calm = TRUE /\ tab[t].kind \in Harmless
         /\ tab[t].result = "sent" =>
              Open /\ tab[t].user = session[cookie.sid].user /\ tab[t].me = row[tab[t].user]
         /\ tab[t].result # "sent" => tab[t].setSid \in {None, Keep, cookie.sid}
    /\ Open \/ \E t \in Tab : tab[t] # Idle /\ tab[t].result # "sent" /\ tab[t].setSid = None

(* A checkout that is begun with no other request under way.                *)
Beginning ==
  \A t \in Tab : tab[t] # Idle /\ tab[t].calm = TRUE =>
    LET q == tab[t] IN
    /\ q.result = "sent" /\ q.user # None =>
         /\ row[q.user] # None /\ row[q.user].verified = TRUE
         /\ row[q.user].password = q.read.password
         /\ row[q.user].customer = q.me.customer
    /\ q.kind = "checkout" /\ q.result = "ok" =>
         /\ Live(q.setSid) /\ session[q.setSid].checkout = q.sale
         /\ q.user = session[q.setSid].user /\ Unlinked(session[q.setSid])
         /\ q.sale \in Checkout /\ sale[q.sale].by = q.user

(* A sync of a checkout that is due is granted.                             *)
Due ==
  \A t \in Tab : tab[t] # Idle /\ tab[t].calm = TRUE /\ tab[t].kind = "sync"
                 /\ tab[t].due = TRUE =>
    LET q == tab[t] IN
    /\ q.result \in {"sent", "ok"}
    /\ q.result = "sent" =>
         /\ q.user # None /\ q.me.customer = None
         /\ q.sale \in Checkout /\ q.read.checkout = q.sale
         /\ sale[q.sale].by = q.user /\ sale[q.sale].plan # None

Chain == Begun /\ Beginning /\ Due

LEMMA ChainInit == Init => Chain
BY DEF Init, Chain, Begun, Beginning, Due

(* Whom the request of a browser is of, that is signed in.                  *)
LEMMA AskedWhen ==
  ASSUME Typed, NEW u, u = UserOf(Loaded(cookie.sid)), u # None
  PROVE  /\ Live(cookie.sid) /\ Loaded(cookie.sid) = session[cookie.sid]
         /\ session[cookie.sid].user = u /\ u \in User
         /\ row[u] # None /\ row[u].verified = TRUE /\ row[u].active = TRUE
         /\ row[u].password = session[cookie.sid].password
<1>1. /\ Live(cookie.sid) /\ Loaded(cookie.sid) = session[cookie.sid]
      /\ Loaded(cookie.sid).user = u /\ row[u] \in Rows /\ u \in User
  BY LoadedIs
<1>2. SignedIn(Loaded(cookie.sid))  BY DEF UserOf
<1>3. FullyAuthenticated(row[u]) /\ session[cookie.sid].password = row[u].password
  BY <1>1, <1>2 DEF SignedIn
<1> QED  BY <1>1, <1>3, NonesApart DEF FullyAuthenticated, Rows

LEMMA OpenIsUser ==
  ASSUME Typed, Open
  PROVE  UserOf(Loaded(cookie.sid)) = session[cookie.sid].user
BY NonesApart DEF Typed, Open, Live, Unlinked, UserOf, SignedIn, FullyAuthenticated, Loaded

LEMMA SendKeepsChain ==
  ASSUME Base, Pairs, Chain, NEW t \in Tab, NEW kind \in Asked, NEW who \in User \cup {None},
         NEW c \in Checkout \cup {None}, Send(t, kind, who, c)
  PROVE  Chain'
<1> USE NonesApart DEF Base
<1>1. PICK q \in Requests :
        /\ Asking(q, kind, who, c) /\ Fits(q)
        /\ tab' = [x \in Tab |-> IF x # t THEN Overlapped(tab[x]) ELSE q]
  BY SendDoes
<1>2. UNCHANGED <<row, sale, session, cookie>>  BY SendDoes
<1>3. tab'[t] = q  BY <1>1
<1>4. begun' # None => Calm /\ kind \in Harmless /\ begun' = begun
  BY DEF Send, Harmless
<1>5. ASSUME NEW x \in Tab, x # t, tab'[x] # Idle
      PROVE  tab'[x].calm = FALSE /\ tab[x] # Idle
  <2>1. tab'[x] = Overlapped(tab[x])  BY <1>1, <1>5
  <2> QED  BY <1>5, <2>1, OverlappedIs
<1>6. PICK u : u = UserOf(Loaded(cookie.sid))  OBVIOUS
<1>7. /\ q.kind = kind /\ q.sale = c /\ q.result = "sent"
      /\ q.user # None => /\ q.kind \in Authenticating /\ q.user = u
                          /\ q.read = session[cookie.sid] /\ q.me = row[u]
      /\ kind \in Authenticating => q.user = u
      /\ q.user = None => q.me = None
      /\ q.due = TRUE <=> (c # None /\ c = begun /\ sale[c].plan # None)
      /\ q.calm = TRUE <=> Calm
  <2>1. q.user # None => q.kind \in Authenticating  BY <1>1 DEF Asking, Fits
  <2>2. q.user # None => q.user = u /\ q.read = session[cookie.sid] /\ q.me = row[u]
    BY <1>1, <1>6, <2>1, AskedWhen DEF Asking, Authenticating, Guarded, Validations
  <2> QED  BY <1>1, <1>6, <2>1, <2>2 DEF Asking
<1>8. Calm => Begun /\ (begun # None => Open)
  BY DEF Calm, Chain, Begun
<1>9. Begun'
  <2> SUFFICES ASSUME begun' # None PROVE Begun'  BY DEF Begun
  <2>1. Calm /\ kind \in Harmless /\ begun' = begun /\ Open  BY <1>4, <1>8
  <2>2. \A x \in Tab : tab'[x] # Idle => x = t  BY <1>5, <2>1 DEF Calm
  <2>3. u = session[cookie.sid].user /\ u # None /\ u \in User
    BY <1>6, <2>1, OpenIsUser DEF Open, Live, Typed, Opened
  <2>4. q.user = u /\ q.me = row[u] /\ q.calm = TRUE
    BY <1>7, <2>1, <2>3 DEF Harmless, Authenticating, Guarded
  <2>5. Open'  BY <1>2, <2>1 DEF Open, Live, Unlinked
  <2> QED  BY <1>2, <1>3, <1>7, <2>1, <2>2, <2>3, <2>4, <2>5 DEF Begun
<1>10. Beginning'
  <2>1. ASSUME q.user # None
        PROVE  /\ row[q.user] # None /\ row[q.user].verified = TRUE
               /\ row[q.user].password = q.read.password
               /\ row[q.user].customer = q.me.customer
    BY <1>6, <1>7, <2>1, AskedWhen
  <2> QED  BY <1>2, <1>3, <1>5, <1>7, <2>1 DEF Beginning
<1>11. Due'
  <2>1. ASSUME q.calm = TRUE, q.kind = "sync", q.due = TRUE
        PROVE  /\ q.user # None /\ q.me.customer = None
               /\ q.sale \in Checkout /\ q.read.checkout = q.sale
               /\ sale[q.sale].by = q.user /\ sale[q.sale].plan # None
    <3>1. Calm /\ c = begun /\ c # None /\ c \in Checkout /\ sale[c].plan # None
      BY <1>7, <2>1
    <3>2. Open  BY <1>8, <3>1
    <3>3. u = session[cookie.sid].user /\ u # None /\ u \in User
      BY <1>6, <3>2, OpenIsUser DEF Open, Live, Typed, Opened
    <3>4. q.user = u  BY <1>7, <2>1 DEF Authenticating, Guarded
    <3> QED  BY <1>7, <3>1, <3>2, <3>3, <3>4 DEF Open, Unlinked
  <2> QED  BY <1>2, <1>3, <1>5, <1>7, <2>1 DEF Due
<1> QED  BY <1>9, <1>10, <1>11 DEF Chain

(* What the answer of a request comes to that was sent with no other under  *)
(* way, of whoever began a checkout.                                        *)
LEMMA AnswerKeepsChain ==
  ASSUME Base, Pairs, Chain, NEW t \in Tab, AnswerRequest(t)
  PROVE  Chain'
<1> USE NonesApart DEF Base
<1> DEFINE q == tab[t]
           p == tab'[t]
<1>1. /\ q \in Requests /\ Fits(q) /\ q.result = "sent" /\ q # Idle
      /\ SaleStep(t) /\ Keeps(q) /\ Outcome(t)
      /\ cookie' = cookie /\ begun' = begun
  BY AnswerRequestDoes, IdleApart
<1>2. GetsAnswer(t)  BY <1>1, OutcomeTyped
<1>3. /\ p # Idle /\ p.result # "sent" /\ p.kind = q.kind /\ p.calm = q.calm
      /\ p.user = q.user /\ p.due = q.due /\ p.sale = q.sale
      /\ \A x \in Tab : x # t => tab'[x] = tab[x]
  BY <1>2 DEF GetsAnswer
<1>4. ASSUME LeavesAlone(t)
      PROVE  /\ session' = session /\ p.setSid = Keep
             /\ \/ p.result = "crashed" /\ q.user # None /\ Crashes(q)
                \/ p.result = "interrupted" /\ ~ Live(q.sid) /\ q.read # None
  <2>1. PICK r \in {"crashed", "interrupted"} :
          /\ Answered(t, r, Keep, Keep)
          /\ r = "crashed" => q.user # None /\ Crashes(q)
          /\ r = "interrupted" => ~ Live(q.sid) /\ q.read # None
    BY <1>4 DEF LeavesAlone
  <2>2. p.result = r /\ p.setSid = Keep  BY <1>1, <2>1, AnsweredDoes DEF Results
  <2> QED  BY <1>4, <2>1, <2>2 DEF LeavesAlone
<1>5. ASSUME LogsOut(t)
      PROVE  /\ p.setSid = None
             /\ q.kind \in Guarded => q.user = None /\ p.result = "unauthorized"
  <2>1. PICK r \in Results \ {"sent"}, j \in {None, Keep} :
          /\ Answered(t, r, None, j)
          /\ q.kind \in Guarded => q.user = None /\ r = "unauthorized"
    BY <1>5 DEF LogsOut
  <2> QED  BY <1>1, <2>1, AnsweredDoes
<1>6. ASSUME NEW v, NEW j, SavesAs(t, v, j)
      PROVE  /\ p.setSid = q.sid /\ p.result = v.result /\ q.sid \in Sid
             /\ q.user # None /\ q.read \in Opened /\ q.read.user = q.user
             /\ AsRead(q, v) /\ AsBilled(q, v) /\ v.data \in Opened
             /\ session'[q.sid] = v.data
             /\ \A k \in Sid : k # q.sid => session'[k] = session[k]
  <2>1. /\ q.sid \in Sid /\ v.result \in Results \ {"sent"}
        /\ Answered(t, v.result, q.sid, j) /\ j \in Tokens \cup {Keep}
        /\ session' = [session EXCEPT ![q.sid] = v.data]
        /\ q.user # None /\ q.read \in Opened /\ q.read.user = q.user
        /\ AsRead(q, v) /\ AsBilled(q, v)
    BY <1>6 DEF SavesAs, AsRead, Live
  <2>2. PICK k \in Sid, r \in Results \ {"sent"} :
          k = q.sid /\ r = v.result /\ Answered(t, r, k, j)
    BY <2>1
  <2>3. p.setSid = q.sid /\ p.result = v.result  BY <1>1, <2>1, <2>2, AnsweredDoes
  <2>4. v.data \in Opened  BY <2>1 DEF AsRead
  <2> QED  BY <2>1, <2>3, <2>4 DEF Typed
<1>7. ASSUME NEW v, NEW j, SignsIn(t, v, j)  PROVE  q.kind \in SignIns
  BY <1>7 DEF SignsIn, AsSignedIn
<1>8. ASSUME q.calm = TRUE
      PROVE  /\ q.sid = cookie.sid
             /\ q.kind # "logout" => q.read = Loaded(cookie.sid)
             /\ \A x \in Tab : x # t => tab[x] = Idle
  BY <1>1, <1>8 DEF Pairs, CalmAlone
<1>9. ASSUME NEW x \in Tab, tab'[x] # Idle, tab'[x].calm = TRUE  PROVE  x = t
  BY <1>1, <1>3, <1>9 DEF Pairs, CalmAlone
<1>10. Begun'
  <2> SUFFICES ASSUME begun # None PROVE Begun'  BY <1>1 DEF Begun
  <2>1. /\ q.calm = TRUE /\ q.kind \in Harmless /\ Open
        /\ q.user = session[cookie.sid].user /\ q.me = row[q.user]
    BY <1>1 DEF Chain, Begun
  <2>2. cookie.sid \in Sid /\ session[cookie.sid] \in Opened /\ q.user \in User
    BY <2>1 DEF Open, Live, Typed, Opened
  <2>3. row' = row /\ sale' = sale
    BY <1>1, <2>1, <2>2 DEF Keeps, Typed
  <2>4. ASSUME session' = session  PROVE  Open'
    BY <1>1, <2>1, <2>3, <2>4 DEF Open, Live, Unlinked
  <2>5. \A x \in Tab : tab'[x] # Idle => x = t  BY <1>3, <1>8, <2>1
  <2>6. ASSUME LeavesAlone(t)  PROVE  Open' /\ p.setSid = Keep
    BY <1>4, <2>4, <2>6
  <2>7. ASSUME NEW v, NEW j, SavesAs(t, v, j)  PROVE  Open' /\ p.setSid = cookie.sid
    <3>1. v.data = q.read  BY <1>6, <2>1, <2>7 DEF AsRead, Harmless, Validations
    <3>2. q.read = session[cookie.sid]
      BY <1>8, <2>1, <2>2 DEF Loaded, Harmless, Validations
    <3>3. session'[cookie.sid] = session[cookie.sid]  BY <1>6, <1>8, <2>1, <2>7, <3>1, <3>2
    <3>4. Open'  BY <1>1, <2>1, <2>3, <3>3 DEF Open, Live, Unlinked
    <3> QED  BY <1>6, <1>8, <2>1, <2>7, <3>4
  <2>8. q.kind \notin SignIns  BY <2>1 DEF Harmless, Validations, SignIns
  <2>9. p.setSid = None \/ (Open' /\ p.setSid \in {Keep, cookie.sid})
    BY <1>1, <1>5, <1>7, <2>6, <2>7, <2>8 DEF Outcome
  <2> QED  BY <1>1, <1>3, <2>1, <2>5, <2>9 DEF Begun
<1>11. Beginning'
  <2> SUFFICES ASSUME q.calm = TRUE, q.kind = "checkout", p.result = "ok"
               PROVE  /\ p.setSid \in Sid /\ session'[p.setSid] # None
                      /\ session'[p.setSid].checkout = p.sale
                      /\ p.user = session'[p.setSid].user
                      /\ row'[p.user] # None /\ row'[p.user].verified = TRUE
                      /\ row'[p.user].password = session'[p.setSid].password
                      /\ row'[p.user].customer = None
                      /\ p.sale \in Checkout /\ sale'[p.sale].by = p.user
    BY <1>3, <1>9 DEF Beginning, Unlinked, Live
  <2>1. "checkout" \in Guarded \ SignIns  BY DEF Guarded, SignIns
  <2>2. PICK v, j : SavesAs(t, v, j)
    BY <1>1, <1>4, <1>5, <1>7, <2>1 DEF Outcome
  <2>3. /\ v.data.user = q.user /\ v.data.password = q.read.password
        /\ v.data.checkout = q.sale /\ q.me.customer = None /\ sale'[q.sale].by = q.user
    BY <1>6, <2>2 DEF AsRead, AsBilled
  <2>4. row' = row  BY <1>1 DEF Keeps
  <2>5. /\ row[q.user] # None /\ row[q.user].verified = TRUE
        /\ row[q.user].password = q.read.password
        /\ row[q.user].customer = q.me.customer
    BY <1>1, <1>6, <2>2 DEF Chain, Beginning
  <2>6. q.sale \in Checkout  BY <1>1 DEF Fits, Requests
  <2>7. p.setSid \in Sid /\ session'[p.setSid] # None  BY <1>6, <2>2
  <2> QED  BY <1>3, <1>6, <2>2, <2>3, <2>4, <2>5, <2>6, <2>7
<1>12. Due'
  <2> SUFFICES ASSUME q.calm = TRUE, q.kind = "sync", q.due = TRUE  PROVE  p.result = "ok"
    BY <1>3, <1>9 DEF Due
  <2>1. /\ q.user # None /\ q.me.customer = None
        /\ q.sale \in Checkout /\ q.read.checkout = q.sale
        /\ sale[q.sale].by = q.user /\ sale[q.sale].plan # None
    BY <1>1 DEF Chain, Due
  <2>2. ~ LeavesAlone(t)
    <3>1. q.read # None  BY <1>1, <2>1 DEF Fits
    <3>2. Live(q.sid)  BY <1>8, <3>1, LoadedIs
    <3> QED  BY <1>4, <2>1, <3>2 DEF Crashes
  <2>3. ~ LogsOut(t)  BY <1>5, <2>1 DEF Guarded
  <2>4. q.kind \in Guarded /\ q.kind \notin SignIns  BY DEF Guarded, SignIns
  <2>5. PICK v, j : SavesAs(t, v, j)  BY <1>1, <1>7, <2>2, <2>3, <2>4 DEF Outcome
  <2>6. ~ SyncRefused(q)  BY <2>1 DEF SyncRefused
  <2>7. v.result = "ok"  BY <1>6, <2>1, <2>4, <2>5, <2>6 DEF AsRead
  <2> QED  BY <1>6, <2>5, <2>7
<1> QED  BY <1>10, <1>11, <1>12 DEF Chain

LEMMA DeliverKeepsChain ==
  ASSUME Base, Pairs, Chain, NEW t \in Tab, Deliver(t)
  PROVE  Chain'
<1> USE NonesApart DEF Base
<1> DEFINE q == tab[t]
<1>1. /\ q \in Requests /\ q # Idle /\ q.result # "sent"
      /\ cookie'.sid = IF q.setSid = Keep THEN cookie.sid ELSE q.setSid
      /\ tab'[t] = Idle /\ \A x \in Tab : x # t => tab'[x] = tab[x]
      /\ \A k \in Sid : Held(k)' => session'[k] = session[k]
      /\ UNCHANGED <<row, sale>>
  BY DeliverDoes
<1>2. ASSUME NEW x \in Tab, tab'[x] # Idle  PROVE  tab'[x].calm # TRUE
  BY <1>1, <1>2 DEF Pairs, CalmAlone
<1>3. Beginning' /\ Due'  BY <1>2 DEF Beginning, Due
<1>4. begun' = IF q.calm /\ q.kind = "checkout" /\ q.result = "ok" /\ row[q.user].active
               THEN q.sale ELSE IF q.setSid = None THEN None ELSE begun
  BY DEF Deliver
<1>5. cookie'.sid \in Sid => session'[cookie'.sid] = session[cookie'.sid]
  <2>1. PICK k : k = cookie'.sid  OBVIOUS
  <2>2. Held(k)'  BY <2>1 DEF Held
  <2> QED  BY <1>1, <2>1, <2>2
<1>6. Begun'
  <2> SUFFICES ASSUME begun' # None PROVE Begun'  BY DEF Begun
  <2>1. CASE q.calm /\ q.kind = "checkout" /\ q.result = "ok" /\ row[q.user].active
    <3>1. /\ Live(q.setSid) /\ session[q.setSid].checkout = q.sale
          /\ q.user = session[q.setSid].user /\ Unlinked(session[q.setSid])
          /\ q.sale \in Checkout /\ sale[q.sale].by = q.user
      BY <1>1, <2>1 DEF Chain, Beginning, Requests
    <3>2. cookie'.sid = q.setSid /\ begun' = q.sale  BY <1>1, <1>4, <2>1, <3>1 DEF Live
    <3>3. session'[cookie'.sid] = session[q.setSid]  BY <1>5, <3>1, <3>2 DEF Live
    <3>4. row[q.user].active = TRUE
      BY <2>1, <3>1 DEF Unlinked, Live, Typed, Opened, Rows
    <3>5. Open'  BY <1>1, <3>1, <3>2, <3>3, <3>4 DEF Open, Live, Unlinked
    <3>6. \A x \in Tab : tab'[x] = Idle  BY <1>1, <2>1 DEF Pairs, CalmAlone, Requests
    <3> QED  BY <3>5, <3>6 DEF Begun
  <2>2. CASE ~ (q.calm /\ q.kind = "checkout" /\ q.result = "ok" /\ row[q.user].active)
    <3>1. begun' = begun /\ q.setSid # None  BY <1>4, <2>2
    <3>2. q.calm = TRUE /\ q.setSid \in {Keep, cookie.sid}
      BY <1>1, <3>1 DEF Chain, Begun
    <3>3. \A x \in Tab : x # t => tab[x] = Idle  BY <1>1, <3>2 DEF Pairs, CalmAlone
    <3>4. Open  BY <3>1, <3>3 DEF Chain, Begun
    <3>5. cookie'.sid = cookie.sid /\ cookie.sid \in Sid  BY <1>1, <3>2, <3>4 DEF Open, Live
    <3>6. session'[cookie'.sid] = session[cookie.sid]  BY <1>5, <3>5
    <3>7. Open'  BY <1>1, <3>1, <3>4, <3>5, <3>6 DEF Open, Live, Unlinked
    <3>8. \A x \in Tab : tab'[x] = Idle  BY <1>1, <3>3
    <3> QED  BY <3>7, <3>8 DEF Begun
  <2> QED  BY <2>1, <2>2
<1> QED  BY <1>3, <1>6 DEF Chain

LEMMA ChainStep == Base /\ Pairs /\ Chain /\ [Next]_vars => Chain'
<1> SUFFICES ASSUME Base, Pairs, Chain, [Next]_vars PROVE Chain'  OBVIOUS
<1> USE NonesApart DEF Base
<1>1. ASSUME NEW t \in Tab, NEW kind \in Asked, NEW who \in User \cup {None},
             NEW c \in Checkout \cup {None}, Send(t, kind, who, c)
      PROVE  Chain'
  BY <1>1, SendKeepsChain
<1>2. ASSUME NEW t \in Tab, AnswerRequest(t)  PROVE  Chain'
  BY <1>2, AnswerKeepsChain
<1>3. ASSUME NEW t \in Tab, Deliver(t)  PROVE  Chain'
  BY <1>3, DeliverKeepsChain
<1>4. ASSUME NEW c \in Checkout, Pay(c) \/ ChangePlan(c)  PROVE  Chain'
  <2>1. PICK p \in Plans : p # None /\ sale' = [sale EXCEPT ![c].plan = p]
    BY <1>4 DEF Pay, ChangePlan, Plans
  <2>2. UNCHANGED <<row, session, cookie, tab, begun>>  BY <1>4 DEF Pay, ChangePlan
  <2>3. \A d \in Checkout : /\ sale'[d].by = sale[d].by
                            /\ sale[d].plan # None => sale'[d].plan # None
    BY <2>1 DEF Typed
  <2>4. begun # None => begun \in Checkout  BY DEF Typed
  <2>5. Begun'
    <3> SUFFICES ASSUME begun # None PROVE Begun'  BY <2>2 DEF Begun
    <3>1. Open => Open'  BY <2>2, <2>3, <2>4 DEF Open, Live, Unlinked
    <3> QED  BY <2>2, <3>1 DEF Chain, Begun
  <2>6. Beginning'  BY <2>2, <2>3 DEF Chain, Beginning, Live, Unlinked
  <2>7. Due'  BY <2>2, <2>3 DEF Chain, Due
  <2> QED  BY <2>5, <2>6, <2>7 DEF Chain
<1>5. ASSUME NEW u \in User, Disable(u)  PROVE  Chain'
  <2>1. row[u] \in Rows  BY <1>5 DEF Disable, Typed
  <2> DEFINE r == [row[u] EXCEPT !.active = FALSE]
  <2>2. /\ r.password = row[u].password /\ r.verified = row[u].verified
        /\ r.customer = row[u].customer /\ row[u] # None /\ r \in Rows
    BY <2>1 DEF Rows
  <2>3. row' = [row EXCEPT ![u] = r]  BY <1>5 DEF Disable
  <2> HIDE DEF r
  <2>4. \A w \in User :
          /\ row[w] # None => row'[w] # None
          /\ row'[w].password = row[w].password /\ row'[w].verified = row[w].verified
          /\ row'[w].customer = row[w].customer
    BY <2>2, <2>3 DEF Typed
  <2>5. UNCHANGED <<sale, session, cookie, tab>> /\ begun' = None  BY <1>5 DEF Disable
  <2>6. Begun'  BY <2>5 DEF Begun
  <2>7. ASSUME NEW t \in Tab, tab[t] # Idle, tab[t].calm = TRUE
        PROVE  /\ tab[t].result = "sent" /\ tab[t].user # None =>
                    /\ row'[tab[t].user] # None /\ row'[tab[t].user].verified = TRUE
                    /\ row'[tab[t].user].password = tab[t].read.password
                    /\ row'[tab[t].user].customer = tab[t].me.customer
               /\ tab[t].kind = "checkout" /\ tab[t].result = "ok" =>
                    /\ Live(tab[t].setSid)
                    /\ session[tab[t].setSid].checkout = tab[t].sale
                    /\ tab[t].user = session[tab[t].setSid].user
                    /\ row'[tab[t].user] # None /\ row'[tab[t].user].verified = TRUE
                    /\ row'[tab[t].user].password = session[tab[t].setSid].password
                    /\ row'[tab[t].user].customer = None
                    /\ tab[t].sale \in Checkout /\ sale[tab[t].sale].by = tab[t].user
    <3>1. tab[t] \in Requests  BY <2>7, Busy
    <3>2. tab[t].result = "sent" /\ tab[t].user # None => tab[t].user \in User
      BY <3>1 DEF Requests
    <3>3. Live(tab[t].setSid) => session[tab[t].setSid].user \in User
      BY DEF Live, Typed, Opened
    <3> QED  BY <2>4, <2>7, <3>2, <3>3 DEF Chain, Beginning, Unlinked
  <2>8. Beginning'
    <3>1. tab' = tab /\ session' = session /\ sale' = sale  BY <2>5
    <3>2. \A k : Live(k)' <=> Live(k)  BY <3>1 DEF Live
    <3>3. \A s : Unlinked(s)' <=> /\ row'[s.user] # None /\ row'[s.user].verified = TRUE
                                 /\ row'[s.user].password = s.password
                                 /\ row'[s.user].customer = None
      BY DEF Unlinked
    <3>4. ASSUME NEW t \in Tab, tab[t] # Idle, tab[t].calm = TRUE,
                 tab[t].kind = "checkout", tab[t].result = "ok"
          PROVE  Unlinked(session[tab[t].setSid])'
      BY <2>7, <3>1, <3>3, <3>4
    <3> QED  BY <2>7, <3>1, <3>2, <3>4 DEF Beginning
  <2>9. Due'  BY <2>5 DEF Chain, Due
  <2> QED  BY <2>6, <2>8, <2>9 DEF Chain
<1>6. ASSUME UNCHANGED <<row, sale, session, tab, begun>>, cookie'.sid = cookie.sid
      PROVE  Chain'
  <2>1. Open' <=> Open  BY <1>6 DEF Open, Live, Unlinked
  <2>2. Begun'  BY <1>6, <2>1 DEF Chain, Begun
  <2>3. Beginning'  BY <1>6 DEF Chain, Beginning, Live, Unlinked
  <2>4. Due'  BY <1>6 DEF Chain, Due
  <2> QED  BY <2>2, <2>3, <2>4 DEF Chain
<1>7. ASSUME NEW u \in User, ExpireMail(u)  PROVE  Chain'
  BY <1>6, <1>7 DEF ExpireMail
<1>8. CASE Lapse
  <2>1. cookie'.sid = cookie.sid  BY <1>8 DEF Lapse, Typed
  <2> QED  BY <1>6, <1>8, <2>1 DEF Lapse
<1>9. CASE UNCHANGED vars  BY <1>6, <1>9 DEF vars
<1> QED  BY <1>1, <1>2, <1>3, <1>4, <1>5, <1>7, <1>8, <1>9 DEF Next

(* Whoever comes back from Stripe with the browser that began a checkout,   *)
(* has paid, and makes one request after the other, is linked to what he    *)
(* paid for: the session still remembers the checkout, it is his own, and   *)
(* UserSyncStripeSerializer has no ground left to refuse it.                *)
THEOREM PaidIsLinkedCorrect == Spec => []PaidIsLinked
<1>1. Base /\ Chain => PaidIsLinked
  <2> SUFFICES ASSUME Base, Chain, NEW t \in Tab, tab[t] # Idle, tab[t].kind = "sync",
                      tab[t].calm, tab[t].due
               PROVE  tab[t].result \in {"sent", "ok"}
    BY DEF PaidIsLinked
  <2>1. tab[t].calm = TRUE /\ tab[t].due = TRUE  BY Busy DEF Base, Requests
  <2> QED  BY <2>1 DEF Chain, Due
<1>2. Init => Base /\ Pairs /\ Chain  BY BaseInit, PairsInit, ChainInit
<1>3. Base /\ Pairs /\ Chain /\ [Next]_vars => (Base /\ Pairs /\ Chain)'
  BY BaseStep, PairsStep, ChainStep
<1> QED  BY <1>1, <1>2, <1>3, PTL DEF Spec

================================================================================
