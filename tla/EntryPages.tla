------------------------------ MODULE EntryPages ------------------------------
(***************************************************************************)
(* Which page a visitor is on (bylot/src/App.jsx, pages/Login.jsx,         *)
(* Register.jsx, ResetPassword.jsx, Sell.jsx, SellerOrders.jsx,            *)
(* Profile.jsx, context/AuthContext.jsx).  Pages that need a user send the *)
(* others to the sign-in, the sign-in sends users where they were going;   *)
(* answers, timers and sign-outs that come late move whoever is there.     *)
(* How an account is verified is in EmailAccounts, the two-step sign-in in *)
(* AdminSignIn, the tokens in ClientRefresh.                               *)
(***************************************************************************)
EXTENDS Naturals

CONSTANTS
  Asks   \* sign-ins and registrations that can be under way at once

VARIABLES
  page,      \* where the visitor is
  from,      \* location.state.from, for the sign-in
  user,      \* AuthContext: the role of the user it has
  loading,   \* AuthContext: silentRefresh has not answered
  challenge, \* Login: twoFactorChallenge is there
  ask,       \* requests of Login and Register
  busy,      \* loading of Login and Register: the button is disabled
  leaving,   \* logout has not answered
  resetting, \* ResetPassword: where its form stands
  timer,     \* pages that a setTimeout will go to
  hops       \* redirections since something last happened

entryVars == <<page, from, user, loading, challenge, ask, busy, leaving, resetting, timer, hops>>

Pages  == {"home", "login", "register", "reset", "sell", "orders", "profile", "admin"}
Roles  == {"customer", "seller", "admin"}
Users  == Roles \cup {"none", "hollow"}   \* hollow: an object without role or token
Froms  == {"none", "sell", "orders"}
NoAsk  == [at |-> "none", by |-> "email", from |-> "none", mounted |-> FALSE]
MaxHops == 3   \* bound: a loop of redirections is cut here

TypeOK ==
  /\ page \in Pages /\ from \in Froms \cup Pages /\ user \in Users
  /\ loading \in BOOLEAN /\ challenge \in BOOLEAN /\ busy \in BOOLEAN /\ leaving \in BOOLEAN
  /\ ask \in [Asks -> [at : {"none", "sent"}, by : {"email", "google", "signup"},
                       from : Froms \cup Pages, mounted : BOOLEAN]]
  /\ resetting \in {"form", "sent", "done"}
  /\ timer \in SUBSET {"login", "sell"} /\ hops \in 0..MaxHops

Init ==
  /\ page \in Pages /\ from = "none"
  /\ user = "none" /\ loading = TRUE
  /\ challenge = FALSE /\ busy = FALSE /\ leaving = FALSE /\ resetting = "form"
  /\ ask = [a \in Asks |-> NoAsk]
  /\ timer = {} /\ hops = 0

(* getRedirectPath.                                                        *)
RedirectPath(role) == CASE role = "admin" -> "admin" [] role = "seller" -> "sell" [] OTHER -> "home"

Destination(f, role) == IF f # "none" THEN f ELSE RedirectPath(role)

(* A page that is left takes its state along; its requests go on.          *)
Go(to, f, asks) ==
  /\ page' = to /\ from' = f
  /\ challenge' = FALSE /\ busy' = FALSE /\ resetting' = "form"
  /\ ask' = [a \in Asks |-> [asks[a] EXCEPT !.mounted = FALSE]]

Stay(asks) ==
  /\ ask' = asks
  /\ UNCHANGED <<page, from, resetting>>

------------------------------------------------------------------------------
(* The effects that redirect: where the page sends who is there.           *)
AdminLoop ==   \* mutant: the panel remembers itself for whoever is not its own
  IF user = "admin" THEN {} ELSE {<<"login", "admin">>}

AdminRoute ==
  CASE user = "none"               -> {<<"login", "none">>}
    [] user \notin {"none", "admin"} -> {<<"home", "none">>}
    [] OTHER                       -> {}

Sell         == IF user = "none" THEN {<<"login", "sell">>} ELSE {}
SellerOrders == IF user = "none" THEN {<<"login", "orders">>} ELSE {}
Profile      == IF user = "none" THEN {<<"login", "none">>} ELSE {}
Login        == IF user # "none" THEN {<<Destination(from, user), "none">>} ELSE {}
Register     == IF user # "none" THEN {<<RedirectPath(user), "none">>} ELSE {}

(* The first two do not wait for silentRefresh.                            *)
Redirects ==
  CASE page = "login"                 -> Login
    [] page = "register"              -> Register
    [] page = "admin" /\ ~loading     -> AdminRoute
    [] page = "sell" /\ ~loading      -> Sell
    [] page = "orders" /\ ~loading    -> SellerOrders
    [] page = "profile" /\ ~loading   -> Profile
    [] OTHER                          -> {}

Redirect ==
  /\ hops < MaxHops   \* bound
  /\ \E r \in Redirects : Go(r[1], r[2], ask)
  /\ hops' = hops + 1
  /\ UNCHANGED <<user, loading, leaving, timer>>

(* Effects run before the next event.                                      *)
Event == Redirects = {} /\ hops' = 0

------------------------------------------------------------------------------
(* Links, the address bar, back and forward.                               *)
Visit(to, f) ==
  /\ Event /\ to # page
  /\ f # "none" => to = "login"
  /\ Go(to, f, ask)
  /\ UNCHANGED <<user, loading, leaving, timer>>

(* AuthProvider: initAuth, auth:expired, logout.                           *)
SetUser(u) ==
  /\ user' = u
  /\ UNCHANGED <<page, from, challenge, ask, busy, resetting, timer>>

SilentRefresh(u) ==
  /\ Event /\ loading
  /\ loading' = FALSE
  /\ SetUser(IF u = "none" THEN user ELSE u)
  /\ UNCHANGED leaving

AuthExpired ==
  /\ Event /\ user # "none"
  /\ SetUser("none")
  /\ UNCHANGED <<loading, leaving>>

Logout ==   \* the panel's button
  /\ Event /\ ~leaving
  /\ page = "admin" /\ user # "none"
  /\ leaving' = TRUE
  /\ UNCHANGED <<page, from, user, loading, challenge, ask, busy, resetting, timer>>

HandleLogout ==   \* the profile's, which goes to the sign-in and waits for nothing
  /\ Event /\ ~leaving
  /\ page = "profile" /\ user # "none"
  /\ leaving' = TRUE
  /\ Go("login", "none", ask)
  /\ UNCHANGED <<user, loading, timer>>

LoggedOut ==
  /\ Event /\ leaving
  /\ leaving' = FALSE
  /\ SetUser("none")
  /\ UNCHANGED loading

------------------------------------------------------------------------------
(* The forms.  The button waits for busy, Google's does not.               *)
LoginForm    == IF page = "login" /\ ~challenge THEN {"google"} \cup (IF busy THEN {} ELSE {"email"}) ELSE {}
RegisterForm == IF page = "register" THEN {"google"} \cup (IF busy THEN {} ELSE {"signup"}) ELSE {}

Submit(a) ==
  /\ Event /\ ask[a].at = "none"
  /\ \E by \in LoginForm \cup RegisterForm :
       ask' = [ask EXCEPT ![a] = [at |-> "sent", by |-> by, from |-> IF page = "login" THEN from ELSE "register",
                                  mounted |-> TRUE]]
  /\ busy' = TRUE
  /\ UNCHANGED <<page, from, user, loading, challenge, leaving, resetting, timer>>

AtRegister(a) == ask[a].from = "register"
Rest(a)       == [ask EXCEPT ![a] = NoAsk]

(* finally: setLoading(false).                                             *)
Idle(a) == busy' = (busy /\ ~ask[a].mounted)

(* handleEmailLogin, handleGoogleSuccess: a session.  The navigation is    *)
(* made wherever the visitor is by then.                                   *)
SignedIn(a, u) ==
  /\ Event /\ ask[a].at = "sent"
  /\ ask[a].by # "signup" /\ u # "admin"
  /\ user' = u
  /\ Go(IF AtRegister(a) THEN RedirectPath(u) ELSE Destination(ask[a].from, u), "none", Rest(a))
  /\ UNCHANGED <<loading, leaving, timer>>

(* An administrator has a second step.                                     *)
Challenged(a) ==
  /\ Event /\ ask[a].at = "sent" /\ ask[a].by # "signup" /\ ~AtRegister(a)
  /\ challenge' = (challenge \/ ask[a].mounted)
  /\ Idle(a)
  /\ Stay(Rest(a))
  /\ UNCHANGED <<user, loading, leaving, timer>>

(* Register.jsx does not know of it: login with nothing, then an error.    *)
ChallengedAtRegister(a) ==
  /\ Event /\ ask[a].at = "sent" /\ ask[a].by = "google" /\ AtRegister(a)
  /\ user' = "hollow"
  /\ Idle(a)
  /\ Stay(Rest(a))
  /\ UNCHANGED <<loading, challenge, leaving, timer>>

(* handleSubmit of Register: there is no session before the address is     *)
(* verified; the sign-in follows after a while.                            *)
Registered(a) ==
  /\ Event /\ ask[a].at = "sent" /\ ask[a].by = "signup"
  /\ timer' = timer \cup {"login"}
  /\ Idle(a)
  /\ Stay(Rest(a))
  /\ UNCHANGED <<user, loading, challenge, leaving>>

Refused(a) ==
  /\ Event /\ ask[a].at = "sent"
  /\ Idle(a)
  /\ Stay(Rest(a))
  /\ UNCHANGED <<user, loading, challenge, leaving, timer>>

(* handleTwoFactorSuccess and onCancel.                                    *)
TwoFactorSuccess ==
  /\ Event /\ page = "login" /\ challenge
  /\ user' = "admin"
  /\ Go(Destination(from, "admin"), "none", ask)
  /\ UNCHANGED <<loading, leaving, timer>>

TwoFactorCancel ==
  /\ Event /\ page = "login" /\ challenge
  /\ challenge' = FALSE
  /\ UNCHANGED <<page, from, user, loading, ask, busy, leaving, resetting, timer>>

------------------------------------------------------------------------------
(* ResetPassword: its form goes with the success, its timer stays.         *)
ResetForm == page = "reset" /\ resetting = "form"

Reset(to) ==
  /\ resetting' = to
  /\ UNCHANGED <<page, from, user, loading, challenge, ask, busy, leaving>>

SubmitReset  == Event /\ ResetForm /\ Reset("sent") /\ UNCHANGED timer
ResetDone    == Event /\ resetting = "sent" /\ Reset("done") /\ timer' = timer \cup {"login"}
ResetRefused == Event /\ resetting = "sent" /\ Reset("form") /\ UNCHANGED timer

(* The success of a listing (SellForm).                                    *)
Listed ==
  /\ Event /\ page = "sell" /\ user # "none"
  /\ timer' = timer \cup {"sell"}
  /\ UNCHANGED <<page, from, user, loading, challenge, ask, busy, leaving, resetting>>

(* Nothing clears a timer when its page is left.                           *)
TimerFires(to) ==
  /\ Event /\ to \in timer
  /\ timer' = timer \ {to}
  /\ IF page = to THEN UNCHANGED <<page, from, challenge, ask, busy, resetting>>
     ELSE Go(to, "none", ask)
  /\ UNCHANGED <<user, loading, leaving>>

Next ==
  \/ Redirect
  \/ \E to \in Pages, f \in Froms : Visit(to, f)
  \/ \E u \in Roles \cup {"none"} : SilentRefresh(u)
  \/ AuthExpired \/ Logout \/ HandleLogout \/ LoggedOut
  \/ \E a \in Asks : \/ Submit(a) \/ Challenged(a) \/ ChallengedAtRegister(a) \/ Registered(a) \/ Refused(a)
                     \/ \E u \in Roles : SignedIn(a, u)
  \/ TwoFactorSuccess \/ TwoFactorCancel
  \/ SubmitReset \/ ResetDone \/ ResetRefused \/ Listed
  \/ \E to \in {"login", "sell"} : TimerFires(to)

Spec == Init /\ [][Next]_entryVars

------------------------------------------------------------------------------
(***************************************************************************)
(* The pages do not send a visitor round in circles: whatever answer,      *)
(* timer, expiry or sign-out comes, and wherever the visitor is then, one  *)
(* redirection at most follows it, and that page keeps who is there        *)
(* (App.jsx:36, Login.jsx:42, Sell.jsx:99 each redirect on their own).     *)
(***************************************************************************)
RedirectsEnd == hops <= 1
=============================================================================
