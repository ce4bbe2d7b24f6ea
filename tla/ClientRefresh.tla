---------------------------- MODULE ClientRefresh ----------------------------
(***************************************************************************)
(* The sign-in state of one open page (bylot/src/api/backendApi.js and     *)
(* context/AuthContext.jsx).  The access token is in memory, the refresh   *)
(* token in the cookie.  A request answered 401 refreshes both and is sent *)
(* once more; requests answered 401 meanwhile subscribe to that refresh.   *)
(* JavaScript runs a callback to its end, so an action is what runs        *)
(* between two awaits.  The n-th answer that signs in or refreshes carries *)
(* refresh token n; 0 is none.  Whether the server accepts an access token *)
(* is a free choice: it can have expired, been blacklisted or outdated.    *)
(* The server answers atomically here; RefreshTokens has its statements.   *)
(***************************************************************************)
EXTENDS Integers, FiniteSets

CONSTANTS
  Requests,   \* apiRequest calls that can be under way at once
  Boot,       \* the silentRefresh of initAuth, when the page opens
  MaxIssued   \* bound on the pairs of tokens issued

ASSUME ClientAssumption == Boot \notin Requests /\ MaxIssued \in Nat \ {0}

VARIABLES
  token,        \* is there an inMemoryAccessToken?
  refreshing,   \* isRefreshing
  subscribers,  \* refreshSubscribers
  user,         \* is there a user in AuthContext?
  jar,          \* the refresh cookie
  req,          \* each request: where it stands, what it carried and got
  issued,       \* server: pairs issued so far
  home,         \* server: refresh token -> first token of its family
  good,         \* server: refresh tokens not revoked
  alarm,        \* history: families ended because a rotated token came back
  excused       \* history: families signed out, that lost an answer, or whose
                \* token was presented by two refreshes at once

page   == <<token, refreshing, subscribers, user>>
server == <<issued, home, good, alarm>>
vars   == <<page, jar, req, server, excused>>

Callers == Requests \cup {Boot}
Pair    == 0..MaxIssued
Kinds   == {"call", "login", "confirm", "logout", "boot"}
Steps   == {"idle", "sent", "ok", "refused", "failed", "waiting",
            "refreshing", "renewed", "denied", "broken"}
Request == [pc : Steps, kind : Kinds, retry : BOOLEAN,
            token : BOOLEAN, cookie : Pair, got : Pair]
Idle    == [pc |-> "idle", kind |-> "call", retry |-> FALSE,
            token |-> FALSE, cookie |-> 0, got |-> 0]

TypeOK ==
  /\ jar \in Pair /\ issued \in Pair
  /\ token \in BOOLEAN /\ refreshing \in BOOLEAN /\ user \in BOOLEAN
  /\ subscribers \subseteq {r \in Requests : req[r].pc = "waiting"}
  /\ req \in [Callers -> Request]
  /\ home \in [1..issued -> 1..issued]
  /\ good \subseteq 1..issued
  /\ alarm \cup excused \subseteq 1..issued

(* A page opens with the session of before or after signing out of it; its *)
(* refresh is under way.                                                   *)
Init ==
  /\ jar \in {0, 1}
  /\ issued = 1
  /\ home = [n \in 1..1 |-> n]
  /\ good = 1..jar
  /\ req = [r \in Callers |-> IF r = Boot
              THEN [Idle EXCEPT !.pc = "refreshing", !.kind = "boot", !.cookie = jar]
              ELSE Idle]
  /\ token = FALSE /\ user = FALSE
  /\ refreshing = FALSE /\ subscribers = {}
  /\ alarm = {} /\ excused = {}

------------------------------------------------------------------------------
(* What the fetch of apiRequest carries: the sign-ins are read neither     *)
(* token, and of the others only logout is under the path of the cookie,   *)
(* /api/auth.                                                              *)
Fetch(kind, again, t, c) ==
  [Idle EXCEPT !.pc = "sent", !.kind = kind, !.retry = again,
               !.token = t /\ kind \in {"call", "logout"},
               !.cookie = IF kind = "logout" THEN c ELSE 0]

(* apiRequest, up to its fetch.  A call needs an access token, whether or  *)
(* not there is a user to have one (EditItem sends without looking).  The  *)
(* forms sign in when there is no user: "login" is /auth/login and         *)
(* /auth/register, "confirm" is google-login and the second step.          *)
SignIns == {"login", "confirm"}

Send(r, kind) ==
  /\ req[r].pc = "idle"
  /\ kind \in SignIns => ~user
  /\ kind = "logout" => user
  /\ req' = [req EXCEPT ![r] = Fetch(kind, FALSE, token, jar)]
  /\ UNCHANGED <<page, jar, server, excused>>

(* The server: authenticate, the sign-ins and logout.                      *)
Answer(r, a, n) ==
  [req EXCEPT ![r].pc = a, ![r].got = n, ![r].token = FALSE,
              ![r].cookie = IF a = "denied" THEN @ ELSE 0]

AcceptCall(r) ==
  /\ req[r].pc = "sent" /\ req[r].kind = "call" /\ req[r].token
  /\ req' = Answer(r, "ok", 0)
  /\ UNCHANGED <<page, jar, server, excused>>

(* A 401: of authenticate, for want of a good token; of a sign-in, for a   *)
(* wrong password or code.  isAuthEndpoint names the first sign-ins only.  *)
Refuse(r) ==
  /\ req[r].pc = "sent"
  /\ req' = Answer(r, IF req[r].kind = "login" THEN "failed" ELSE "refused", 0)
  /\ UNCHANGED <<page, jar, server, excused>>

NewPair(first) ==
  /\ issued < MaxIssued   \* bound
  /\ issued' = issued + 1
  /\ home' = [n \in 1..(issued + 1) |-> IF n <= issued THEN home[n] ELSE first]

SignIn(r) ==
  /\ req[r].pc = "sent" /\ req[r].kind \in SignIns
  /\ NewPair(issued + 1)
  /\ good' = good \cup {issued + 1}
  /\ req' = Answer(r, "ok", issued + 1)
  /\ UNCHANGED <<page, jar, alarm, excused>>

AcceptLogout(r) ==
  LET c == req[r].cookie IN
  /\ req[r].pc = "sent" /\ req[r].kind = "logout" /\ req[r].token
  /\ good' = good \ {c}
  /\ excused' = excused \cup {home[n] : n \in {c} \ {0}}
  /\ req' = Answer(r, "ok", 0)
  /\ UNCHANGED <<page, jar, issued, home, alarm>>

(* The server: refreshToken.                                               *)
Rotate(r) ==
  LET c == req[r].cookie IN
  /\ req[r].pc = "refreshing"
  /\ c \in good
  /\ NewPair(home[c])
  /\ good' = (good \ {c}) \cup {issued + 1}
  /\ req' = Answer(r, "renewed", issued + 1)
  /\ UNCHANGED <<page, jar, alarm, excused>>

Reused(r) ==
  LET c == req[r].cookie IN
  /\ req[r].pc = "refreshing"
  /\ c \in 1..issued \ good
  /\ good' = {g \in good : home[g] # home[c]}
  /\ alarm' = alarm \cup {home[c]}
  /\ req' = Answer(r, "denied", 0)
  /\ UNCHANGED <<page, jar, issued, home, excused>>

NoCookie(r) ==
  /\ req[r].pc = "refreshing"
  /\ req[r].cookie = 0
  /\ req' = Answer(r, "denied", 0)
  /\ UNCHANGED <<page, jar, server, excused>>

(* The connection breaks, before the server's work or after it.            *)
Lose(r) ==
  /\ req[r].pc \in {"sent", "ok", "refused", "refreshing", "renewed", "denied"}
  /\ excused' = excused \cup {home[n] : n \in {req[r].got} \ {0}}
  /\ req' = Answer(r, IF req[r].pc \in {"sent", "ok", "refused"}
                       THEN "failed" ELSE "broken", 0)
  /\ UNCHANGED <<page, jar, server>>

------------------------------------------------------------------------------
(* The rest of apiRequest.  A request that ends hands its result to login, *)
(* logout or the page that sent it.                                        *)
Finish(r) ==
  /\ req[r].pc = "ok" \/ req[r].pc = "failed" \/ (req[r].pc = "refused" /\ req[r].retry)
  /\ LET k == IF req[r].pc = "ok" \/ req[r].kind = "logout" THEN req[r].kind ELSE "call" IN
     /\ token' = (k \in SignIns \/ (token /\ k # "logout"))
     /\ user' = (k \in SignIns \/ (user /\ k # "logout"))
     /\ jar' = IF req[r].pc = "ok" /\ k # "call" THEN req[r].got ELSE jar
  /\ req' = [req EXCEPT ![r] = Idle]
  /\ UNCHANGED <<refreshing, subscribers, server, excused>>

(* The page presents the cookie that initAuth has presented and not yet    *)
(* replaced: nothing in silentRefresh or apiRequest looks for that.        *)
PresentsWithBoot ==
  /\ jar # 0
  /\ \/ req[Boot].pc = "refreshing" /\ req[Boot].cookie = jar
     \/ req[Boot].pc = "renewed" /\ home[req[Boot].got] = home[jar]

Excuse == excused' = IF PresentsWithBoot THEN excused \cup {home[jar]} ELSE excused

EachForItself(r) ==   \* mutant: the test of isRefreshing is dropped
  /\ req[r].pc = "refused" /\ ~req[r].retry
  /\ refreshing' = TRUE
  /\ req' = [req EXCEPT ![r].pc = "refreshing", ![r].cookie = jar]
  /\ Excuse
  /\ UNCHANGED <<token, subscribers, user, jar, server>>

BeginRefresh(r) ==
  /\ req[r].pc = "refused" /\ ~req[r].retry
  /\ ~refreshing
  /\ refreshing' = TRUE
  /\ req' = [req EXCEPT ![r].pc = "refreshing", ![r].cookie = jar]
  /\ Excuse
  /\ UNCHANGED <<token, subscribers, user, jar, server>>

Subscribe(r) ==
  /\ req[r].pc = "refused" /\ ~req[r].retry
  /\ refreshing
  /\ subscribers' = subscribers \cup {r}
  /\ req' = [req EXCEPT ![r].pc = "waiting"]
  /\ UNCHANGED <<token, refreshing, user, jar, server, excused>>

(* The refresh came back: send them all again with the new token.          *)
Renewed(r) ==
  /\ req[r].pc = "renewed" /\ r # Boot
  /\ token' = TRUE
  /\ jar' = req[r].got
  /\ refreshing' = FALSE
  /\ subscribers' = {}
  /\ req' = [q \in Callers |-> IF q \in subscribers \cup {r}
       THEN Fetch(req[q].kind, TRUE, TRUE, req[r].got) ELSE req[q]]
  /\ UNCHANGED <<user, server, excused>>

(* A 401 clears the cookie; with no cookie sent there is none to clear.    *)
Cleared(r) == IF req[r].pc = "denied" /\ req[r].cookie # 0 THEN 0 ELSE jar

(* Or it did not: they all fail and auth:expired signs the user out.       *)
TellNobody(r) ==   \* mutant: no onRefreshed(null)
  /\ req[r].pc \in {"denied", "broken"} /\ r # Boot
  /\ token' = FALSE /\ user' = FALSE
  /\ jar' = Cleared(r)
  /\ refreshing' = FALSE
  /\ req' = [req EXCEPT ![r] = Idle]
  /\ UNCHANGED <<subscribers, server, excused>>

StayRefreshing(r) ==   \* mutant: isRefreshing is not reset on this path
  /\ req[r].pc \in {"denied", "broken"} /\ r # Boot
  /\ token' = FALSE /\ user' = FALSE
  /\ jar' = Cleared(r)
  /\ subscribers' = {}
  /\ req' = [q \in Callers |-> IF q \in subscribers \cup {r} THEN Idle ELSE req[q]]
  /\ UNCHANGED <<refreshing, server, excused>>

Expired(r) ==
  /\ req[r].pc \in {"denied", "broken"} /\ r # Boot
  /\ token' = FALSE /\ user' = FALSE
  /\ jar' = Cleared(r)
  /\ refreshing' = FALSE
  /\ subscribers' = {}
  /\ req' = [q \in Callers |-> IF q \in subscribers \cup {r} THEN Idle ELSE req[q]]
  /\ UNCHANGED <<server, excused>>

(* initAuth: no guard, no event.                                           *)
Booted ==
  /\ req[Boot].pc \in {"renewed", "denied", "broken"}
  /\ token' = (req[Boot].pc = "renewed")
  /\ user' = (user \/ req[Boot].pc = "renewed")
  /\ jar' = IF req[Boot].pc = "renewed" THEN req[Boot].got ELSE Cleared(Boot)
  /\ req' = [req EXCEPT ![Boot] = Idle]
  /\ UNCHANGED <<refreshing, subscribers, server, excused>>

------------------------------------------------------------------------------
Answered(r) == AcceptCall(r) \/ Refuse(r) \/ SignIn(r) \/ AcceptLogout(r)
               \/ Rotate(r) \/ Reused(r) \/ NoCookie(r) \/ Lose(r)

Handled(r) == Finish(r) \/ BeginRefresh(r) \/ Subscribe(r) \/ Renewed(r) \/ Expired(r)

Next ==
  \/ \E r \in Requests : \/ \E k \in Kinds \ {"boot"} : Send(r, k)
                         \/ Handled(r)
  \/ \E r \in Callers : Answered(r)
  \/ Booted

Spec == Init /\ [][Next]_vars

(* A fetch comes back with an answer or an error, and its callback runs.   *)
FairSpec == Spec /\ \A r \in Requests : WF_vars(Answered(r)) /\ WF_vars(Handled(r))

------------------------------------------------------------------------------
(***************************************************************************)
(* A request that waits for a refresh waits for one that is under way, is  *)
(* in the list the refresh will call, and there is one such refresh        *)
(* (backendApi.js:247): no answer comes between the last look at           *)
(* isRefreshing and the end of the refresh it announced.                   *)
(***************************************************************************)
AtWork == {r \in Requests : req[r].pc \in {"refreshing", "renewed", "denied", "broken"}}

NobodyForgotten ==
  /\ subscribers = {r \in Requests : req[r].pc = "waiting"}
  /\ subscribers # {} => refreshing
  /\ refreshing <=> AtWork # {}
  /\ \A r, q \in AtWork : r = q

(***************************************************************************)
(* The page is taken for a thief of its own token in no other way than by  *)
(* signing out, by losing the answer that brought the next one, or by a    *)
(* request refused while initAuth's refresh, which isRefreshing does not   *)
(* count, is still out with the same cookie: however its requests, that    *)
(* refresh and sign-ins overlap, it presents no other refresh token that   *)
(* the server has rotated away (backendApi.js:247, AuthContext.jsx:15).    *)
(***************************************************************************)
NoSelfReuse == alarm \subseteq excused

(***************************************************************************)
(* Every apiRequest ends, with a result or an error: it is sent at most    *)
(* twice, and a refresh it waits for calls it.                             *)
(***************************************************************************)
EveryCallSettles == \A r \in Requests : req[r].pc # "idle" ~> req[r].pc = "idle"
=============================================================================
