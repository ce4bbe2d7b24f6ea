---------------------------- MODULE RefreshTokens ----------------------------
(***************************************************************************)
(* One user's sessions (backend/controllers/authController.js).  A login   *)
(* starts a family of refresh tokens; each refresh revokes the token       *)
(* presented and issues the next of its family, in separate statements     *)
(* between which other requests run.  A revoked token presented again ends *)
(* its family.  The token lives in the browser's cookie, one per device.   *)
(***************************************************************************)
EXTENDS Integers, FiniteSets

CONSTANTS
  Devices,     \* browsers, each with one refresh cookie
  Tokens,      \* rows table refresh_tokens can hold
  Families,    \* values of family_id
  Requests,    \* handlers that can be at work at once
  MaxVersion,  \* bound on users.token_version
  Overlap,     \* TRUE: a device may send while it awaits an answer (a second
               \* tab, a page reloaded); FALSE: it sends one request at a time
  Nothing      \* no token, no family, no device

ASSUME SessionAssumption ==
  /\ Nothing \notin Devices \cup Tokens \cup Families
  /\ MaxVersion \in Nat
  /\ Overlap \in BOOLEAN

VARIABLES
  state, family,   \* of each row of refresh_tokens
  version, active, \* users.token_version and users.status = 'active'
  jar,             \* the cookie of each device
  req,             \* each handler: where it stands and what it has read
  ended,           \* history: families ended by reuse detection
  upset,           \* history: families that lost an answer, or that a reset or
                   \* a dying process touched
  swept            \* history: families that a reset found with no handler past
                   \* its look-up

rows     == <<state, family>>
account  == <<version, active>>
vars     == <<rows, account, jar, req, ended, upset, swept>>

TokenState == {"unused", "live", "lapsed", "revoked"}
Steps == {"idle", "lookup", "checking", "rotating", "reading", "issuing",
          "ending", "bumping", "sweeping", "granted", "refused"}
Request == [pc : Steps, dev : Devices \cup {Nothing}, tok : Tokens \cup {Nothing},
            fam : Families \cup {Nothing}, ver : 0..MaxVersion]
Idle == [pc |-> "idle", dev |-> Nothing, tok |-> Nothing, fam |-> Nothing, ver |-> 0]

TypeOK ==
  /\ state \in [Tokens -> TokenState]
  /\ family \in [Tokens -> Families \cup {Nothing}]
  /\ version \in 0..MaxVersion
  /\ active \in BOOLEAN
  /\ jar \in [Devices -> Tokens \cup {Nothing}]
  /\ req \in [Requests -> Request]
  /\ ended \subseteq Families
  /\ upset \subseteq Families
  /\ swept \subseteq Families
  /\ \A t \in Tokens : state[t] # "unused" => family[t] \in Families

Init ==
  /\ state = [t \in Tokens |-> "unused"]
  /\ family = [t \in Tokens |-> Nothing]
  /\ version = 0
  /\ active = TRUE
  /\ jar = [d \in Devices |-> Nothing]
  /\ req = [r \in Requests |-> Idle]
  /\ ended = {}
  /\ upset = {}
  /\ swept = {}

Waiting(d) == \E r \in Requests : req[r].dev = d

Free(r, d) == req[r] = Idle /\ (Overlap \/ ~Waiting(d))

Known(f) == (\E t \in Tokens : family[t] = f) \/ (\E r \in Requests : req[r].fam = f)

Goto(r, step) == req' = [req EXCEPT ![r].pc = step]

------------------------------------------------------------------------------
(* login and googleLogin, past their checks: a new family.                 *)
Login(r, d, f) ==
  /\ Free(r, d)
  /\ active
  /\ ~Known(f)
  /\ req' = [req EXCEPT ![r] = [Idle EXCEPT !.pc = "reading", !.dev = d, !.fam = f]]
  /\ UNCHANGED <<rows, account, jar, ended, upset, swept>>

(* refreshToken, statement by statement.                                   *)
Send(r, d) ==
  /\ Free(r, d)
  /\ jar[d] # Nothing
  /\ req' = [req EXCEPT ![r] = [Idle EXCEPT !.pc = "lookup", !.dev = d, !.tok = jar[d]]]
  /\ UNCHANGED <<rows, account, jar, ended, upset, swept>>

Lookup(r) ==
  LET t == req[r].tok IN
  /\ req[r].pc = "lookup"
  /\ req' = [req EXCEPT ![r].fam = family[t],
                        ![r].pc = CASE state[t] = "revoked" -> "ending"
                                    [] state[t] = "live"    -> "checking"
                                    [] OTHER                -> "refused"]
  /\ UNCHANGED <<rows, account, jar, ended, upset, swept>>

CheckUser(r) ==
  /\ req[r].pc = "checking"
  /\ Goto(r, IF active THEN "rotating" ELSE "refused")
  /\ UNCHANGED <<rows, account, jar, ended, upset, swept>>

(* Mutant: the presented token stays good.                                 *)
KeepPresented(r) ==
  /\ req[r].pc = "rotating"
  /\ Goto(r, "reading")
  /\ UNCHANGED <<rows, account, jar, ended, upset, swept>>

Rotate(r) ==
  /\ req[r].pc = "rotating"
  /\ state' = [state EXCEPT ![req[r].tok] = "revoked"]
  /\ Goto(r, "reading")
  /\ UNCHANGED <<family, account, jar, ended, upset, swept>>

(* findUserById: the version that goes into the access token.              *)
ReadUser(r) ==
  /\ req[r].pc = "reading"
  /\ req' = [req EXCEPT ![r].pc = "issuing", ![r].ver = version]
  /\ UNCHANGED <<rows, account, jar, ended, upset, swept>>

(* issueTokens                                                             *)
Issue(r, t) ==
  /\ req[r].pc = "issuing"
  /\ state[t] = "unused"
  /\ state' = [state EXCEPT ![t] = "live"]
  /\ family' = [family EXCEPT ![t] = req[r].fam]
  /\ req' = [req EXCEPT ![r].pc = "granted", ![r].tok = t]
  /\ UNCHANGED <<account, jar, ended, upset, swept>>

Revoked(S) == [t \in Tokens |-> IF t \in S THEN "revoked" ELSE state[t]]

OfFamily(f) == {t \in Tokens : family[t] = f}

EndPresented(r) ==   \* mutant: only the token that came back is revoked
  /\ req[r].pc = "ending"
  /\ state' = Revoked({req[r].tok})
  /\ Goto(r, "bumping")
  /\ UNCHANGED <<family, account, jar, ended, upset, swept>>

EndFamily(r) ==
  /\ req[r].pc = "ending"
  /\ state' = Revoked(OfFamily(req[r].fam))
  /\ Goto(r, "bumping")
  /\ UNCHANGED <<family, account, jar, ended, upset, swept>>

BumpVersion(r) ==
  /\ req[r].pc = "bumping"
  /\ version < MaxVersion   \* bound
  /\ version' = version + 1
  /\ ended' = ended \cup {req[r].fam}
  /\ Goto(r, "refused")
  /\ UNCHANGED <<rows, active, jar, upset, swept>>

------------------------------------------------------------------------------
(* The answer sets the cookie or clears it.                                *)
ForgetCookie(r) ==   \* mutant: only a login sets the cookie, not a refresh
  /\ req[r].pc \in {"granted", "refused"}
  /\ jar' = IF req[r].pc = "granted" /\ jar[req[r].dev] = Nothing
              THEN [jar EXCEPT ![req[r].dev] = req[r].tok] ELSE jar
  /\ req' = [req EXCEPT ![r] = Idle]
  /\ UNCHANGED <<rows, account, ended, upset, swept>>

Answer(r) ==
  /\ req[r].pc \in {"granted", "refused"}
  /\ jar' = [jar EXCEPT ![req[r].dev] =
               IF req[r].pc = "granted" THEN req[r].tok ELSE Nothing]
  /\ req' = [req EXCEPT ![r] = Idle]
  /\ UNCHANGED <<rows, account, ended, upset, swept>>

(* The process dies, a statement fails or the answer is lost.              *)
Lose(r) ==
  /\ req[r].pc # "idle"
  /\ upset' = upset \cup ({req[r].fam} \ {Nothing})
  /\ req' = [req EXCEPT ![r] = Idle]
  /\ UNCHANGED <<rows, account, jar, ended, swept>>

------------------------------------------------------------------------------
(* logout: one UPDATE by token hash, and the cookie goes.                  *)
Logout(d) ==
  /\ jar[d] # Nothing
  /\ Overlap \/ ~Waiting(d)
  /\ state' = [state EXCEPT ![jar[d]] = "revoked"]
  /\ jar' = [jar EXCEPT ![d] = Nothing]
  /\ UNCHANGED <<family, account, req, ended, upset, swept>>

(* resetPassword: the user row, then every token not yet revoked.          *)
ResetPassword(r, d) ==
  /\ Free(r, d)
  /\ active
  /\ version < MaxVersion   \* bound
  /\ version' = version + 1
  /\ req' = [req EXCEPT ![r] = [Idle EXCEPT !.pc = "sweeping", !.dev = d]]
  /\ UNCHANGED <<rows, active, jar, ended, upset, swept>>

(* A handler that has found its token good issues the next whatever        *)
(* happens to the rows meanwhile.                                          *)
PastLookup == {"checking", "rotating", "reading", "issuing"}

Settled(f) ==
  /\ OfFamily(f) # {}
  /\ ~\E r \in Requests : req[r].fam = f /\ req[r].pc \in PastLookup

SweepOwn(r) ==   \* mutant: the reset ends the session it was sent from only
  /\ req[r].pc = "sweeping"
  /\ state' = [t \in Tokens |->
                IF t = jar[req[r].dev] THEN "revoked" ELSE state[t]]
  /\ upset' = upset \cup {f \in Families : Known(f)}
  /\ swept' = swept \cup {f \in Families : Settled(f)}
  /\ Goto(r, "refused")
  /\ UNCHANGED <<family, account, jar, ended>>

RevokeAll(r) ==
  /\ req[r].pc = "sweeping"
  /\ state' = Revoked({t \in Tokens : state[t] # "unused"})
  /\ upset' = upset \cup {f \in Families : Known(f)}
  /\ swept' = swept \cup {f \in Families : Settled(f)}
  /\ Goto(r, "refused")
  /\ UNCHANGED <<family, account, jar, ended>>

(* blockUser, and the passing of expires_at.                               *)
SetActive(b) ==
  /\ active' = b
  /\ UNCHANGED <<rows, version, jar, req, ended, upset, swept>>

Lapse(t) ==
  /\ state[t] = "live"
  /\ state' = [state EXCEPT ![t] = "lapsed"]
  /\ UNCHANGED <<family, account, jar, req, ended, upset, swept>>

Next ==
  \/ \E r \in Requests, d \in Devices :
       \/ \E f \in Families : Login(r, d, f)
       \/ Send(r, d)
       \/ ResetPassword(r, d)
  \/ \E r \in Requests :
       \/ Lookup(r) \/ CheckUser(r) \/ Rotate(r) \/ ReadUser(r)
       \/ \E t \in Tokens : Issue(r, t)
       \/ EndFamily(r) \/ BumpVersion(r) \/ RevokeAll(r)
       \/ Answer(r) \/ Lose(r)
  \/ \E d \in Devices : Logout(d)
  \/ \E b \in BOOLEAN : SetActive(b)
  \/ \E t \in Tokens : Lapse(t)

Spec == Init /\ [][Next]_vars

------------------------------------------------------------------------------
Live(f) == {t \in Tokens : family[t] = f /\ state[t] = "live"}

(***************************************************************************)
(* Rotation (authController.js:411): a family never has two tokens that    *)
(* still refresh, lost answers and dying handlers included, as long as a   *)
(* device awaits one answer before it sends again.                         *)
(***************************************************************************)
OneLivePerFamily == \A f \in Families : \A t, u \in Live(f) : t = u

(***************************************************************************)
(* "Security alert: Revoked refresh token reused.  All sessions have been  *)
(* terminated." (authController.js:391): once a family has been ended no   *)
(* token of it refreshes again.  The user's other families are not ended,  *)
(* whatever that answer says: they lose their access tokens and refresh.   *)
(***************************************************************************)
EndedStaysEnded == \A f \in ended : Live(f) = {}

(***************************************************************************)
(* A device that awaits one answer at a time stays signed in: while its    *)
(* family met no reset and lost no answer, its cookie is never one that    *)
(* the server has rotated away, so it is never taken for a reuse.          *)
(***************************************************************************)
SessionKept ==
  \A d \in Devices :
    (jar[d] # Nothing /\ ~Waiting(d)) =>
      \/ family[jar[d]] \in upset
      \/ state[jar[d]] \in {"live", "lapsed"}

(***************************************************************************)
(* "Invalidate all refresh tokens" (authController.js:455): after a reset  *)
(* of the password no token of an older session refreshes again, on any    *)
(* device, whatever overlaps.  Two exceptions: a session whose handler had *)
(* found its token good before the UPDATE issues the next one after it,    *)
(* and that token outlives the reset; and a reset that dies between its    *)
(* two statements has changed the password and ended nothing.              *)
(***************************************************************************)
ResetEndsSessions == \A f \in swept : Live(f) = {}
=============================================================================
