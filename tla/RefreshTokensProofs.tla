------------------------- MODULE RefreshTokensProofs -------------------------
(***************************************************************************)
(* Theorems about RefreshTokens, for every number of devices, tokens,      *)
(* families and handlers.  What needs one request at a time is proved      *)
(* under Overlap = FALSE; the run refresh_overlap shows that it fails      *)
(* otherwise.                                                              *)
(***************************************************************************)
EXTENDS RefreshTokens, TLAPS

------------------------------------------------------------------------------
(***************************************************************************)
(* What a handler has read agrees with the rows, whatever the others do.   *)
(***************************************************************************)
HandlerShape(r) ==
  /\ req[r].pc = "idle" => req[r] = Idle
  /\ req[r].pc # "idle" => req[r].dev \in Devices
  /\ req[r].tok # Nothing => state[req[r].tok] # "unused"
  /\ req[r].pc \in {"lookup", "checking", "rotating", "ending", "granted"} =>
       req[r].tok \in Tokens
  /\ req[r].pc \in {"checking", "rotating", "reading", "issuing", "ending",
                    "bumping", "granted"} => req[r].fam \in Families
  /\ req[r].pc \in {"checking", "rotating", "ending", "granted"} =>
       req[r].fam = family[req[r].tok]

Shape ==
  /\ TypeOK
  /\ \A t \in Tokens : state[t] = "unused" => family[t] = Nothing
  /\ \A d \in Devices : jar[d] # Nothing => state[jar[d]] # "unused"
  /\ \A r \in Requests : HandlerShape(r)

(***************************************************************************)
(* With one request at a time a family is one device's: its cookie and its *)
(* request are the only ones that carry it.                                *)
(***************************************************************************)
Holds(d, f) ==
  \/ jar[d] # Nothing /\ family[jar[d]] = f
  \/ \E r \in Requests : req[r].dev = d /\ req[r].fam = f

OneRequestEach ==
  \A r, s \in Requests : req[r].dev = req[s].dev /\ req[r].pc # "idle" => r = s

OneHolder ==
  \A d, e \in Devices, f \in Families : Holds(d, f) /\ Holds(e, f) => d = e

HasRows(f) == \E t \in Tokens : family[t] = f

(* What a handler relies on at each step.                                  *)
HandlerInv(r) ==
  /\ req[r].pc = "lookup" => req[r].tok = jar[req[r].dev]
  /\ req[r].pc \in {"checking", "rotating"} => Live(req[r].fam) \subseteq {req[r].tok}
  /\ req[r].pc \in {"reading", "issuing", "bumping"} => Live(req[r].fam) = {}
  /\ req[r].pc = "granted" =>
       req[r].fam \in upset \/ state[req[r].tok] \in {"live", "lapsed"}
  /\ req[r].pc = "ending" => req[r].fam \in upset
  /\ req[r].pc \in {"ending", "bumping"} => HasRows(req[r].fam)
  /\ req[r].pc \in {"checking", "rotating", "reading", "issuing"} =>
       req[r].fam \notin ended

(* A cookie that the server rotated away is about to be replaced.          *)
CookieInv(d) ==
  \/ jar[d] = Nothing
  \/ family[jar[d]] \in upset
  \/ state[jar[d]] \in {"live", "lapsed"}
  \/ \E r \in Requests : /\ req[r].dev = d
                         /\ req[r].fam = family[jar[d]]
                         /\ req[r].pc \in {"reading", "issuing", "granted"}

IInv ==
  /\ Shape
  /\ OneRequestEach
  /\ OneHolder
  /\ OneLivePerFamily
  /\ EndedStaysEnded
  /\ \A f \in ended : HasRows(f)
  /\ \A r \in Requests : HandlerInv(r)
  /\ \A d \in Devices : CookieInv(d)

------------------------------------------------------------------------------
(* A handler at rest has read nothing.                                     *)
LEMMA Rest ==
  /\ Idle \in Request
  /\ Idle.pc = "idle" /\ Idle.dev = Nothing
  /\ Idle.tok = Nothing /\ Idle.fam = Nothing
BY SessionAssumption DEF Idle, Request, Steps

(* What ReadUser leaves of a request is a request.                         *)
LEMMA WithVersion ==
  ASSUME NEW q \in Request, NEW v \in 0..MaxVersion
  PROVE  [q EXCEPT !.pc = "issuing", !.ver = v] \in Request
BY SessionAssumption DEF Request, Steps

LEMMA ShapeInit == Init => Shape
BY SessionAssumption
   DEF Init, Shape, TypeOK, HandlerShape, Idle, Request, Steps, TokenState

LEMMA ShapeStep == Shape /\ [Next]_vars => Shape'
<1>. SUFFICES ASSUME Shape, [Next]_vars
              PROVE  Shape'
  OBVIOUS
<1>. USE SessionAssumption, Rest
     DEF Shape, TypeOK, HandlerShape, Request, Steps, TokenState, rows, account
<1>1. ASSUME NEW r \in Requests, NEW d \in Devices, NEW f \in Families, Login(r, d, f)
      PROVE  Shape'
  BY <1>1 DEF Login, Free
<1>2. ASSUME NEW r \in Requests, NEW d \in Devices, Send(r, d)
      PROVE  Shape'
  BY <1>2 DEF Send, Free
<1>3. ASSUME NEW r \in Requests, NEW d \in Devices, ResetPassword(r, d)
      PROVE  Shape'
  <2>1. version' \in 0..MaxVersion
    BY <1>3 DEF ResetPassword
  <2>2. [Idle EXCEPT !.pc = "sweeping", !.dev = d] \in Request
    OBVIOUS
  <2>3. req' \in [Requests -> Request]
    BY <1>3, <2>2 DEF ResetPassword
  <2>. QED
    BY <1>3, <2>1, <2>3 DEF ResetPassword
<1>4. ASSUME NEW r \in Requests, Lookup(r)
      PROVE  Shape'
  BY <1>4 DEF Lookup
<1>5. ASSUME NEW r \in Requests, CheckUser(r)
      PROVE  Shape'
  BY <1>5 DEF CheckUser, Goto
<1>6. ASSUME NEW r \in Requests, Rotate(r)
      PROVE  Shape'
  BY <1>6 DEF Rotate, Goto
<1>7. ASSUME NEW r \in Requests, ReadUser(r)
      PROVE  Shape'
  <2>1. req' \in [Requests -> Request]
    <3>1. [req[r] EXCEPT !.pc = "issuing", !.ver = version] \in Request
      BY WithVersion
    <3>. QED
      BY <1>7, <3>1 DEF ReadUser
  <2>2. /\ req'[r].pc = "issuing" /\ req'[r].dev = req[r].dev
        /\ req'[r].tok = req[r].tok /\ req'[r].fam = req[r].fam
        /\ \A s \in Requests \ {r} : req'[s] = req[s]
    BY <1>7 DEF ReadUser
  <2>3. req[r].pc = "reading" /\ UNCHANGED <<rows, account, jar, ended, upset, swept>>
    BY <1>7 DEF ReadUser
  <2>4. \A s \in Requests : HandlerShape(s)'
    BY <2>2, <2>3
  <2>. QED
    BY <2>1, <2>3, <2>4
<1>8. ASSUME NEW r \in Requests, NEW t \in Tokens, Issue(r, t)
      PROVE  Shape'
  BY <1>8 DEF Issue
<1>9. ASSUME NEW r \in Requests, EndFamily(r)
      PROVE  Shape'
  BY <1>9 DEF EndFamily, Goto, Revoked, OfFamily
<1>10. ASSUME NEW r \in Requests, BumpVersion(r)
       PROVE  Shape'
  BY <1>10 DEF BumpVersion, Goto
<1>11. ASSUME NEW r \in Requests, RevokeAll(r)
       PROVE  Shape'
  BY <1>11 DEF RevokeAll, Goto, Revoked
<1>12. ASSUME NEW r \in Requests, Answer(r)
       PROVE  Shape'
  BY <1>12 DEF Answer
<1>13. ASSUME NEW r \in Requests, Lose(r)
       PROVE  Shape'
  BY <1>13 DEF Lose
<1>14. ASSUME NEW d \in Devices, Logout(d)
       PROVE  Shape'
  BY <1>14 DEF Logout
<1>15. ASSUME NEW b \in BOOLEAN, SetActive(b)
       PROVE  Shape'
  BY <1>15 DEF SetActive
<1>16. ASSUME NEW t \in Tokens, Lapse(t)
       PROVE  Shape'
  BY <1>16 DEF Lapse
<1>17. CASE UNCHANGED vars
  BY <1>17 DEF vars
<1>. QED
  BY <1>1, <1>2, <1>3, <1>4, <1>5, <1>6, <1>7, <1>8, <1>9, <1>10, <1>11,
     <1>12, <1>13, <1>14, <1>15, <1>16, <1>17
     DEF Next

LEMMA IInvStep ==
  ASSUME Overlap = FALSE, IInv, [Next]_vars
  PROVE  IInv'
<1>. USE SessionAssumption, Rest
     DEF TypeOK, Request, TokenState, Steps, rows, account
<1>0. Shape /\ Shape'
  BY ShapeStep DEF IInv
<1>. /\ OneRequestEach /\ OneHolder /\ OneLivePerFamily /\ EndedStaysEnded
     /\ \A f \in ended : HasRows(f)
     /\ \A r \in Requests : HandlerInv(r)
     /\ \A d \in Devices : CookieInv(d)
  BY DEF IInv
<1>1. ASSUME NEW r \in Requests, NEW d \in Devices, NEW f \in Families, Login(r, d, f)
      PROVE  IInv'
  <2>1. OneRequestEach'
    BY <1>1, <1>0 DEF Login, Free, Waiting, OneRequestEach
  <2>2. OneHolder'
    BY <1>1, <1>0 DEF Login, Known, Shape, OneHolder, Holds
  <2>3. OneLivePerFamily'
    BY <1>1, <1>0 DEF Login, OneLivePerFamily, Live
  <2>4. EndedStaysEnded'
    BY <1>1, <1>0 DEF Login, EndedStaysEnded, Live
  <2>5. \A g \in ended' : HasRows(g)'
    BY <1>1, <1>0 DEF Login, HasRows
  <2>6. \A s \in Requests : HandlerInv(s)'
    BY <1>1, <1>0 DEF Login, Known, HandlerInv, HasRows, Live
  <2>7. \A e \in Devices : CookieInv(e)'
    BY <1>1, <1>0 DEF Login, Free, CookieInv
  <2>. QED
    BY <1>0, <2>1, <2>2, <2>3, <2>4, <2>5, <2>6, <2>7 DEF IInv
<1>2. ASSUME NEW r \in Requests, NEW d \in Devices, Send(r, d)
      PROVE  IInv'
  <2>1. OneRequestEach'
    BY <1>2, <1>0 DEF Send, Free, Waiting, OneRequestEach
  <2>2. OneHolder'
    BY <1>2, <1>0 DEF Send, OneHolder, Holds
  <2>3. OneLivePerFamily'
    BY <1>2, <1>0 DEF Send, OneLivePerFamily, Live
  <2>4. EndedStaysEnded'
    BY <1>2, <1>0 DEF Send, EndedStaysEnded, Live
  <2>5. \A g \in ended' : HasRows(g)'
    BY <1>2, <1>0 DEF Send, HasRows
  <2>6. \A s \in Requests : HandlerInv(s)'
    BY <1>2, <1>0 DEF Send, HandlerInv, HasRows, Live
  <2>7. \A e \in Devices : CookieInv(e)'
    BY <1>2, <1>0 DEF Send, Free, CookieInv
  <2>. QED
    BY <1>0, <2>1, <2>2, <2>3, <2>4, <2>5, <2>6, <2>7 DEF IInv
<1>3. ASSUME NEW r \in Requests, NEW d \in Devices, ResetPassword(r, d)
      PROVE  IInv'
  <2>1. OneRequestEach'
    BY <1>3, <1>0 DEF ResetPassword, Free, Waiting, OneRequestEach
  <2>2. OneHolder'
    BY <1>3, <1>0 DEF ResetPassword, OneHolder, Holds
  <2>3. OneLivePerFamily'
    BY <1>3, <1>0 DEF ResetPassword, OneLivePerFamily, Live
  <2>4. EndedStaysEnded'
    BY <1>3, <1>0 DEF ResetPassword, EndedStaysEnded, Live
  <2>5. \A g \in ended' : HasRows(g)'
    BY <1>3, <1>0 DEF ResetPassword, HasRows
  <2>6. \A s \in Requests : HandlerInv(s)'
    BY <1>3, <1>0 DEF ResetPassword, HandlerInv, HasRows, Live
  <2>7. \A e \in Devices : CookieInv(e)'
    BY <1>3, <1>0 DEF ResetPassword, Free, CookieInv
  <2>. QED
    BY <1>0, <2>1, <2>2, <2>3, <2>4, <2>5, <2>6, <2>7 DEF IInv
<1>4. ASSUME NEW r \in Requests, Lookup(r)
      PROVE  IInv'
  <2>a. /\ req'[r].dev = req[r].dev /\ req'[r].tok = req[r].tok
        /\ req'[r].fam = family[req[r].tok]
        /\ \/ req'[r].pc = "ending" /\ state[req[r].tok] = "revoked"
           \/ req'[r].pc = "checking" /\ state[req[r].tok] = "live"
           \/ req'[r].pc = "refused"
        /\ \A s \in Requests \ {r} : req'[s] = req[s]
    BY <1>4, <1>0 DEF Lookup, Shape
  <2>b. req[r].pc = "lookup" /\ UNCHANGED <<state, family, version, active, jar, ended, upset, swept>>
    BY <1>4 DEF Lookup
  <2>1. OneRequestEach'
    BY <2>a, <2>b, <1>0 DEF Holds, OneRequestEach
  <2>2. OneHolder'
    BY <2>a, <2>b, <1>0
       DEF Holds, Shape, HandlerShape, OneHolder, Holds, HandlerInv
  <2>3. OneLivePerFamily'
    BY <2>a, <2>b, <1>0 DEF OneLivePerFamily, Live
  <2>4. EndedStaysEnded'
    BY <2>a, <2>b, <1>0 DEF EndedStaysEnded, Live
  <2>5. \A g \in ended' : HasRows(g)'
    BY <2>a, <2>b, <1>0 DEF Holds, HasRows
  <2>6. \A s \in Requests : HandlerInv(s)'
    BY <2>a, <2>b, <1>0
       DEF Shape, HandlerShape, HandlerInv, HasRows, Live, CookieInv,
           OneRequestEach, OneLivePerFamily, EndedStaysEnded
  <2>7. \A e \in Devices : CookieInv(e)'
    BY <2>a, <2>b, <1>0 DEF CookieInv
  <2>. QED
    BY <1>0, <2>1, <2>2, <2>3, <2>4, <2>5, <2>6, <2>7 DEF IInv
<1>5. ASSUME NEW r \in Requests, CheckUser(r)
      PROVE  IInv'
  <2>1. OneRequestEach'
    BY <1>5, <1>0 DEF CheckUser, Goto, OneRequestEach
  <2>2. OneHolder'
    BY <1>5, <1>0 DEF CheckUser, Goto, OneHolder, Holds
  <2>3. OneLivePerFamily'
    BY <1>5, <1>0 DEF CheckUser, OneLivePerFamily, Live
  <2>4. EndedStaysEnded'
    BY <1>5, <1>0 DEF CheckUser, EndedStaysEnded, Live
  <2>5. \A g \in ended' : HasRows(g)'
    BY <1>5, <1>0 DEF CheckUser, HasRows
  <2>6. \A s \in Requests : HandlerInv(s)'
    BY <1>5, <1>0 DEF CheckUser, Goto, HandlerInv, HasRows, Live
  <2>7. \A e \in Devices : CookieInv(e)'
    BY <1>5, <1>0 DEF CheckUser, Goto, CookieInv
  <2>. QED
    BY <1>0, <2>1, <2>2, <2>3, <2>4, <2>5, <2>6, <2>7 DEF IInv
<1>6. ASSUME NEW r \in Requests, Rotate(r)
      PROVE  IInv'
  <2>1. OneRequestEach'
    BY <1>6, <1>0 DEF Rotate, Goto, OneRequestEach
  <2>2. OneHolder'
    BY <1>6, <1>0 DEF Rotate, Goto, OneHolder, Holds
  <2>3. OneLivePerFamily'
    BY <1>6, <1>0 DEF Rotate, OneLivePerFamily, Live
  <2>4. EndedStaysEnded'
    BY <1>6, <1>0 DEF Rotate, EndedStaysEnded, Live
  <2>5. \A g \in ended' : HasRows(g)'
    BY <1>6, <1>0 DEF Rotate, HasRows
  <2>6. \A s \in Requests : HandlerInv(s)'
    BY <1>6, <1>0
       DEF Rotate, Goto, Shape, HandlerShape, HandlerInv, HasRows, Live,
           OneHolder, Holds, OneRequestEach
  <2>7. \A e \in Devices : CookieInv(e)'
    BY <1>6, <1>0
       DEF Rotate, Goto, Shape, HandlerShape, CookieInv, OneHolder, Holds
  <2>. QED
    BY <1>0, <2>1, <2>2, <2>3, <2>4, <2>5, <2>6, <2>7 DEF IInv
<1>7. ASSUME NEW r \in Requests, ReadUser(r)
      PROVE  IInv'
  <2>1. OneRequestEach'
    BY <1>7, <1>0 DEF ReadUser, Shape, OneRequestEach
  <2>2. OneHolder'
    BY <1>7, <1>0 DEF ReadUser, Shape, OneHolder, Holds
  <2>3. OneLivePerFamily'
    BY <1>7, <1>0 DEF ReadUser, OneLivePerFamily, Live
  <2>4. EndedStaysEnded'
    BY <1>7, <1>0 DEF ReadUser, EndedStaysEnded, Live
  <2>5. \A g \in ended' : HasRows(g)'
    BY <1>7, <1>0 DEF ReadUser, HasRows
  <2>6. \A s \in Requests : HandlerInv(s)'
    BY <1>7, <1>0 DEF ReadUser, Shape, HandlerInv, HasRows, Live
  <2>7. \A e \in Devices : CookieInv(e)'
    BY <1>7, <1>0 DEF ReadUser, Shape, CookieInv
  <2>. QED
    BY <1>0, <2>1, <2>2, <2>3, <2>4, <2>5, <2>6, <2>7 DEF IInv
<1>8. ASSUME NEW r \in Requests, NEW t \in Tokens, Issue(r, t)
      PROVE  IInv'
  <2>1. OneRequestEach'
    BY <1>8, <1>0 DEF Issue, Shape, OneRequestEach
  <2>2. OneHolder'
    BY <1>8, <1>0 DEF Issue, Shape, OneHolder, Holds
  <2>3. OneLivePerFamily'
    BY <1>8, <1>0 DEF Issue, Shape, OneLivePerFamily, HandlerInv, Live
  <2>4. EndedStaysEnded'
    BY <1>8, <1>0 DEF Issue, Shape, EndedStaysEnded, HandlerInv, Live
  <2>5. \A g \in ended' : HasRows(g)'
    BY <1>8, <1>0 DEF Issue, Shape, HasRows
  <2>6. \A s \in Requests : HandlerInv(s)'
    BY <1>8, <1>0 DEF Issue, Shape, HandlerShape
  <2>7. \A e \in Devices : CookieInv(e)'
    BY <1>8, <1>0 DEF Issue, Shape, CookieInv
  <2>. QED
    BY <1>0, <2>1, <2>2, <2>3, <2>4, <2>5, <2>6, <2>7 DEF IInv
<1>9. ASSUME NEW r \in Requests, EndFamily(r)
      PROVE  IInv'
  <2>1. OneRequestEach'
    BY <1>9, <1>0 DEF EndFamily, Goto, OneRequestEach
  <2>2. OneHolder'
    BY <1>9, <1>0 DEF EndFamily, Goto, OneHolder, Holds
  <2>3. OneLivePerFamily'
    BY <1>9, <1>0 DEF EndFamily, Revoked, OneLivePerFamily, Live
  <2>4. EndedStaysEnded'
    BY <1>9, <1>0 DEF EndFamily, Revoked, EndedStaysEnded, Live
  <2>5. \A g \in ended' : HasRows(g)'
    BY <1>9, <1>0 DEF EndFamily, HasRows
  <2>6. \A s \in Requests : HandlerInv(s)'
    BY <1>9, <1>0
       DEF EndFamily, Goto, Revoked, OfFamily, Shape, HandlerShape,
           HandlerInv, HasRows, Live
  <2>7. \A e \in Devices : CookieInv(e)'
    BY <1>9, <1>0
       DEF EndFamily, Goto, Revoked, OfFamily, Shape, HandlerShape, CookieInv,
           HandlerInv
  <2>. QED
    BY <1>0, <2>1, <2>2, <2>3, <2>4, <2>5, <2>6, <2>7 DEF IInv
<1>10. ASSUME NEW r \in Requests, BumpVersion(r)
       PROVE  IInv'
  <2>1. OneRequestEach'
    BY <1>10, <1>0 DEF BumpVersion, Goto, OneRequestEach
  <2>2. OneHolder'
    BY <1>10, <1>0 DEF BumpVersion, Goto, OneHolder, Holds
  <2>3. OneLivePerFamily'
    BY <1>10, <1>0 DEF BumpVersion, OneLivePerFamily, Live
  <2>4. EndedStaysEnded'
    BY <1>10, <1>0 DEF BumpVersion, EndedStaysEnded, HandlerInv, Live
  <2>5. \A g \in ended' : HasRows(g)'
    BY <1>10, <1>0 DEF BumpVersion, HandlerInv, HasRows
  <2>6. \A s \in Requests : HandlerInv(s)'
    BY <1>10, <1>0
       DEF BumpVersion, Goto, Shape, HandlerShape, HandlerInv, HasRows, Live,
           OneHolder, Holds, OneRequestEach
  <2>7. \A e \in Devices : CookieInv(e)'
    BY <1>10, <1>0 DEF BumpVersion, Goto, CookieInv
  <2>. QED
    BY <1>0, <2>1, <2>2, <2>3, <2>4, <2>5, <2>6, <2>7 DEF IInv
<1>11. ASSUME NEW r \in Requests, RevokeAll(r)
       PROVE  IInv'
  <2>1. OneRequestEach'
    BY <1>11, <1>0 DEF RevokeAll, Goto, OneRequestEach
  <2>2. OneHolder'
    BY <1>11, <1>0 DEF RevokeAll, Goto, OneHolder, Holds
  <2>3. OneLivePerFamily'
    BY <1>11, <1>0 DEF RevokeAll, Revoked, OneLivePerFamily, Live
  <2>4. EndedStaysEnded'
    BY <1>11, <1>0 DEF RevokeAll, Revoked, EndedStaysEnded, Live
  <2>5. \A g \in ended' : HasRows(g)'
    BY <1>11, <1>0 DEF RevokeAll, HasRows
  <2>6. \A s \in Requests : HandlerInv(s)'
    BY <1>11, <1>0
       DEF RevokeAll, Goto, Revoked, Known, Shape, HandlerShape, HandlerInv,
           HasRows, Live
  <2>7. \A e \in Devices : CookieInv(e)'
    BY <1>11, <1>0 DEF RevokeAll, Known, Shape, CookieInv
  <2>. QED
    BY <1>0, <2>1, <2>2, <2>3, <2>4, <2>5, <2>6, <2>7 DEF IInv
<1>12. ASSUME NEW r \in Requests, Answer(r)
       PROVE  IInv'
  <2>1. OneRequestEach'
    BY <1>12, <1>0 DEF Answer, Shape, HandlerShape, OneRequestEach
  <2>2. OneHolder'
    BY <1>12, <1>0 DEF Answer, Shape, HandlerShape, OneHolder, Holds
  <2>3. OneLivePerFamily'
    BY <1>12, <1>0 DEF Answer, OneLivePerFamily, Live
  <2>4. EndedStaysEnded'
    BY <1>12, <1>0 DEF Answer, EndedStaysEnded, Live
  <2>5. \A g \in ended' : HasRows(g)'
    BY <1>12, <1>0 DEF Answer, HasRows
  <2>6. \A s \in Requests : HandlerInv(s)'
    BY <1>12, <1>0 DEF Answer, HandlerInv, HasRows, Live, OneRequestEach
  <2>7. \A e \in Devices : CookieInv(e)'
    BY <1>12, <1>0 DEF Answer, Shape, HandlerShape, CookieInv, HandlerInv
  <2>. QED
    BY <1>0, <2>1, <2>2, <2>3, <2>4, <2>5, <2>6, <2>7 DEF IInv
<1>13. ASSUME NEW r \in Requests, Lose(r)
       PROVE  IInv'
  <2>1. OneRequestEach'
    BY <1>13, <1>0 DEF Lose, Shape, HandlerShape, OneRequestEach
  <2>2. OneHolder'
    BY <1>13, <1>0 DEF Lose, OneHolder, Holds
  <2>3. OneLivePerFamily'
    BY <1>13, <1>0 DEF Lose, OneLivePerFamily, Live
  <2>4. EndedStaysEnded'
    BY <1>13, <1>0 DEF Lose, EndedStaysEnded, Live
  <2>5. \A g \in ended' : HasRows(g)'
    BY <1>13, <1>0 DEF Lose, HasRows
  <2>6. \A s \in Requests : HandlerInv(s)'
    BY <1>13, <1>0 DEF Lose, HandlerInv, HasRows, Live
  <2>7. \A e \in Devices : CookieInv(e)'
    BY <1>13, <1>0 DEF Lose, Shape, CookieInv
  <2>. QED
    BY <1>0, <2>1, <2>2, <2>3, <2>4, <2>5, <2>6, <2>7 DEF IInv
<1>14. ASSUME NEW d \in Devices, Logout(d)
       PROVE  IInv'
  <2>1. OneRequestEach'
    BY <1>14, <1>0 DEF Logout, OneRequestEach
  <2>2. OneHolder'
    BY <1>14, <1>0 DEF Logout, OneHolder, Holds
  <2>3. OneLivePerFamily'
    BY <1>14, <1>0 DEF Logout, OneLivePerFamily, Live
  <2>4. EndedStaysEnded'
    BY <1>14, <1>0 DEF Logout, EndedStaysEnded, Live
  <2>5. \A g \in ended' : HasRows(g)'
    BY <1>14, <1>0 DEF Logout, HasRows
  <2>6. \A s \in Requests : HandlerInv(s)'
    BY <1>14, <1>0
       DEF Logout, Waiting, Shape, HandlerShape, HandlerInv, HasRows, Live,
           OneHolder, Holds
  <2>7. \A e \in Devices : CookieInv(e)'
    BY <1>14, <1>0 DEF Logout, Shape, CookieInv, OneHolder, Holds
  <2>. QED
    BY <1>0, <2>1, <2>2, <2>3, <2>4, <2>5, <2>6, <2>7 DEF IInv
<1>15. ASSUME NEW b \in BOOLEAN, SetActive(b)
       PROVE  IInv'
  <2>1. OneRequestEach'
    BY <1>15, <1>0 DEF SetActive, OneRequestEach
  <2>2. OneHolder'
    BY <1>15, <1>0 DEF SetActive, OneHolder, Holds
  <2>3. OneLivePerFamily'
    BY <1>15, <1>0 DEF SetActive, OneLivePerFamily, Live
  <2>4. EndedStaysEnded'
    BY <1>15, <1>0 DEF SetActive, EndedStaysEnded, Live
  <2>5. \A g \in ended' : HasRows(g)'
    BY <1>15, <1>0 DEF SetActive, HasRows
  <2>6. \A s \in Requests : HandlerInv(s)'
    BY <1>15, <1>0 DEF SetActive, HandlerInv, HasRows, Live
  <2>7. \A e \in Devices : CookieInv(e)'
    BY <1>15, <1>0 DEF SetActive, CookieInv
  <2>. QED
    BY <1>0, <2>1, <2>2, <2>3, <2>4, <2>5, <2>6, <2>7 DEF IInv
<1>16. ASSUME NEW t \in Tokens, Lapse(t)
       PROVE  IInv'
  <2>1. OneRequestEach'
    BY <1>16, <1>0 DEF Lapse, OneRequestEach
  <2>2. OneHolder'
    BY <1>16, <1>0 DEF Lapse, OneHolder, Holds
  <2>3. OneLivePerFamily'
    BY <1>16, <1>0 DEF Lapse, OneLivePerFamily, Live
  <2>4. EndedStaysEnded'
    BY <1>16, <1>0 DEF Lapse, EndedStaysEnded, Live
  <2>5. \A g \in ended' : HasRows(g)'
    BY <1>16, <1>0 DEF Lapse, HasRows
  <2>6. \A s \in Requests : HandlerInv(s)'
    BY <1>16, <1>0 DEF Lapse, HandlerInv, HasRows, Live
  <2>7. \A e \in Devices : CookieInv(e)'
    BY <1>16, <1>0 DEF Lapse, CookieInv
  <2>. QED
    BY <1>0, <2>1, <2>2, <2>3, <2>4, <2>5, <2>6, <2>7 DEF IInv
<1>17. CASE UNCHANGED vars
  BY <1>17, <1>0
     DEF vars, IInv, OneRequestEach, OneHolder, Holds, OneLivePerFamily,
         EndedStaysEnded, HandlerInv, HasRows, CookieInv, Live
<1>. QED
  BY <1>1, <1>2, <1>3, <1>4, <1>5, <1>6, <1>7, <1>8, <1>9, <1>10, <1>11,
     <1>12, <1>13, <1>14, <1>15, <1>16, <1>17
     DEF Next

LEMMA IInvInit == Init => IInv
<1>. SUFFICES ASSUME Init
              PROVE  IInv
  OBVIOUS
<1>1. Shape
  BY ShapeInit
<1>2. \A r \in Requests : /\ req[r].pc = "idle"
                          /\ req[r].dev = Nothing /\ req[r].fam = Nothing
  BY Rest DEF Init
<1>3. OneRequestEach /\ \A r \in Requests : HandlerInv(r)
  BY <1>2 DEF OneRequestEach, HandlerInv
<1>4. OneHolder
  BY <1>2, SessionAssumption DEF Init, OneHolder, Holds
<1>5. OneLivePerFamily /\ EndedStaysEnded
  BY DEF Init, OneLivePerFamily, EndedStaysEnded, Live
<1>6. \A d \in Devices : CookieInv(d)
  BY DEF Init, CookieInv
<1>. QED
  BY <1>1, <1>3, <1>4, <1>5, <1>6 DEF Init, IInv

LEMMA IInvAlways == ASSUME Overlap = FALSE PROVE Spec => []IInv
<1>1. Init => IInv
  BY IInvInit
<1>2. IInv /\ [Next]_vars => IInv'
  BY IInvStep
<1>. QED
  BY <1>1, <1>2, PTL DEF Spec

(* What a handler has read agrees with the rows, overlapping requests too. *)
LEMMA ShapeAlways == Spec => []Shape
BY ShapeInit, ShapeStep, PTL DEF Spec

------------------------------------------------------------------------------
(* Every variable keeps its type, whether requests overlap or not.         *)
THEOREM TypeCorrect == Spec => []TypeOK
<1>1. Shape => TypeOK
  BY DEF Shape
<1>. QED
  BY <1>1, ShapeAlways, PTL

(* Rotation (authController.js:411): a family never has two tokens that    *)
(* still refresh.                                                          *)
THEOREM OneLiveToken == ASSUME Overlap = FALSE PROVE Spec => []OneLivePerFamily
<1>1. IInv => OneLivePerFamily
  BY DEF IInv
<1>. QED
  BY <1>1, IInvAlways, PTL

(* Reuse detection (authController.js:391): no token of a family that was  *)
(* ended refreshes again.                                                  *)
THEOREM ReuseEndsForGood == ASSUME Overlap = FALSE PROVE Spec => []EndedStaysEnded
<1>1. IInv => EndedStaysEnded
  BY DEF IInv
<1>. QED
  BY <1>1, IInvAlways, PTL

(* A device that awaits one answer at a time is never taken for a reuse    *)
(* unless its family lost an answer or met a reset.                        *)
THEOREM PatientDeviceStaysIn == ASSUME Overlap = FALSE PROVE Spec => []SessionKept
<1>1. IInv => SessionKept
  BY DEF IInv, CookieInv, SessionKept, Waiting
<1>. QED
  BY <1>1, IInvAlways, PTL

(***************************************************************************)
(* A family that a reset has swept: all its tokens are revoked, and no     *)
(* handler is about to issue another.                                      *)
(***************************************************************************)
Over(f) ==
  /\ \A t \in Tokens : family[t] = f => state[t] = "revoked"
  /\ HasRows(f)
  /\ ~\E r \in Requests : req[r].fam = f /\ req[r].pc \in PastLookup

SweptInv == Shape /\ \A f \in swept : Over(f)

LEMMA SweptStep == SweptInv /\ [Next]_vars => SweptInv'
<1>. SUFFICES ASSUME SweptInv, [Next]_vars
              PROVE  SweptInv'
  OBVIOUS
<1>. USE DEF PastLookup, rows, account
<1>0. Shape /\ Shape' /\ \A f \in swept : Over(f)
  BY ShapeStep DEF SweptInv
<1>. SUFFICES \A f \in swept' : Over(f)'
  BY <1>0 DEF SweptInv
<1>. USE SessionAssumption, Rest DEF Shape, TypeOK, HandlerShape, Over, HasRows
<1>1. ASSUME NEW r \in Requests, NEW d \in Devices, NEW f \in Families, Login(r, d, f)
      PROVE  \A g \in swept' : Over(g)'
  BY <1>1, <1>0 DEF Login, Free, Known
<1>2. ASSUME NEW r \in Requests, NEW d \in Devices, Send(r, d)
      PROVE  \A g \in swept' : Over(g)'
  BY <1>2, <1>0 DEF Send, Free, Idle
<1>3. ASSUME NEW r \in Requests, NEW d \in Devices, ResetPassword(r, d)
       PROVE  \A g \in swept' : Over(g)'
  BY <1>3, <1>0 DEF ResetPassword, Free, Idle
<1>4. ASSUME NEW r \in Requests, Lookup(r)
      PROVE  \A g \in swept' : Over(g)'
  BY <1>4, <1>0 DEF Lookup
<1>5. ASSUME NEW r \in Requests, CheckUser(r)
      PROVE  \A g \in swept' : Over(g)'
  BY <1>5, <1>0 DEF CheckUser, Goto
<1>6. ASSUME NEW r \in Requests, Rotate(r)
       PROVE  \A g \in swept' : Over(g)'
  BY <1>6, <1>0 DEF Rotate, Goto
<1>7. ASSUME NEW r \in Requests, ReadUser(r)
      PROVE  \A g \in swept' : Over(g)'
  <2>1. /\ req[r].pc = "reading" /\ UNCHANGED <<rows, swept>>
        /\ \A s \in Requests : req'[s].fam = req[s].fam
        /\ \A s \in Requests \ {r} : req'[s].pc = req[s].pc
    BY <1>7, <1>0 DEF ReadUser
  <2>. QED
    BY <2>1, <1>0
<1>8. ASSUME NEW r \in Requests, NEW t \in Tokens, Issue(r, t)
      PROVE  \A g \in swept' : Over(g)'
  BY <1>8, <1>0 DEF Issue
<1>9. ASSUME NEW r \in Requests, EndFamily(r)
      PROVE  \A g \in swept' : Over(g)'
  BY <1>9, <1>0 DEF EndFamily, Goto, Revoked, OfFamily
<1>10. ASSUME NEW r \in Requests, BumpVersion(r)
      PROVE  \A g \in swept' : Over(g)'
  BY <1>10, <1>0 DEF BumpVersion, Goto
<1>11. ASSUME NEW r \in Requests, RevokeAll(r)
      PROVE  \A g \in swept' : Over(g)'
  <2>1. /\ \A s \in Requests : req'[s].fam = req[s].fam
        /\ \A s \in Requests : req'[s].pc \in PastLookup => req[s].pc \in PastLookup
        /\ family' = family
        /\ swept' = swept \cup {f \in Families : Settled(f)}
    BY <1>11, <1>0 DEF RevokeAll, Goto
  <2>2. \A t \in Tokens : state'[t] = IF state[t] # "unused" THEN "revoked"
                                                           ELSE state[t]
    BY <1>11, <1>0 DEF RevokeAll, Revoked
  <2>3. ASSUME NEW f \in swept PROVE Over(f)'
    BY <2>1, <2>2, <2>3, <1>0
  <2>4. ASSUME NEW f \in Families, Settled(f) PROVE Over(f)'
    BY <2>1, <2>2, <2>4, <1>0 DEF Settled, OfFamily
  <2>. QED
    BY <2>1, <2>3, <2>4
<1>12. ASSUME NEW r \in Requests, Answer(r) \/ Lose(r)
       PROVE  \A g \in swept' : Over(g)'
  BY <1>12, <1>0 DEF Answer, Lose
<1>13. ASSUME NEW d \in Devices, Logout(d)
       PROVE  \A g \in swept' : Over(g)'
  BY <1>13, <1>0 DEF Logout
<1>14. ASSUME NEW b \in BOOLEAN, SetActive(b)
       PROVE  \A g \in swept' : Over(g)'
  BY <1>14, <1>0 DEF SetActive
<1>15. ASSUME NEW t \in Tokens, Lapse(t)
       PROVE  \A g \in swept' : Over(g)'
  BY <1>15, <1>0 DEF Lapse
<1>16. CASE UNCHANGED vars
  BY <1>16, <1>0 DEF vars
<1>. QED
  BY <1>1, <1>2, <1>3, <1>4, <1>5, <1>6, <1>7, <1>8, <1>9, <1>10, <1>11,
     <1>12, <1>13, <1>14, <1>15, <1>16
     DEF Next

(* "Invalidate all refresh tokens" (authController.js:455): no session     *)
(* that a reset of the password ended refreshes again, however requests    *)
(* overlap.  Not ended is a session whose handler had found its token good *)
(* before the reset's second UPDATE; nor any, if the reset dies before it. *)
THEOREM ResetIsFinal == Spec => []ResetEndsSessions
<1>1. Init => SweptInv
  BY ShapeInit DEF Init, SweptInv
<1>2. SweptInv => ResetEndsSessions
  BY DEF SweptInv, Over, ResetEndsSessions, Live
<1>. QED
  BY <1>1, <1>2, SweptStep, PTL DEF Spec
=============================================================================
