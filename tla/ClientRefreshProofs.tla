------------------------- MODULE ClientRefreshProofs -------------------------
(***************************************************************************)
(* Theorems about ClientRefresh, for every number of requests and of       *)
(* tokens issued: no request waits for a refresh that will not call it,    *)
(* and the page is taken for a thief of its own token in one way only: a   *)
(* refresh begun with the cookie that initAuth's own has presented.        *)
(***************************************************************************)
EXTENDS ClientRefresh, TLAPS

------------------------------------------------------------------------------
(***************************************************************************)
(* The inductive invariant.  A token is fit if presenting it raises no     *)
(* alarm, or one that is excused.  What an answer carries is held by that  *)
(* answer alone until its callback runs.                                   *)
(***************************************************************************)
Fit(n) == n = 0 \/ n \in good \/ home[n] \in excused

Working(r) == req[r].pc \in {"refreshing", "renewed", "denied", "broken"}

(* NobodyForgotten, request by request.                                    *)
Gathered ==
  /\ subscribers \subseteq Requests
  /\ \A r \in Requests : r \in subscribers <=> req[r].pc = "waiting"
  /\ \A r \in Requests : req[r].pc = "waiting" \/ Working(r) => refreshing
  /\ refreshing => \E r \in Requests : Working(r)
  /\ \A r, q \in Requests : Working(r) /\ Working(q) => r = q

(* A login or a refresh that brings a token of its own.                    *)
Carries(r) == req[r].pc \in {"ok", "renewed"} /\ req[r].got # 0

(* Nothing names a token before it is issued.                              *)
KnownTokens ==
  /\ jar <= issued
  /\ \A r \in Callers : req[r].got <= issued /\ req[r].cookie <= issued

(* A token on its way is in no other answer, in no refresh, not the        *)
(* cookie.                                                                 *)
AnswersApart ==
  \A r \in Callers : Carries(r) =>
    /\ req[r].got # jar
    /\ \A q \in Callers : /\ req[q].pc = "refreshing" => req[q].cookie # req[r].got
                          /\ q # r /\ Carries(q) => req[q].got # req[r].got

(* What an answer brings is fit, and what a refresh presents.              *)
CarriedFit ==
  \A r \in Callers : /\ Carries(r) => Fit(req[r].got)
                     /\ req[r].pc = "refreshing" => Fit(req[r].cookie)
                     /\ req[r].pc = "renewed" => req[r].got # 0

(* The cookie is fit, or the answer that replaces it is on its way.        *)
CookieFit ==
  \/ Fit(jar)
  \/ \E r \in Callers : req[r].pc = "renewed" /\ home[req[r].got] = home[jar]

(* A token that initAuth and a request present at once is excused.         *)
TogetherExcused ==
  \A r \in Requests :
    /\ req[r].pc = "refreshing" /\ req[Boot].pc = "refreshing"
    /\ req[r].cookie = req[Boot].cookie
    /\ req[r].cookie # 0
    => home[req[r].cookie] \in excused

(* Login is never refreshed; initAuth's own refresh takes none of the      *)
(* other steps.                                                            *)
KindInv ==
  /\ req[Boot].pc \in {"refreshing", "renewed", "denied", "broken", "idle"}
  /\ \A r \in Requests :
       /\ req[r].pc \in {"refused", "waiting", "refreshing", "renewed", "denied", "broken"}
            => req[r].kind # "login"
       /\ req[r].pc = "ok" /\ req[r].kind \notin SignIns => req[r].got = 0

(* The parts together.                                                     *)
IInv ==
  /\ TypeOK /\ KnownTokens /\ KindInv
  /\ Gathered
  /\ AnswersApart /\ CarriedFit /\ CookieFit /\ TogetherExcused
  /\ NoSelfReuse

------------------------------------------------------------------------------
(* A request that is over, and the tokens it could name.                   *)
LEMMA Rest ==
  /\ Idle \in Request /\ Idle.pc = "idle" /\ Idle.kind = "call"
  /\ Idle.got = 0 /\ Idle.cookie = 0
  /\ 0 \in Pair /\ Pair \subseteq Nat
BY ClientAssumption DEF Idle, Request, Steps, Kinds, Pair

(* What is known of a request sent afresh, with which cookie.              *)
IsFetch(f, k, c) ==
  /\ f \in Request
  /\ f.pc = "sent" /\ f.kind = k /\ f.got = 0
  /\ f.cookie \in {0, c}

(* fetch, with the access token or without.                                *)
LEMMA FetchIs ==
  ASSUME NEW k \in Kinds, NEW t \in BOOLEAN, NEW c \in Pair
  PROVE  IsFetch(Fetch(k, FALSE, t, c), k, c) /\ IsFetch(Fetch(k, TRUE, t, c), k, c)
BY Rest, ClientAssumption DEF Fetch, IsFetch, Request, Steps, Kinds, Pair

(* One request has changed, to this step, kind and token.                  *)
Changed(r, a, k, n) ==
  /\ req' \in [Callers -> Request]
  /\ req'[r].pc = a /\ req'[r].kind = k /\ req'[r].got = n
  /\ req'[r].cookie = 0 \/ req'[r].cookie = IF a = "sent" THEN jar ELSE req[r].cookie
  /\ \A q \in Callers \ {r} : req'[q] = req[q]

(* One token more is issued, of the session that began with first.         *)
Issued(first) ==
  /\ issued' = issued + 1 /\ issued' \in Pair
  /\ home' \in [1..issued' -> 1..issued']
  /\ home'[issued'] = first
  /\ \A n \in 1..issued : home'[n] = home[n]

(* NewPair issues one.                                                     *)
LEMMA IssuedIs ==
  ASSUME TypeOK, NEW first \in 1..(issued + 1), NewPair(first)
  PROVE  Issued(first)
BY ClientAssumption DEF TypeOK, NewPair, Issued, Pair

(* An answer changes the request it answers.                               *)
LEMMA AnswerIs ==
  ASSUME req \in [Callers -> Request], NEW r \in Callers,
         NEW a \in Steps \ {"sent"}, NEW n \in Pair, req' = Answer(r, a, n)
  PROVE  Changed(r, a, req[r].kind, n)
<1>. DEFINE ans == [req[r] EXCEPT !.pc = a, !.got = n, !.token = FALSE,
                                 !.cookie = IF a = "denied" THEN @ ELSE 0]
<1>1. ans \in Request
  BY Rest DEF Request
<1>2. /\ ans.pc = a /\ ans.got = n /\ ans.kind = req[r].kind
      /\ ans.cookie = 0 \/ ans.cookie = req[r].cookie
  BY <1>1 DEF Request
<1>3. req' = [req EXCEPT ![r] = ans]
  BY DEF Answer
<1>. QED
  BY <1>1, <1>2, <1>3 DEF Changed

(* The tokens that are compared are numbers.                               *)
LEMMA Fields ==
  ASSUME TypeOK
  PROVE  /\ jar \in Nat /\ issued \in Nat
         /\ \A q \in Callers : /\ req[q].pc \in Steps /\ req[q].kind \in Kinds
                               /\ req[q].got \in Nat /\ req[q].cookie \in Nat
BY Rest DEF TypeOK, Request

(* The page learns nothing until the callback runs.                        *)
Untouched == UNCHANGED <<token, refreshing, subscribers, user, jar>>

(* The answers a request can have: none while it waits, and no end of a    *)
(* refresh for others.                                                     *)
Fits(r, a) ==
  /\ req[r].pc # "idle"
  /\ r \in Requests => req[r].pc # "waiting" /\ (a \in {"denied", "broken"} <=> Working(r))
  /\ r = Boot => a \in {"denied", "broken"}
  /\ a = "refused" => req[r].kind # "login"

(* An answer without a token leaves all but the fitness of tokens.         *)
LEMMA EmptyAnswer ==
  ASSUME IInv, TypeOK', NEW r \in Callers,
         NEW a \in {"ok", "refused", "failed", "denied", "broken"},
         Changed(r, a, req[r].kind, 0), Untouched, UNCHANGED <<issued, home>>, Fits(r, a),
         excused \subseteq excused'
  PROVE  KnownTokens' /\ KindInv' /\ Gathered' /\ AnswersApart' /\ TogetherExcused'
<1>. USE ClientAssumption DEF Callers, Changed, Untouched
<1>0. /\ KnownTokens /\ KindInv /\ Gathered /\ AnswersApart /\ TogetherExcused /\ TypeOK
  BY DEF IInv
<1>1. KnownTokens'
  BY <1>0, Fields DEF KnownTokens
<1>2. KindInv'
  BY <1>0 DEF KindInv, Fits, Working
<1>3. Gathered'
  BY <1>0 DEF Gathered, Fits, Working
<1>c. \A q \in Callers : Carries(q)' => Carries(q) /\ req'[q].got = req[q].got
  BY <1>0 DEF Carries
<1>d. \A q \in Callers : req'[q].pc = "refreshing" => req[q].pc = "refreshing" /\ req'[q].cookie = req[q].cookie
  OBVIOUS
<1>4. AnswersApart'
  BY <1>0, <1>c, <1>d DEF AnswersApart
<1>5. TogetherExcused'
  BY <1>0, <1>d DEF TogetherExcused
<1>. QED
  BY <1>1, <1>2, <1>3, <1>4, <1>5

(* What was fit stays so.                                                  *)
Kept == \A n \in 0..issued : Fit(n) => Fit(n)'

(* And it leaves the fitness, if the tokens keep theirs.                   *)
LEMMA EmptyAnswerFit ==
  ASSUME IInv, TypeOK', NEW r \in Callers,
         NEW a \in {"ok", "refused", "failed", "denied", "broken"},
         Changed(r, a, req[r].kind, 0), Untouched, UNCHANGED <<issued, home>>, Kept,
         req[r].pc = "renewed" => home[req[r].got] \in excused'
  PROVE  CarriedFit' /\ CookieFit'
<1>. USE ClientAssumption DEF Callers, Changed, Untouched
<1>0. KnownTokens /\ CarriedFit /\ CookieFit /\ TypeOK
  BY DEF IInv
<1>1. /\ jar \in 0..issued
      /\ \A q \in Callers : req[q].got \in 0..issued /\ req[q].cookie \in 0..issued
  BY <1>0, Fields DEF KnownTokens
<1>2. \A q \in Callers : Carries(q)' => Carries(q) /\ req'[q].got = req[q].got
  BY <1>0 DEF Carries
<1>3. \A q \in Callers : req'[q].pc \in {"refreshing", "renewed"} => req'[q] = req[q]
  OBVIOUS
<1>4. CarriedFit'
  BY <1>0, <1>1, <1>2, <1>3 DEF CarriedFit, Kept
<1>5. CookieFit'
  <2>1. CASE Fit(jar)
    BY <2>1, <1>1 DEF CookieFit, Kept
  <2>2. CASE \E q \in Callers : req[q].pc = "renewed" /\ home[req[q].got] = home[jar]
    <3>1. PICK q \in Callers : req[q].pc = "renewed" /\ home[req[q].got] = home[jar]
      BY <2>2
    <3>2. CASE q = r
      BY <3>1, <3>2 DEF CookieFit, Fit
    <3>3. CASE q # r
      BY <3>1, <3>3 DEF CookieFit
    <3>. QED
      BY <3>2, <3>3
  <2>. QED
    BY <1>0, <2>1, <2>2 DEF CookieFit
<1>. QED
  BY <1>4, <1>5

(* A login or a refresh brings a token, of a session of its own or of the  *)
(* one presented.                                                          *)
LEMMA FullAnswer ==
  ASSUME IInv, TypeOK', NEW r \in Callers, NEW first, Issued(first), Untouched,
         NEW a \in {"ok", "renewed"}, Changed(r, a, req[r].kind, issued + 1),
         a = "ok" => r # Boot /\ req[r].pc = "sent" /\ req[r].kind \in SignIns,
         a = "renewed" => req[r].pc = "refreshing", excused' = excused
  PROVE  KnownTokens' /\ KindInv' /\ Gathered' /\ AnswersApart' /\ TogetherExcused'
<1>. USE ClientAssumption DEF Callers, Changed, Untouched
<1>0. /\ KnownTokens /\ KindInv /\ Gathered /\ AnswersApart /\ TogetherExcused /\ TypeOK
  BY DEF IInv
<1>. issued \in Nat /\ issued' = issued + 1
  BY <1>0, Fields DEF Issued
<1>f. \A q \in Callers : /\ req[q].got \in Nat /\ req[q].got <= issued
                        /\ req[q].cookie \in Nat /\ req[q].cookie <= issued
  BY <1>0, Fields DEF KnownTokens
<1>g. jar \in Nat /\ jar <= issued
  BY <1>0, Fields DEF KnownTokens
<1>1. KnownTokens'
  BY <1>f, <1>g DEF KnownTokens
<1>2. KindInv'
  BY <1>0 DEF KindInv
<1>3. Gathered'
  BY <1>0 DEF Gathered, Working
<1>c. \A q \in Callers \ {r} : Carries(q)' => Carries(q) /\ req'[q].got = req[q].got
  BY <1>0 DEF Carries
<1>d. \A q \in Callers : req'[q].pc = "refreshing" => q # r /\ req'[q] = req[q]
  OBVIOUS
<1>4. AnswersApart'
  BY <1>0, <1>c, <1>d, <1>f, <1>g DEF AnswersApart
<1>5. TogetherExcused'
  <2>. SUFFICES ASSUME NEW q \in Requests,
                       req'[q].pc = "refreshing", req'[Boot].pc = "refreshing",
                       req'[q].cookie = req'[Boot].cookie, req'[q].cookie # 0
                PROVE  home'[req'[q].cookie] \in excused'
    BY DEF TogetherExcused
  <2>1. req'[q] = req[q] /\ req'[Boot] = req[Boot]
    BY <1>d
  <2>2. req[q].cookie \in 1..issued
    BY <1>f, <2>1
  <2>3. home'[req[q].cookie] = home[req[q].cookie]
    BY <2>2 DEF Issued
  <2>. QED
    BY <1>0, <2>1, <2>3 DEF TogetherExcused
<1>. QED
  BY <1>1, <1>2, <1>3, <1>4, <1>5

(* The types through any answer.                                           *)
LEMMA TypeAnswer ==
  ASSUME TypeOK, NEW r \in Callers, NEW a, NEW k, NEW n, Changed(r, a, k, n), Untouched,
         req[r].pc # "waiting", issued' \in Pair, home' \in [1..issued' -> 1..issued'],
         good' \subseteq 1..issued',
         alarm' \cup excused' \subseteq 1..issued'
  PROVE  TypeOK'
BY DEF TypeOK, Changed, Untouched, Callers

(* The types through any step.                                             *)
LEMMA TypeStep ==
  ASSUME IInv, [Next]_vars
  PROVE  TypeOK'
<1>. USE ClientAssumption, Rest DEF server, page, Callers
<1>0. TypeOK /\ req \in [Callers -> Request] /\ issued \in Nat
  BY Fields DEF IInv, TypeOK
<1>f. \A q \in Callers : /\ req[q].got \in Nat /\ req[q].got <= issued
                        /\ req[q].cookie \in Nat /\ req[q].cookie <= issued
  BY <1>0, Fields DEF IInv, KnownTokens
<1>1. ASSUME NEW r \in Requests, NEW k \in Kinds \ {"boot"}, Send(r, k)
      PROVE  TypeOK'
  <2>1. Fetch(k, FALSE, token, jar) \in Request
    BY <1>0, FetchIs DEF TypeOK, IsFetch
  <2>. QED
    BY <1>0, <2>1, <1>1 DEF Send, TypeOK
<1>2. ASSUME NEW r \in Requests, Finish(r)
      PROVE  TypeOK'
  BY <1>0, <1>2 DEF Finish, TypeOK, Request
<1>3. ASSUME NEW r \in Requests, BeginRefresh(r)
      PROVE  TypeOK'
  <2>1. jar # 0 => home[jar] \in 1..issued
    BY <1>0, Fields DEF IInv, KnownTokens, TypeOK
  <2>. QED
    BY <1>0, <1>3, <2>1 DEF BeginRefresh, Excuse, PresentsWithBoot, TypeOK, Request, Steps
<1>4. ASSUME NEW r \in Requests, Subscribe(r)
      PROVE  TypeOK'
  BY <1>0, <1>4 DEF Subscribe, TypeOK, Request, Steps
<1>5. ASSUME NEW r \in Requests, Renewed(r)
      PROVE  TypeOK'
  <2>1. \A q \in Callers : Fetch(req[q].kind, TRUE, TRUE, req[r].got) \in Request
    BY <1>0, FetchIs DEF Request, IsFetch
  <2>. QED
    BY <1>0, <2>1, <1>5 DEF Renewed, TypeOK, Request
<1>6. ASSUME NEW r \in Requests, Expired(r)
      PROVE  TypeOK'
  BY <1>0, <1>6 DEF Expired, Cleared, TypeOK
<1>7. CASE Booted
  BY <1>0, <1>7 DEF Booted, Cleared, TypeOK, Request
<1>8. ASSUME NEW r \in Callers, Refuse(r)
      PROVE  TypeOK'
  <2>1. \E a \in {"failed", "refused"} : Changed(r, a, req[r].kind, 0)
    BY <1>0, <1>8, AnswerIs DEF Refuse, Steps, Untouched
  <2>2. Untouched /\ req[r].pc # "waiting"
    BY <1>8 DEF Refuse, Untouched
  <2>3. issued' \in Pair /\ home' \in [1..issued' -> 1..issued']
    BY <1>0, <1>8 DEF Refuse, TypeOK
  <2>4. good' \subseteq 1..issued'
        /\ alarm' \cup excused' \subseteq 1..issued'
    BY <1>0, <1>f, <1>8 DEF Refuse, TypeOK
  <2>. QED
    BY <1>0, <2>1, <2>2, <2>3, <2>4, TypeAnswer
<1>9. ASSUME NEW r \in Callers, AcceptCall(r)
      PROVE  TypeOK'
  <2>1. Changed(r, "ok", req[r].kind, 0)
    BY <1>0, <1>9, AnswerIs DEF AcceptCall, Steps, Untouched
  <2>2. Untouched /\ req[r].pc # "waiting"
    BY <1>9 DEF AcceptCall, Untouched
  <2>3. issued' \in Pair /\ home' \in [1..issued' -> 1..issued']
    BY <1>0, <1>9 DEF AcceptCall, TypeOK
  <2>4. good' \subseteq 1..issued'
        /\ alarm' \cup excused' \subseteq 1..issued'
    BY <1>0, <1>f, <1>9 DEF AcceptCall, TypeOK
  <2>. QED
    BY <1>0, <2>1, <2>2, <2>3, <2>4, TypeAnswer
<1>10. ASSUME NEW r \in Callers, NoCookie(r)
      PROVE  TypeOK'
  <2>1. Changed(r, "denied", req[r].kind, 0)
    BY <1>0, <1>10, AnswerIs DEF NoCookie, Steps, Untouched
  <2>2. Untouched /\ req[r].pc # "waiting"
    BY <1>10 DEF NoCookie, Untouched
  <2>3. issued' \in Pair /\ home' \in [1..issued' -> 1..issued']
    BY <1>0, <1>10 DEF NoCookie, TypeOK
  <2>4. good' \subseteq 1..issued'
        /\ alarm' \cup excused' \subseteq 1..issued'
    BY <1>0, <1>f, <1>10 DEF NoCookie, TypeOK
  <2>. QED
    BY <1>0, <2>1, <2>2, <2>3, <2>4, TypeAnswer
<1>11. ASSUME NEW r \in Callers, Reused(r)
      PROVE  TypeOK'
  <2>1. Changed(r, "denied", req[r].kind, 0)
    BY <1>0, <1>11, AnswerIs DEF Reused, Steps
  <2>2. Untouched /\ req[r].pc # "waiting"
    BY <1>11 DEF Reused, Untouched
  <2>3. issued' \in Pair /\ home' \in [1..issued' -> 1..issued']
    BY <1>0, <1>11 DEF Reused, TypeOK
  <2>4. good' \subseteq 1..issued'
        /\ alarm' \cup excused' \subseteq 1..issued'
    BY <1>0, <1>f, <1>11 DEF Reused, TypeOK
  <2>. QED
    BY <1>0, <2>1, <2>2, <2>3, <2>4, TypeAnswer
<1>12. ASSUME NEW r \in Callers, AcceptLogout(r)
      PROVE  TypeOK'
  <2>1. Changed(r, "ok", req[r].kind, 0)
    BY <1>0, <1>12, AnswerIs DEF AcceptLogout, Steps
  <2>2. Untouched /\ req[r].pc # "waiting"
    BY <1>12 DEF AcceptLogout, Untouched
  <2>3. issued' \in Pair /\ home' \in [1..issued' -> 1..issued']
    BY <1>0, <1>12 DEF AcceptLogout, TypeOK
  <2>4. good' \subseteq 1..issued'
        /\ alarm' \cup excused' \subseteq 1..issued'
    <3>1. {home[n] : n \in {req[r].cookie} \ {0}} \subseteq 1..issued
      BY <1>0, <1>f DEF TypeOK
    <3>2. /\ good' = good \ {req[r].cookie}
          /\ excused' = excused \cup {home[n] : n \in {req[r].cookie} \ {0}}
      BY <1>12 DEF AcceptLogout
    <3>3. UNCHANGED <<issued, alarm>>
      BY <1>12 DEF AcceptLogout
    <3>. QED
      BY <1>0, <3>1, <3>2, <3>3 DEF TypeOK
  <2>. QED
    BY <1>0, <2>1, <2>2, <2>3, <2>4, TypeAnswer
<1>13. ASSUME NEW r \in Callers, Lose(r)
      PROVE  TypeOK'
  <2>1. \E a \in {"failed", "broken"} : Changed(r, a, req[r].kind, 0)
    BY <1>0, <1>13, AnswerIs DEF Lose, Steps
  <2>2. Untouched /\ req[r].pc # "waiting"
    BY <1>13 DEF Lose, Untouched
  <2>3. issued' \in Pair /\ home' \in [1..issued' -> 1..issued']
    BY <1>0, <1>13 DEF Lose, TypeOK
  <2>4. good' \subseteq 1..issued'
        /\ alarm' \cup excused' \subseteq 1..issued'
    BY <1>0, <1>f, <1>13 DEF Lose, TypeOK
  <2>. QED
    BY <1>0, <2>1, <2>2, <2>3, <2>4, TypeAnswer
<1>14. ASSUME NEW r \in Callers, SignIn(r)
      PROVE  TypeOK'
  <2>0. Issued(issued + 1)
    <3>1. issued + 1 \in 1..(issued + 1)
      BY <1>0
    <3>2. NewPair(issued + 1)
      BY <1>14 DEF SignIn
    <3>. QED
      BY <1>0, <3>1, <3>2, IssuedIs
  <2>1. Changed(r, "ok", req[r].kind, issued + 1)
    BY <1>0, <2>0, <1>14, AnswerIs DEF SignIn, Steps, Issued
  <2>2. Untouched /\ req[r].pc # "waiting"
    BY <1>14 DEF SignIn, Untouched
  <2>3. issued' \in Pair /\ home' \in [1..issued' -> 1..issued']
    BY <1>0, <2>0, <1>14 DEF SignIn, TypeOK, Issued
  <2>4. good' \subseteq 1..issued'
        /\ alarm' \cup excused' \subseteq 1..issued'
    BY <1>0, <1>f, <2>0, <1>14 DEF SignIn, TypeOK, Issued
  <2>. QED
    BY <1>0, <2>1, <2>2, <2>3, <2>4, TypeAnswer
<1>15. ASSUME NEW r \in Callers, Rotate(r)
      PROVE  TypeOK'
  <2>0. Issued(home[req[r].cookie])
    <3>1. home[req[r].cookie] \in 1..(issued + 1)
      <4>1. req[r].cookie \in 1..issued
        BY <1>0, <1>15 DEF Rotate, TypeOK
      <4>2. home[req[r].cookie] \in 1..issued
        BY <1>0, <4>1 DEF TypeOK
      <4>. QED
        BY <1>0, <4>2
    <3>2. NewPair(home[req[r].cookie])
      BY <1>15 DEF Rotate
    <3>. QED
      BY <1>0, <3>1, <3>2, IssuedIs
  <2>1. Changed(r, "renewed", req[r].kind, issued + 1)
    BY <1>0, <2>0, <1>15, AnswerIs DEF Rotate, Steps, Issued
  <2>2. Untouched /\ req[r].pc # "waiting"
    BY <1>15 DEF Rotate, Untouched
  <2>3. issued' \in Pair /\ home' \in [1..issued' -> 1..issued']
    BY <1>0, <2>0, <1>15 DEF Rotate, TypeOK, Issued
  <2>4. good' \subseteq 1..issued'
        /\ alarm' \cup excused' \subseteq 1..issued'
    <3>1. /\ issued' = issued + 1
          /\ good' = (good \ {req[r].cookie}) \cup {issued + 1}
          /\ UNCHANGED <<alarm, excused>>
      BY <1>15, <2>0 DEF Rotate, Issued
    <3>2. 1..issued \subseteq 1..issued'
      BY <1>0, <3>1
    <3>3. good' \subseteq 1..issued'
      <4>1. good \subseteq 1..issued
        BY <1>0 DEF TypeOK
      <4>2. issued + 1 \in 1..issued'
        BY <1>0, <3>1
      <4>. QED
        BY <3>1, <3>2, <4>1, <4>2
    <3>4. alarm \cup excused \subseteq 1..issued
      BY <1>0 DEF TypeOK
    <3>. QED
      BY <3>1, <3>2, <3>3, <3>4
  <2>. QED
    BY <1>0, <2>1, <2>2, <2>3, <2>4, TypeAnswer
<1>16. CASE UNCHANGED vars
  BY <1>0, <1>16 DEF vars, TypeOK
<1>. QED
  BY <1>1, <1>2, <1>3, <1>4, <1>5, <1>6, <1>7, <1>8, <1>9, <1>10, <1>11, <1>12, <1>13, <1>14, <1>15, <1>16 DEF Next, Answered, Handled

(* A login's pair spoils no token, and a rotation only the one presented,  *)
(* which no one else will present.                                         *)
LEMMA StillFit ==
  ASSUME IInv, NEW r \in Callers, NEW first, Issued(first), Untouched,
         NEW a \in {"ok", "renewed"}, Changed(r, a, req[r].kind, issued + 1),
         req[r].pc \in {"sent", "refreshing"}, issued + 1 \in good',
         NEW c \in 0..issued, c = 0 \/ (req[r].pc = "refreshing" /\ c = req[r].cookie),
         \A n \in 0..issued : Fit(n) /\ n # c => Fit(n)',
         c # 0 => a = "renewed" /\ first = home[c],
         \A n \in 0..issued : n = c /\ n # 0 /\ home[n] \in excused => Fit(n)'
  PROVE  CarriedFit' /\ CookieFit'
<1>. USE ClientAssumption DEF Callers, Changed, Untouched
<1>0. /\ TypeOK /\ KnownTokens /\ KindInv /\ Gathered
      /\ AnswersApart /\ CarriedFit /\ CookieFit /\ TogetherExcused
  BY DEF IInv
<1>1. /\ jar \in 0..issued /\ issued \in Nat
      /\ \A q \in Callers : req[q].got \in 0..issued /\ req[q].cookie \in 0..issued
  BY <1>0, Fields DEF KnownTokens
<1>2. Fit(issued)' /\ Fit(0)'
  BY DEF Fit, Issued
<1>3. \A q \in Callers \ {r} :
        /\ Carries(q)' => Carries(q) /\ req'[q].got = req[q].got
        /\ req'[q] = req[q]
  BY <1>0 DEF Carries
<1>4. \A q \in Callers \ {r} :
        req[q].pc = "refreshing" /\ req[q].cookie = c /\ c # 0 => home[c] \in excused
  BY <1>0 DEF Gathered, Working, TogetherExcused
<1>5. CarriedFit'
  <2>. SUFFICES ASSUME NEW q \in Callers
                PROVE  /\ Carries(q)' => Fit(req[q].got)'
                       /\ req'[q].pc = "refreshing" => Fit(req[q].cookie)'
                       /\ req'[q].pc = "renewed" => req'[q].got # 0
    BY DEF CarriedFit
  <2>1. CASE q = r
    BY <1>1, <1>2, <2>1 DEF Issued
  <2>2. CASE q # r
    <3>1. Carries(q) => req[q].got # c
      BY <1>0, <1>1, <2>2 DEF AnswersApart, Carries
    <3>. QED
      BY <1>0, <1>1, <1>2, <1>3, <1>4, <2>2, <3>1 DEF CarriedFit
  <2>. QED
    BY <2>1, <2>2
<1>6. CookieFit'
  <2>1. CASE jar = 0 \/ (Fit(jar) /\ jar # c)
    BY <1>1, <1>2, <2>1 DEF CookieFit
  <2>2. CASE jar # 0 /\ jar = c
    <3>1. req'[r].pc = "renewed" /\ home'[req'[r].got] = home'[jar']
      BY <1>1, <2>2 DEF Issued
    <3>. QED
      BY <3>1 DEF CookieFit
  <2>3. CASE jar # 0 /\ ~Fit(jar)
    <3>1. PICK q \in Callers : req[q].pc = "renewed" /\ home[req[q].got] = home[jar]
      BY <1>0, <2>3 DEF CookieFit
    <3>2. req'[q] = req[q] /\ req[q].got \in 1..issued /\ jar \in 1..issued
      BY <1>0, <1>1, <2>3, <3>1 DEF CarriedFit
    <3>3. home'[req'[q].got] = home'[jar']
      BY <3>1, <3>2 DEF Issued
    <3>. QED
      BY <3>1, <3>2, <3>3 DEF CookieFit
  <2>. QED
    BY <2>1, <2>2, <2>3
<1>. QED
  BY <1>5, <1>6

(* The server's actions, and the connection's.                             *)
LEMMA AnswerStep ==
  ASSUME IInv, TypeOK', NEW r \in Callers, Answered(r)
  PROVE  IInv'
<1>. USE ClientAssumption DEF server, page, Callers, Untouched
<1>0. /\ TypeOK /\ KnownTokens /\ KindInv /\ Gathered
      /\ AnswersApart /\ CarriedFit /\ CookieFit /\ TogetherExcused /\ NoSelfReuse
      /\ req \in [Callers -> Request] /\ 0 \in Pair
  BY Rest DEF IInv, TypeOK
<1>1. CASE AcceptCall(r)
  <2>1. /\ req[r].pc = "sent" /\ req[r].kind = "call" /\ Untouched
        /\ UNCHANGED <<issued, home, good, alarm, excused>>
    BY <1>1 DEF AcceptCall
  <2>2. PICK a \in {"ok"} : Changed(r, a, req[r].kind, 0)
    BY <1>0, <1>1, AnswerIs DEF AcceptCall, Steps
  <2>3. Fits(r, a) /\ Kept
    BY <1>0, <2>1, <2>2 DEF Fits, Working, KindInv, Kept, Fit
  <2>4. KnownTokens' /\ KindInv' /\ Gathered' /\ AnswersApart' /\ TogetherExcused'
    BY <2>1, <2>2, <2>3, EmptyAnswer
  <2>5. CarriedFit' /\ CookieFit'
    BY <2>1, <2>2, <2>3, EmptyAnswerFit
  <2>6. NoSelfReuse'
    BY <1>0, <2>1 DEF NoSelfReuse
  <2>. QED
    BY <2>4, <2>5, <2>6 DEF IInv
<1>8. CASE Refuse(r)
  <2>1. req[r].pc = "sent" /\ Untouched /\ UNCHANGED <<issued, home, good, alarm, excused>>
    BY <1>8 DEF Refuse
  <2>2. PICK a \in {"failed", "refused"} :
          Changed(r, a, req[r].kind, 0) /\ (a = "refused" => req[r].kind # "login")
    BY <1>0, <1>8, AnswerIs DEF Refuse, Steps
  <2>3. Fits(r, a) /\ Kept
    BY <1>0, <2>1, <2>2 DEF Fits, Working, KindInv, Kept, Fit
  <2>4. KnownTokens' /\ KindInv' /\ Gathered' /\ AnswersApart' /\ TogetherExcused'
    BY <2>1, <2>2, <2>3, EmptyAnswer
  <2>5. CarriedFit' /\ CookieFit'
    BY <2>1, <2>2, <2>3, EmptyAnswerFit
  <2>6. NoSelfReuse'
    BY <1>0, <2>1 DEF NoSelfReuse
  <2>. QED
    BY <2>4, <2>5, <2>6 DEF IInv
<1>2. CASE SignIn(r)
  <2>1. /\ req[r].pc = "sent" /\ req[r].kind \in SignIns /\ Untouched
        /\ good' = good \cup {issued + 1} /\ UNCHANGED <<alarm, excused>>
    BY <1>2 DEF SignIn
  <2>2. Issued(issued + 1)
    BY <1>0, <1>2, IssuedIs, Fields DEF SignIn
  <2>3. Changed(r, "ok", req[r].kind, issued + 1)
    BY <1>0, <1>2, <2>2, AnswerIs DEF SignIn, Steps, Issued
  <2>4. r # Boot
    BY <1>0, <2>1 DEF KindInv
  <2>5. KnownTokens' /\ KindInv' /\ Gathered' /\ AnswersApart' /\ TogetherExcused'
    BY <2>1, <2>2, <2>3, <2>4, FullAnswer
  <2>6. Kept
    BY <1>0, <2>1, <2>2, Fields DEF Kept, Fit, Issued
  <2>7. CarriedFit' /\ CookieFit'
    BY <1>0, <2>1, <2>2, <2>3, <2>6, Fields, StillFit DEF Kept
  <2>8. NoSelfReuse'
    BY <1>0, <2>1 DEF NoSelfReuse
  <2>. QED
    BY <2>5, <2>7, <2>8 DEF IInv
<1>3. CASE AcceptLogout(r)
  <2>1. /\ req[r].pc = "sent" /\ req[r].kind = "logout" /\ Untouched
        /\ UNCHANGED <<issued, home, alarm>>
    BY <1>3 DEF AcceptLogout
  <2>2. PICK a \in {"ok"} : Changed(r, a, req[r].kind, 0)
    BY <1>0, <1>3, AnswerIs DEF AcceptLogout, Steps
  <2>3. /\ good' = good \ {req[r].cookie}
        /\ excused' = excused \cup {home[n] : n \in {req[r].cookie} \ {0}}
    BY <1>3 DEF AcceptLogout
  <2>4. Fits(r, a) /\ Kept
    BY <1>0, <2>1, <2>2, <2>3 DEF Fits, Working, KindInv, Kept, Fit
  <2>5. KnownTokens' /\ KindInv' /\ Gathered' /\ AnswersApart' /\ TogetherExcused'
    BY <2>1, <2>2, <2>3, <2>4, EmptyAnswer
  <2>6. CarriedFit' /\ CookieFit'
    BY <2>1, <2>2, <2>4, EmptyAnswerFit
  <2>7. NoSelfReuse'
    BY <1>0, <2>1, <2>3 DEF NoSelfReuse
  <2>. QED
    BY <2>5, <2>6, <2>7 DEF IInv
<1>4. CASE Rotate(r)
  <2>. DEFINE c == req[r].cookie
  <2>1. /\ req[r].pc = "refreshing" /\ c \in good /\ Untouched
        /\ good' = (good \ {c}) \cup {issued + 1} /\ UNCHANGED <<alarm, excused>>
    BY <1>4 DEF Rotate
  <2>2. c \in 1..issued /\ home[c] \in 1..issued
    BY <1>0, <2>1 DEF TypeOK
  <2>3. Issued(home[c])
    BY <1>0, <1>4, <2>2, IssuedIs, Fields DEF Rotate
  <2>4. Changed(r, "renewed", req[r].kind, issued + 1)
    BY <1>0, <1>4, <2>3, AnswerIs DEF Rotate, Steps, Issued
  <2>6. KnownTokens' /\ KindInv' /\ Gathered' /\ AnswersApart' /\ TogetherExcused'
    BY <2>1, <2>3, <2>4, FullAnswer
  <2>7. CarriedFit' /\ CookieFit'
    <3>1. c \in 0..issued /\ issued + 1 \in good'
      BY <2>1, <2>2
    <3>2. \A n \in 0..issued : Fit(n) /\ n # c => Fit(n)'
      BY <1>0, <2>1, <2>3, Fields DEF Fit, Issued
    <3>3. \A n \in 0..issued : n = c /\ n # 0 /\ home[n] \in excused => Fit(n)'
      <4>. SUFFICES ASSUME NEW n \in 0..issued, n = c, n # 0, home[n] \in excused
                    PROVE  Fit(n)'
        OBVIOUS
      <4>1. home'[n] = home[n] /\ excused' = excused
        BY <2>1, <2>2, <2>3 DEF Issued
      <4>. QED
        BY <4>1 DEF Fit
    <3>. QED
      BY <2>1, <2>3, <2>4, <3>1, <3>2, <3>3, StillFit
  <2>8. NoSelfReuse'
    BY <1>0, <2>1 DEF NoSelfReuse
  <2>. QED
    BY <2>6, <2>7, <2>8 DEF IInv
<1>5. CASE Reused(r)
  <2>. DEFINE c == req[r].cookie
  <2>1. /\ req[r].pc = "refreshing" /\ c \in 1..issued \ good /\ Untouched
        /\ good' = {g \in good : home[g] # home[c]}
        /\ alarm' = alarm \cup {home[c]} /\ UNCHANGED <<issued, home, excused>>
    BY <1>5 DEF Reused
  <2>2. Changed(r, "denied", req[r].kind, 0)
    BY <1>0, <1>5, AnswerIs DEF Reused, Steps
  <2>3. home[c] \in excused
    BY <1>0, <2>1 DEF CarriedFit, Fit
  <2>4. Fits(r, "denied") /\ Kept
    BY <1>0, <2>1, <2>2, <2>3 DEF Fits, Working, KindInv, Kept, Fit
  <2>5. KnownTokens' /\ KindInv' /\ Gathered' /\ AnswersApart' /\ TogetherExcused'
    BY <2>1, <2>2, <2>4, EmptyAnswer
  <2>6. CarriedFit' /\ CookieFit'
    BY <2>1, <2>2, <2>4, EmptyAnswerFit
  <2>7. NoSelfReuse'
    BY <1>0, <2>1, <2>3 DEF NoSelfReuse
  <2>. QED
    BY <2>5, <2>6, <2>7 DEF IInv
<1>6. CASE NoCookie(r)
  <2>1. /\ req[r].pc = "refreshing" /\ Untouched
        /\ UNCHANGED <<issued, home, good, alarm, excused>>
    BY <1>6 DEF NoCookie
  <2>2. Changed(r, "denied", req[r].kind, 0)
    BY <1>0, <1>6, AnswerIs DEF NoCookie, Steps
  <2>3. Fits(r, "denied") /\ Kept
    BY <1>0, <2>1, <2>2 DEF Fits, Working, KindInv, Kept, Fit
  <2>4. KnownTokens' /\ KindInv' /\ Gathered' /\ AnswersApart' /\ TogetherExcused'
    BY <2>1, <2>2, <2>3, EmptyAnswer
  <2>5. CarriedFit' /\ CookieFit'
    BY <2>1, <2>2, <2>3, EmptyAnswerFit
  <2>6. NoSelfReuse'
    BY <1>0, <2>1 DEF NoSelfReuse
  <2>. QED
    BY <2>4, <2>5, <2>6 DEF IInv
<1>7. CASE Lose(r)
  <2>1. /\ Untouched /\ UNCHANGED <<issued, home, good, alarm>>
        /\ excused' = excused \cup {home[n] : n \in {req[r].got} \ {0}}
    BY <1>7 DEF Lose
  <2>2. PICK a \in {"failed", "broken"} :
          /\ Changed(r, a, req[r].kind, 0)
          /\ a = "failed" => req[r].pc \in {"sent", "ok", "refused"}
          /\ a = "broken" => req[r].pc \in {"refreshing", "renewed", "denied"}
    <3>. DEFINE b == IF req[r].pc \in {"sent", "ok", "refused"} THEN "failed" ELSE "broken"
    <3>1. Changed(r, b, req[r].kind, 0)
      BY <1>0, <1>7, AnswerIs DEF Lose, Steps
    <3>. QED
      BY <1>7, <3>1 DEF Lose
  <2>3. Fits(r, a) /\ Kept
    BY <1>0, <2>1, <2>2 DEF Fits, Working, KindInv, Kept, Fit
  <2>4. req[r].pc = "renewed" => home[req[r].got] \in excused'
    BY <1>0, <2>1 DEF CarriedFit
  <2>5. KnownTokens' /\ KindInv' /\ Gathered' /\ AnswersApart' /\ TogetherExcused'
    BY <2>1, <2>2, <2>3, EmptyAnswer
  <2>6. CarriedFit' /\ CookieFit'
    BY <2>1, <2>2, <2>3, <2>4, EmptyAnswerFit
  <2>7. NoSelfReuse'
    BY <1>0, <2>1 DEF NoSelfReuse
  <2>. QED
    BY <2>5, <2>6, <2>7 DEF IInv
<1>. QED
  BY <1>1, <1>2, <1>3, <1>4, <1>5, <1>6, <1>7, <1>8 DEF Answered

(* The page's callbacks.                                                   *)
LEMMA PageStep ==
  ASSUME IInv, TypeOK', NEW r \in Requests,
         (\E k \in Kinds \ {"boot"} : Send(r, k)) \/ Handled(r)
  PROVE  IInv'
<1>. USE ClientAssumption, Rest DEF server, page, Callers
<1>0. /\ TypeOK /\ KnownTokens /\ KindInv /\ Gathered
      /\ AnswersApart /\ CarriedFit /\ CookieFit /\ TogetherExcused /\ NoSelfReuse
      /\ req \in [Callers -> Request]
  BY DEF IInv, TypeOK
<1>f. /\ jar \in Nat /\ issued \in Nat
      /\ \A q \in Callers : req[q].got \in Nat /\ req[q].cookie \in Nat
  BY <1>0, Fields
<1>1. ASSUME NEW k \in Kinds \ {"boot"}, Send(r, k)
      PROVE  IInv'
  <2>1. /\ Changed(r, "sent", k, 0) /\ Untouched
        /\ req[r].pc = "idle"
        /\ UNCHANGED <<issued, home, good, alarm, excused>>
    <3>. DEFINE sent == Fetch(k, FALSE, token, jar)
    <3>1. IsFetch(sent, k, jar)
      BY <1>0, FetchIs DEF TypeOK
    <3>2. req' = [req EXCEPT ![r] = sent]
      BY <1>1 DEF Send
    <3>3. Changed(r, "sent", k, 0)
      BY <1>0, <3>1, <3>2 DEF Changed, IsFetch
    <3>. QED
      BY <1>1, <3>3 DEF Send, Untouched
  <2>2. KnownTokens'
    BY <1>0, <1>f, <2>1 DEF Changed, Untouched, KnownTokens
  <2>3. KindInv'
    BY <1>0, <1>f, <2>1 DEF Changed, Untouched, KindInv, Gathered
  <2>4. Gathered'
    BY <1>0, <1>f, <2>1 DEF Changed, Untouched, Gathered, Working, KindInv
  <2>5. AnswersApart'
    BY <1>0, <1>f, <2>1 DEF Changed, Untouched, AnswersApart, Carries, KnownTokens
  <2>6. CarriedFit'
    BY <1>0, <1>f, <2>1 DEF Changed, Untouched, CarriedFit, CookieFit, Carries, Fit, Gathered, Working, KindInv, TogetherExcused, AnswersApart
  <2>7. CookieFit'
    BY <1>0, <1>f, <2>1 DEF Changed, Untouched, CookieFit, CarriedFit, Fit, Gathered, Working, Carries, KindInv, TogetherExcused
  <2>8. TogetherExcused'
    BY <1>0, <1>f, <2>1 DEF Changed, Untouched, TogetherExcused, Carries, KindInv, Gathered, Working
  <2>9. NoSelfReuse'
    BY <1>0, <1>f, <2>1 DEF Changed, Untouched, NoSelfReuse
  <2>. QED
    BY <2>2, <2>3, <2>4, <2>5, <2>6, <2>7, <2>8, <2>9 DEF IInv
<1>2. CASE Finish(r)
  <2>2. KnownTokens'
    BY <1>0, <1>f, <1>2 DEF Finish, KnownTokens
  <2>3. KindInv'
    BY <1>0, <1>f, <1>2 DEF Finish, KindInv, Gathered
  <2>4. Gathered'
    BY <1>0, <1>f, <1>2 DEF Finish, Gathered, Working, KindInv
  <2>5. AnswersApart'
    BY <1>0, <1>f, <1>2 DEF Finish, AnswersApart, Carries, KnownTokens
  <2>6. CarriedFit'
    BY <1>0, <1>f, <1>2 DEF Finish, CarriedFit, CookieFit, Carries, Fit, Gathered, Working, KindInv, TogetherExcused, AnswersApart
  <2>7. CookieFit'
    BY <1>0, <1>f, <1>2 DEF Finish, CookieFit, CarriedFit, Fit, Gathered, Working, Carries, KindInv, TogetherExcused
  <2>8. TogetherExcused'
    BY <1>0, <1>f, <1>2 DEF Finish, TogetherExcused, Carries, KindInv, Gathered, Working
  <2>9. NoSelfReuse'
    BY <1>0, <1>f, <1>2 DEF Finish, NoSelfReuse
  <2>. QED
    BY <2>2, <2>3, <2>4, <2>5, <2>6, <2>7, <2>8, <2>9 DEF IInv
<1>3. CASE BeginRefresh(r)
  <2>2. KnownTokens'
    BY <1>0, <1>f, <1>3 DEF BeginRefresh, KnownTokens
  <2>3. KindInv'
    BY <1>0, <1>f, <1>3 DEF BeginRefresh, KindInv, Gathered
  <2>4. Gathered'
    BY <1>0, <1>f, <1>3 DEF BeginRefresh, Gathered, Working, KindInv
  <2>5. AnswersApart'
    BY <1>0, <1>f, <1>3 DEF BeginRefresh, AnswersApart, Carries, KnownTokens
  <2>1. \A q \in Requests : ~Working(q)
    BY <1>0, <1>3 DEF BeginRefresh, Gathered
  <2>a. /\ UNCHANGED <<jar, home, good, alarm>> /\ excused \subseteq excused'
        /\ PresentsWithBoot => home[jar] \in excused'
    BY <1>3 DEF BeginRefresh, Excuse
  <2>b. /\ \A q \in Callers \ {r} : req'[q] = req[q]
        /\ req'[r].pc = "refreshing" /\ req'[r].cookie = jar
    BY <1>0, <1>3 DEF BeginRefresh
  <2>c. Fit(jar)'
    <3>1. CASE Fit(jar)
      BY <2>a, <3>1 DEF Fit
    <3>2. CASE ~Fit(jar)
      <4>1. req[Boot].pc = "renewed" /\ home[req[Boot].got] = home[jar] /\ jar # 0
        BY <1>0, <2>1, <3>2 DEF CookieFit, Fit, Working
      <4>. QED
        BY <2>a, <4>1 DEF PresentsWithBoot, Fit
    <3>. QED
      BY <3>1, <3>2
  <2>6. CarriedFit'
    BY <1>0, <2>a, <2>b, <2>c DEF CarriedFit, Carries, Fit
  <2>7. CookieFit'
    BY <2>c DEF CookieFit
  <2>8. TogetherExcused'
    <3>. SUFFICES ASSUME NEW q \in Requests,
                         req'[q].pc = "refreshing", req'[Boot].pc = "refreshing",
                         req'[q].cookie = req'[Boot].cookie, req'[q].cookie # 0
                  PROVE  home'[req'[q].cookie] \in excused'
      BY DEF TogetherExcused
    <3>1. q = r
      BY <2>1, <2>b DEF Working
    <3>2. PresentsWithBoot
      BY <2>b, <3>1 DEF PresentsWithBoot
    <3>. QED
      BY <2>a, <2>b, <3>1, <3>2
  <2>9. NoSelfReuse'
    BY <1>0, <2>a DEF NoSelfReuse
  <2>. QED
    BY <2>2, <2>3, <2>4, <2>5, <2>6, <2>7, <2>8, <2>9 DEF IInv
<1>4. CASE Subscribe(r)
  <2>2. KnownTokens'
    BY <1>0, <1>f, <1>4 DEF Subscribe, KnownTokens
  <2>3. KindInv'
    BY <1>0, <1>f, <1>4 DEF Subscribe, KindInv, Gathered
  <2>4. Gathered'
    BY <1>0, <1>f, <1>4 DEF Subscribe, Gathered, Working, KindInv
  <2>5. AnswersApart'
    BY <1>0, <1>f, <1>4 DEF Subscribe, AnswersApart, Carries, KnownTokens
  <2>6. CarriedFit'
    BY <1>0, <1>f, <1>4 DEF Subscribe, CarriedFit, CookieFit, Carries, Fit, Gathered, Working, KindInv, TogetherExcused, AnswersApart
  <2>7. CookieFit'
    BY <1>0, <1>f, <1>4 DEF Subscribe, CookieFit, CarriedFit, Fit, Gathered, Working, Carries, KindInv, TogetherExcused
  <2>8. TogetherExcused'
    BY <1>0, <1>f, <1>4 DEF Subscribe, TogetherExcused, Carries, KindInv, Gathered, Working
  <2>9. NoSelfReuse'
    BY <1>0, <1>f, <1>4 DEF Subscribe, NoSelfReuse
  <2>. QED
    BY <2>2, <2>3, <2>4, <2>5, <2>6, <2>7, <2>8, <2>9 DEF IInv
<1>5. CASE Renewed(r)
  <2>1. /\ \A q \in subscribers \cup {r} : /\ req'[q].pc = "sent" /\ req'[q].kind = req[q].kind
                                        /\ req'[q].got = 0 /\ req'[q].cookie \in {0, req[r].got}
        /\ \A q \in Callers \ (subscribers \cup {r}) : req'[q] = req[q]
        /\ req[r].pc = "renewed" /\ r # Boot
        /\ jar' = req[r].got /\ refreshing' = FALSE /\ subscribers' = {}
        /\ UNCHANGED <<user, issued, home, good, alarm, excused>>
    <3>. DEFINE sent(q) == Fetch(req[q].kind, TRUE, TRUE, req[r].got)
    <3>1. ASSUME NEW q \in Callers
          PROVE  IsFetch(sent(q), req[q].kind, req[r].got)
      <4>1. req[q].kind \in Kinds /\ req[r].got \in Pair
        BY <1>0 DEF Request
      <4>. QED
        BY <4>1, FetchIs
    <3>2. req' = [q \in Callers |-> IF q \in subscribers \cup {r} THEN sent(q) ELSE req[q]]
      BY <1>5 DEF Renewed
    <3>3. subscribers \cup {r} \subseteq Callers
      BY <1>0 DEF Gathered
    <3>. QED
      BY <1>5, <3>1, <3>2, <3>3 DEF Renewed, IsFetch
  <2>2. KnownTokens'
    BY <1>0, <1>f, <2>1 DEF KnownTokens
  <2>3. KindInv'
    BY <1>0, <1>f, <2>1 DEF KindInv, Gathered
  <2>4. Gathered'
    BY <1>0, <1>f, <2>1 DEF Gathered, Working, KindInv
  <2>5. AnswersApart'
    BY <1>0, <1>f, <2>1 DEF AnswersApart, Carries, KnownTokens
  <2>6. CarriedFit'
    BY <1>0, <1>f, <2>1 DEF CarriedFit, CookieFit, Carries, Fit, Gathered, Working, KindInv, TogetherExcused, AnswersApart
  <2>7. CookieFit'
    BY <1>0, <1>f, <2>1 DEF CookieFit, CarriedFit, Fit, Gathered, Working, Carries, KindInv, TogetherExcused
  <2>8. TogetherExcused'
    BY <1>0, <1>f, <2>1 DEF TogetherExcused, Carries, KindInv, Gathered, Working
  <2>9. NoSelfReuse'
    BY <1>0, <1>f, <2>1 DEF NoSelfReuse
  <2>. QED
    BY <2>2, <2>3, <2>4, <2>5, <2>6, <2>7, <2>8, <2>9 DEF IInv
<1>6. CASE Expired(r)
  <2>1. /\ \A q \in subscribers \cup {r} : req'[q] = Idle
        /\ \A q \in Callers \ (subscribers \cup {r}) : req'[q] = req[q]
        /\ req[r].pc \in {"denied", "broken"} /\ r # Boot
        /\ jar' \in {0, jar} /\ refreshing' = FALSE /\ subscribers' = {} /\ user' = FALSE
        /\ UNCHANGED <<issued, home, good, alarm, excused>>
    BY <1>0, <1>f, <1>6 DEF Expired, Cleared, Gathered
  <2>2. KnownTokens'
    BY <1>0, <1>f, <2>1 DEF KnownTokens
  <2>3. KindInv'
    BY <1>0, <1>f, <2>1 DEF KindInv, Gathered
  <2>4. Gathered'
    BY <1>0, <1>f, <2>1 DEF Gathered, Working, KindInv
  <2>5. AnswersApart'
    BY <1>0, <1>f, <2>1 DEF AnswersApart, Carries, KnownTokens
  <2>6. CarriedFit'
    BY <1>0, <1>f, <2>1 DEF CarriedFit, CookieFit, Carries, Fit, Gathered, Working, KindInv, TogetherExcused, AnswersApart
  <2>7. CookieFit'
    BY <1>0, <1>f, <2>1 DEF CookieFit, CarriedFit, Fit, Gathered, Working, Carries, KindInv, TogetherExcused
  <2>8. TogetherExcused'
    BY <1>0, <1>f, <2>1 DEF TogetherExcused, Carries, KindInv, Gathered, Working
  <2>9. NoSelfReuse'
    BY <1>0, <1>f, <2>1 DEF NoSelfReuse
  <2>. QED
    BY <2>2, <2>3, <2>4, <2>5, <2>6, <2>7, <2>8, <2>9 DEF IInv
<1>. QED
  BY <1>1, <1>2, <1>3, <1>4, <1>5, <1>6 DEF Handled

(* initAuth takes what its refresh brought, or forgets the user.           *)
LEMMA BootStep ==
  ASSUME IInv, TypeOK', Booted
  PROVE  IInv'
<1>. USE ClientAssumption, Rest DEF server, Callers
<1>0. /\ TypeOK /\ KnownTokens /\ KindInv /\ Gathered
      /\ AnswersApart /\ CarriedFit /\ CookieFit /\ TogetherExcused /\ NoSelfReuse
      /\ req \in [Callers -> Request]
  BY DEF IInv, TypeOK
<1>f. /\ jar \in Nat /\ issued \in Nat
      /\ \A q \in Callers : req[q].got \in Nat /\ req[q].cookie \in Nat
  BY <1>0, Fields
<1>1. /\ req[Boot].pc \in {"renewed", "denied", "broken"} /\ req'[Boot] = Idle
      /\ \A q \in Requests : req'[q] = req[q]
      /\ jar' \in {0, jar} \/ (req[Boot].pc = "renewed" /\ jar' = req[Boot].got)
      /\ req[Boot].pc = "renewed" => jar' = req[Boot].got
      /\ UNCHANGED <<refreshing, subscribers, issued, home, good, alarm, excused>>
  BY <1>0, <1>f DEF Booted, Cleared
<1>2. KnownTokens'
  BY <1>0, <1>f, <1>1 DEF KnownTokens
<1>3. KindInv'
  BY <1>0, <1>f, <1>1 DEF KindInv, Gathered
<1>4. Gathered'
  BY <1>0, <1>f, <1>1 DEF Gathered, Working, KindInv
<1>5. AnswersApart'
  BY <1>0, <1>f, <1>1 DEF AnswersApart, Carries, KnownTokens
<1>6. CarriedFit'
  BY <1>0, <1>f, <1>1 DEF CarriedFit, CookieFit, Carries, Fit, Gathered, Working, KindInv, TogetherExcused, AnswersApart
<1>7. CookieFit'
  BY <1>0, <1>f, <1>1 DEF CookieFit, CarriedFit, Fit, Gathered, Working, Carries, KindInv, TogetherExcused
<1>8. TogetherExcused'
  BY <1>0, <1>f, <1>1 DEF TogetherExcused, Carries, KindInv, Gathered, Working
<1>9. NoSelfReuse'
  BY <1>0, <1>f, <1>1 DEF NoSelfReuse
<1>. QED
  BY <1>2, <1>3, <1>4, <1>5, <1>6, <1>7, <1>8, <1>9 DEF IInv

------------------------------------------------------------------------------
(* The page opens with the session of before, or signed out of it.         *)
LEMMA IInvInit == Init => IInv
<1>. SUFFICES ASSUME Init
              PROVE  IInv
  OBVIOUS
<1>. USE ClientAssumption
<1>. DEFINE boot == [Idle EXCEPT !.pc = "refreshing", !.kind = "boot", !.cookie = jar]
<1>1. /\ jar \in {0, 1} /\ issued = 1 /\ home = [n \in 1..1 |-> n] /\ good = 1..jar
      /\ token = FALSE /\ user = FALSE /\ refreshing = FALSE /\ subscribers = {}
      /\ alarm = {} /\ excused = {}
  BY DEF Init
<1>2. jar \in Pair
  BY <1>1 DEF Pair
<1>3. /\ boot \in Request /\ boot.pc = "refreshing" /\ boot.kind = "boot"
      /\ boot.got = 0 /\ boot.cookie = jar
  BY <1>2, Rest DEF Request, Steps, Kinds
<1>. HIDE DEF boot
<1>4. req = [r \in Callers |-> IF r = Boot THEN boot ELSE Idle]
  BY DEF Init, boot
<1>5. /\ Boot \in Callers /\ Requests \subseteq Callers
      /\ \A r \in Callers : r = Boot \/ r \in Requests
  BY DEF Callers
<1>6. /\ req \in [Callers -> Request] /\ req[Boot] = boot
      /\ \A r \in Requests : req[r] = Idle
  BY <1>3, <1>4, <1>5, Rest
<1>7. /\ req[Boot].pc = "refreshing" /\ req[Boot].cookie = jar
      /\ \A r \in Requests : req[r].pc = "idle" /\ req[r].cookie = 0
      /\ \A r \in Callers : req[r].got = 0 /\ req[r].cookie \in {0, jar}
  BY <1>3, <1>5, <1>6, Rest
<1>8. TypeOK
  <2>1. jar \in Pair /\ issued \in Pair
    BY <1>1, <1>2 DEF Pair
  <2>2. home \in [1..issued -> 1..issued] /\ good \subseteq 1..issued
    BY <1>1
  <2>3. subscribers \subseteq {r \in Requests : req[r].pc = "waiting"}
    BY <1>1
  <2>4. alarm \cup excused \subseteq 1..issued
    BY <1>1
  <2>5. token \in BOOLEAN /\ refreshing \in BOOLEAN /\ user \in BOOLEAN
    BY <1>1
  <2>. QED
    BY <1>6, <2>1, <2>2, <2>3, <2>4, <2>5 DEF TypeOK
<1>9. KnownTokens
  BY <1>1, <1>7 DEF KnownTokens
<1>10. KindInv /\ Gathered
  BY <1>1, <1>7 DEF KindInv, Gathered, Working
<1>11. AnswersApart
  BY <1>7 DEF AnswersApart, Carries
<1>12. CarriedFit
  BY <1>1, <1>5, <1>7 DEF CarriedFit, Carries, Fit
<1>13. CookieFit /\ NoSelfReuse
  BY <1>1 DEF CookieFit, Fit, NoSelfReuse
<1>14. TogetherExcused
  BY <1>7 DEF TogetherExcused
<1>. QED
  BY <1>8, <1>9, <1>10, <1>11, <1>12, <1>13, <1>14 DEF IInv

(* Every step keeps the invariant.                                         *)
LEMMA IInvStep ==
  ASSUME IInv, [Next]_vars
  PROVE  IInv'
<1>1. TypeOK'
  BY TypeStep
<1>2. ASSUME NEW r \in Requests, (\E k \in Kinds \ {"boot"} : Send(r, k)) \/ Handled(r)
      PROVE  IInv'
  BY <1>1, <1>2, PageStep
<1>3. ASSUME NEW r \in Callers, Answered(r)
      PROVE  IInv'
  BY <1>1, <1>3, AnswerStep
<1>5. CASE Booted
  BY <1>1, <1>5, BootStep
<1>6. CASE UNCHANGED vars
  BY <1>1, <1>6
     DEF vars, page, server, IInv, KnownTokens, KindInv, Gathered, Working, AnswersApart,
         Carries, CarriedFit, Fit, CookieFit, TogetherExcused, NoSelfReuse
<1>. QED
  BY <1>2, <1>3, <1>5, <1>6 DEF Next

(* Hence it holds for good.                                                *)
LEMMA IInvAlways == Spec => []IInv
BY IInvInit, IInvStep, PTL DEF Spec

(***************************************************************************)
(* The page's types, for every number of requests and tokens.              *)
(***************************************************************************)
THEOREM TypeCorrect == Spec => []TypeOK
<1>1. IInv => TypeOK
  BY DEF IInv
<1>. QED
  BY <1>1, IInvAlways, PTL

(***************************************************************************)
(* apiRequest's subscribers (backendApi.js:247): a request that waits for  *)
(* a refresh is in the list that refresh will call, and there is exactly   *)
(* one such refresh.                                                       *)
(***************************************************************************)
THEOREM NobodyIsForgotten == Spec => []NobodyForgotten
<1>1. IInv => NobodyForgotten
  BY DEF IInv, Gathered, Working, NobodyForgotten, AtWork
<1>. QED
  BY <1>1, IInvAlways, PTL

(***************************************************************************)
(* silentRefresh, in apiRequest and in initAuth (AuthContext.jsx:15): the  *)
(* page never presents a refresh token the server has rotated away, unless *)
(* it signed out, lost the answer that brought the next one, or began a    *)
(* refresh with the cookie that initAuth's unanswered refresh carried.     *)
(***************************************************************************)
THEOREM NoReuseOfItsOwn == Spec => []NoSelfReuse
<1>1. IInv => NoSelfReuse
  BY DEF IInv
<1>. QED
  BY <1>1, IInvAlways, PTL
=============================================================================
