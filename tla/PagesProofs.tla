---------------------------- MODULE PagesProofs ----------------------------
(***************************************************************************)
(* Theorems about the pages of MCPages, for every number of requests,      *)
(* jobs, items, places and states.  A page moves by its own steps or not   *)
(* at all, so each has an inductive invariant of its own, and the union of *)
(* these, each for its part, is the invariant of the specification.        *)
(***************************************************************************)
EXTENDS MCPages, FiniteSetTheorems, TLAPS

------------------------------------------------------------------------------
(***************************************************************************)
(* Signing in.  A set of recovery codes is with an answer that brings it;  *)
(* an answer nobody is there to show is of a set that is missed already,   *)
(* and while it is not, the modal that asked for new codes is up.          *)
(***************************************************************************)
BringsCodes == {"verify-setup", "regenerate"}

Requests == [ask : SignIn!Asks \cup {"none"}, host : SignIn!Hosts, right : BOOLEAN,
             purpose : {"login", "setup"}, mounted : BOOLEAN, answer : SignIn!Answers,
             got : 0..MaxCodes, on : BOOLEAN]

Brings(r, n, m, up) ==
  /\ r.got <= n
  /\ r.got # 0 <=> r.ask \in BringsCodes /\ r.answer = "ok"
  /\ r.got # 0 /\ ~r.mounted => r.got \in m
  /\ r.ask = "regenerate" /\ r.mounted => up /\ r.host = "settings"

ModalUp == panel.modal \in {"regenerate", "codes"}

CodesInv ==
  /\ SignIn!TypeOK
  /\ \A c \in Calls : Brings(call[c], made, missed, ModalUp)
  /\ SignIn!CodesReachTheAdmin

(* No request, no codes.                                                   *)
LEMMA SignInInit == SignIn!Init => CodesInv
<1>. SUFFICES ASSUME SignIn!Init PROVE CodesInv
  OBVIOUS
<1>0. MaxCodes \in Nat
  BY PagesAssumption DEF SignIn!SignInAssumption
<1>1. SignIn!Free \in Requests /\ SignIn!Free.got = 0 /\ SignIn!Free.ask = "none"
     /\ SignIn!Free.answer = "none"
  BY <1>0 DEF SignIn!Free, Requests, SignIn!Hosts, SignIn!Answers
<1>2. call \in [Calls -> Requests] /\ \A c \in Calls : call[c] = SignIn!Free
  BY <1>1 DEF SignIn!Init
<1>3. flow \in SignIn!Flow
  BY DEF SignIn!Init, SignIn!NoFlow, SignIn!Flow, SignIn!Modes, SignIn!Hosts, SignIn!Typed
<1>4. panel \in [enabled : BOOLEAN, modal : {"none", "regenerate", "codes", "disable"}]
  BY DEF SignIn!Init
<1>5. SignIn!TypeOK
  <2>1. codes \in 0..made /\ made \in 0..MaxCodes /\ shown \cup missed \subseteq 1..made
    BY <1>0 DEF SignIn!Init
  <2>2. call \in [Calls -> SignIn!Call]
    BY <1>2 DEF SignIn!Call, Requests
  <2>. QED
    BY <1>3, <1>4, <2>1, <2>2 DEF SignIn!Init, SignIn!TypeOK
<1>. QED
  BY <1>0, <1>1, <1>2, <1>5
     DEF SignIn!Init, CodesInv, Brings, BringsCodes, SignIn!CodesReachTheAdmin

(* What is known of the state.                                             *)
LEMMA SignInFacts ==
  ASSUME CodesInv
  PROVE  /\ MaxCodes \in Nat
         /\ admin \in BOOLEAN /\ signing \in BOOLEAN /\ acting \in BOOLEAN
         /\ flow \in SignIn!Flow
         /\ panel \in [enabled : BOOLEAN, modal : {"none", "regenerate", "codes", "disable"}]
         /\ call \in [Calls -> Requests]
         /\ guarded \in BOOLEAN /\ codes \in 0..made /\ made \in 0..MaxCodes
         /\ shown \subseteq 1..made /\ missed \subseteq 1..made
BY PagesAssumption DEF SignIn!SignInAssumption, CodesInv, SignIn!TypeOK, SignIn!Call, Requests

(* No new codes: what is in force is still with what brought it, or has    *)
(* come on the screen, or is missed.                                       *)
LEMMA CallsMove ==
  ASSUME CodesInv,
         admin' \in BOOLEAN, signing' \in BOOLEAN, acting' \in BOOLEAN, flow' \in SignIn!Flow,
         panel' \in [enabled : BOOLEAN, modal : {"none", "regenerate", "codes", "disable"}],
         guarded' \in BOOLEAN, codes' \in {0, codes}, made' = made,
         shown \subseteq shown', shown' \subseteq 1..made,
         missed \subseteq missed', missed' \subseteq 1..made,
         call' \in [Calls -> Requests],
         \A c \in Calls :
           /\ Brings(call'[c], made, missed', ModalUp')
           /\ \/ call[c].got \in {0} \cup shown' \cup missed'
              \/ call'[c].got = call[c].got /\ call'[c].ask = call[c].ask
  PROVE  CodesInv'
<1>0. MaxCodes \in Nat /\ codes \in 0..made /\ made \in 0..MaxCodes
  BY SignInFacts
<1>1. SignIn!TypeOK'
  <2>1. codes' \in 0..made' /\ made' \in 0..MaxCodes
    BY <1>0
  <2>2. shown' \cup missed' \subseteq 1..made'
    OBVIOUS
  <2>3. call' \in [Calls -> SignIn!Call]
    BY DEF SignIn!Call, Requests
  <2>. QED
    BY <2>1, <2>2, <2>3 DEF SignIn!TypeOK
<1>2. SignIn!CodesReachTheAdmin'
  <2>1. ASSUME codes' # 0, codes \notin shown \cup missed
        PROVE  codes' \in shown' \cup missed' \cup SignIn!OnTheirWay(BringsCodes)'
    <3>1. PICK c \in Calls : call[c].ask \in BringsCodes /\ call[c].got = codes /\ codes # 0
      BY <2>1 DEF CodesInv, SignIn!CodesReachTheAdmin, SignIn!OnTheirWay, BringsCodes
    <3>. QED
      BY <2>1, <3>1 DEF SignIn!OnTheirWay
  <2>. QED
    BY <2>1 DEF SignIn!CodesReachTheAdmin, BringsCodes
<1>3. \A c \in Calls : Brings(call[c], made, missed, ModalUp)'
  OBVIOUS
<1>. QED
  BY <1>1, <1>2, <1>3 DEF CodesInv

(* One request moves.                                                      *)
LEMMA CallMoves ==
  ASSUME CodesInv, NEW c \in Calls, NEW r \in Requests, call' = [call EXCEPT ![c] = r],
         admin' \in BOOLEAN, signing' \in BOOLEAN, acting' \in BOOLEAN, flow' \in SignIn!Flow,
         panel' \in [enabled : BOOLEAN, modal : {"none", "regenerate", "codes", "disable"}],
         ModalUp => ModalUp',
         guarded' \in BOOLEAN, codes' \in {0, codes}, made' = made,
         shown \subseteq shown', shown' \subseteq 1..made,
         missed \subseteq missed', missed' \subseteq 1..made,
         Brings(r, made, missed', ModalUp'),
         \/ call[c].got \in {0} \cup shown' \cup missed'
         \/ r.got = call[c].got /\ r.ask = call[c].ask
  PROVE  CodesInv'
<1>1. /\ call' \in [Calls -> Requests] /\ call'[c] = r
      /\ \A d \in Calls \ {c} : call'[d] = call[d]
  BY SignInFacts
<1>2. \A d \in Calls : Brings(call[d], made, missed, ModalUp)
  BY DEF CodesInv
<1>3. \A d \in Calls : Brings(call'[d], made, missed', ModalUp')
  BY <1>1, <1>2 DEF Brings
<1>. QED
  BY <1>1, <1>3, CallsMove

(* A new set: the answer that brings it knows whether anybody is there.    *)
LEMMA NewCodesKeep ==
  ASSUME CodesInv, NEW c \in Calls, SignIn!NewCodes(c), call[c].ask \in BringsCodes,
         UNCHANGED <<admin, flow, signing, panel, acting, shown>>, guarded' \in BOOLEAN
  PROVE  CodesInv'
<1>0. /\ MaxCodes \in Nat /\ made \in 0..MaxCodes /\ codes \in 0..made
      /\ call \in [Calls -> Requests] /\ shown \subseteq 1..made /\ missed \subseteq 1..made
      /\ \A d \in Calls : Brings(call[d], made, missed, ModalUp)
  BY SignInFacts DEF CodesInv
<1>1. /\ made' = made + 1 /\ codes' = made + 1 /\ made' \in 1..MaxCodes
      /\ call' = [call EXCEPT ![c].answer = "ok", ![c].got = made + 1]
      /\ missed' = IF call[c].mounted THEN missed ELSE missed \cup {made + 1}
  BY <1>0 DEF SignIn!NewCodes
<1>. DEFINE r == [call[c] EXCEPT !.answer = "ok", !.got = made + 1]
<1>2. /\ r \in Requests /\ r.got = made + 1 /\ r.answer = "ok" /\ r.ask = call[c].ask
      /\ r.mounted = call[c].mounted /\ r.host = call[c].host
  <2>1. made + 1 \in 0..MaxCodes /\ "ok" \in SignIn!Answers
    BY <1>0, <1>1 DEF SignIn!Answers
  <2>. QED
    BY <1>0, <2>1 DEF Requests
<1>3. call' = [call EXCEPT ![c] = r]
  BY <1>0, <1>1
<1>. HIDE DEF r
<1>4. /\ call' \in [Calls -> Requests] /\ call'[c] = r
      /\ \A d \in Calls \ {c} : call'[d] = call[d]
  BY <1>0, <1>2, <1>3
<1>5. ASSUME NEW d \in Calls PROVE Brings(call'[d], made', missed', ModalUp')
  <2>1. CASE d = c
    BY <1>0, <1>1, <1>2, <1>4, <2>1 DEF Brings, ModalUp, Requests
  <2>2. CASE d # c
    <3>1. call[d].got \in 0..MaxCodes
      BY <1>0 DEF Requests
    <3>. QED
      BY <1>0, <1>1, <1>4, <2>2, <3>1 DEF Brings, ModalUp
  <2>. QED
    BY <2>1, <2>2
<1>6. SignIn!TypeOK'
  <2>1. codes' \in 0..made' /\ made' \in 0..MaxCodes /\ shown' \cup missed' \subseteq 1..made'
    BY <1>0, <1>1
  <2>2. call' \in [Calls -> SignIn!Call]
    BY <1>4 DEF SignIn!Call, Requests
  <2>. QED
    BY <2>1, <2>2, SignInFacts DEF SignIn!TypeOK
<1>7. SignIn!CodesReachTheAdmin'
  BY <1>0, <1>1, <1>2, <1>4 DEF SignIn!CodesReachTheAdmin, SignIn!OnTheirWay, BringsCodes
<1>. QED
  BY <1>5, <1>6, <1>7 DEF CodesInv

(* What is free to be put in the place of a request.                       *)
LEMMA FreeRequests ==
  /\ SignIn!Free \in Requests /\ SignIn!Free.got = 0 /\ SignIn!Free.ask = "none"
  /\ SignIn!Free.answer = "none"
  /\ SignIn!Looking \in Requests /\ SignIn!Looking.got = 0 /\ SignIn!Looking.ask = "status"
<1>1. MaxCodes \in Nat
  BY PagesAssumption DEF SignIn!SignInAssumption
<1>2. SignIn!Free \in Requests /\ SignIn!Free.got = 0 /\ SignIn!Free.ask = "none"
     /\ SignIn!Free.answer = "none"
  BY <1>1 DEF SignIn!Free, Requests, SignIn!Hosts, SignIn!Answers
<1>3. "status" \in SignIn!Asks /\ "settings" \in SignIn!Hosts
  BY DEF SignIn!Asks, SignIn!Hosts
<1>4. SignIn!Looking = [SignIn!Free EXCEPT !.ask = "status", !.host = "settings"]
  BY DEF SignIn!Looking
<1>. QED
  BY <1>2, <1>3, <1>4 DEF Requests

(* No flow.                                                                *)
LEMMA NoFlowIs == SignIn!NoFlow \in SignIn!Flow
BY DEF SignIn!NoFlow, SignIn!Flow, SignIn!Modes, SignIn!Hosts, SignIn!Typed

(* A request that leaves brings nothing yet.                               *)
LEMMA AskKeeps ==
  ASSUME CodesInv, NEW c \in Calls, NEW ask \in SignIn!Asks, NEW host \in SignIn!Hosts,
         NEW right \in BOOLEAN, SignIn!Ask(c, ask, host, right),
         ask = "regenerate" => ModalUp /\ host = "settings",
         admin' \in BOOLEAN, signing' \in BOOLEAN, acting' \in BOOLEAN, flow' \in SignIn!Flow,
         UNCHANGED <<panel, guarded, codes, made, shown, missed>>
  PROVE  CodesInv'
<1>. DEFINE r == [SignIn!Free EXCEPT !.ask = ask, !.host = host, !.right = right,
                                     !.purpose = flow.purpose, !.mounted = TRUE]
<1>1. /\ panel \in [enabled : BOOLEAN, modal : {"none", "regenerate", "codes", "disable"}]
      /\ guarded \in BOOLEAN /\ shown \subseteq 1..made /\ missed \subseteq 1..made
      /\ made \in Nat /\ call \in [Calls -> Requests] /\ flow.purpose \in {"login", "setup"}
  BY SignInFacts DEF SignIn!Flow
<1>2. r \in Requests /\ r.got = 0 /\ r.ask = ask /\ r.host = host /\ r.answer = "none"
  BY <1>1, FreeRequests DEF Requests
<1>3. call' = [call EXCEPT ![c] = r] /\ call[c].got = 0
  BY FreeRequests DEF SignIn!Ask
<1>. HIDE DEF r
<1>4. ModalUp' = ModalUp
  BY DEF ModalUp
<1>5. Brings(r, made, missed', ModalUp')
  BY <1>1, <1>2, <1>4 DEF Brings
<1>. QED
  BY <1>1, <1>2, <1>3, <1>4, <1>5, CallMoves

(* An answer without codes to a request that had none.                     *)
LEMMA AnswerKeeps ==
  ASSUME CodesInv, NEW c \in Calls, NEW a \in SignIn!Answers, SignIn!Answer(c, a, 0),
         a = "ok" => call[c].ask \notin BringsCodes,
         UNCHANGED <<admin, flow, signing, panel, acting, made, shown>>,
         guarded' \in BOOLEAN, codes' \in {0, codes},
         missed \subseteq missed', missed' \subseteq 1..made, call[c].got \in {0} \cup missed'
  PROVE  CodesInv'
<1>. DEFINE r == [call[c] EXCEPT !.answer = a, !.got = 0, !.on = guarded]
<1>1. /\ panel \in [enabled : BOOLEAN, modal : {"none", "regenerate", "codes", "disable"}]
      /\ admin \in BOOLEAN /\ signing \in BOOLEAN /\ acting \in BOOLEAN /\ flow \in SignIn!Flow
      /\ guarded \in BOOLEAN /\ shown \subseteq 1..made
      /\ made \in Nat /\ MaxCodes \in Nat /\ call \in [Calls -> Requests]
      /\ Brings(call[c], made, missed, ModalUp)
  BY SignInFacts DEF CodesInv
<1>2. /\ r \in Requests /\ r.got = 0 /\ r.ask = call[c].ask /\ r.host = call[c].host
      /\ r.mounted = call[c].mounted /\ r.answer = a
  <2>1. 0 \in 0..MaxCodes
    BY <1>1
  <2>. QED
    BY <1>1, <2>1 DEF Requests
<1>3. call' = [call EXCEPT ![c] = r]
  BY <1>1 DEF SignIn!Answer
<1>. HIDE DEF r
<1>4. ModalUp' = ModalUp
  BY DEF ModalUp
<1>5. Brings(r, made, missed', ModalUp')
  BY <1>1, <1>2, <1>4 DEF Brings
<1>. QED
  BY <1>1, <1>2, <1>3, <1>4, <1>5, CallMoves

(* A request is over, or looks again: what it brought is shown or missed.  *)
LEMMA OverKeeps ==
  ASSUME CodesInv, NEW c \in Calls, SignIn!Over(c) \/ SignIn!ThenLook(c),
         admin' \in BOOLEAN, signing' \in BOOLEAN, acting' \in BOOLEAN, flow' \in SignIn!Flow,
         panel' \in [enabled : BOOLEAN, modal : {"none", "regenerate", "codes", "disable"}],
         ModalUp => ModalUp',
         UNCHANGED <<guarded, codes, made, missed>>,
         shown' \in {shown, shown \cup {call[c].got}},
         call[c].got \in {0} \cup shown' \cup missed, shown' # shown => call[c].got # 0
  PROVE  CodesInv'
<1>1. /\ guarded \in BOOLEAN /\ shown \subseteq 1..made /\ missed \subseteq 1..made
      /\ made \in 0..MaxCodes /\ MaxCodes \in Nat /\ call \in [Calls -> Requests]
      /\ call[c].got \in 0..MaxCodes /\ call[c].got <= made
  BY SignInFacts DEF CodesInv, Brings, Requests
<1>2. PICK r \in {SignIn!Free, SignIn!Looking} : call' = [call EXCEPT ![c] = r]
  BY DEF SignIn!Over, SignIn!ThenLook
<1>3. r \in Requests /\ r.got = 0 /\ r.ask \notin BringsCodes
  BY FreeRequests DEF BringsCodes
<1>4. Brings(r, made, missed', ModalUp')
  BY <1>1, <1>3 DEF Brings, BringsCodes
<1>5. shown \subseteq shown' /\ shown' \subseteq 1..made
  BY <1>1
<1>. QED
  BY <1>1, <1>2, <1>3, <1>4, <1>5, CallMoves

(* Dialogs go: nobody is there any more for some of the requests.          *)
LEMMA LeaveKeeps ==
  ASSUME CodesInv,
         admin' \in BOOLEAN, signing' \in BOOLEAN, acting' \in BOOLEAN, flow' \in SignIn!Flow,
         panel' \in [enabled : BOOLEAN, modal : {"none", "regenerate", "codes", "disable"}],
         UNCHANGED <<guarded, codes, made, shown>>,
         missed \subseteq missed', missed' \subseteq 1..made,
         call' = [d \in Calls |-> call'[d]],
         \A d \in Calls :
           \/ call'[d] \in {SignIn!Free, SignIn!Looking} /\ call[d].got \in {0} \cup missed'
           \/ /\ call'[d] \in Requests /\ call'[d].got = call[d].got
              /\ call'[d].ask = call[d].ask /\ call'[d].answer = call[d].answer
              /\ call'[d].mounted => call[d].mounted /\ call'[d].host = call[d].host
              /\ ~call'[d].mounted => call[d].got \in {0} \cup missed'
              /\ call'[d].ask = "regenerate" /\ call'[d].mounted => ModalUp'
  PROVE  CodesInv'
<1>1. /\ guarded \in BOOLEAN /\ shown \subseteq 1..made /\ made \in Nat
      /\ \A d \in Calls : Brings(call[d], made, missed, ModalUp)
  BY SignInFacts DEF CodesInv
<1>2. \A d \in Calls : call'[d] \in Requests /\ Brings(call'[d], made, missed', ModalUp')
  <2>. TAKE d \in Calls
  <2>1. CASE call'[d] \in {SignIn!Free, SignIn!Looking}
    BY <1>1, <2>1, FreeRequests DEF Brings, BringsCodes
  <2>2. CASE call'[d] \notin {SignIn!Free, SignIn!Looking}
    BY <1>1, <2>2 DEF Brings
  <2>. QED
    BY <2>1, <2>2
<1>3. call' \in [Calls -> Requests]
  BY <1>2
<1>4. \A d \in Calls :
        \/ call[d].got \in {0} \cup shown' \cup missed'
        \/ call'[d].got = call[d].got /\ call'[d].ask = call[d].ask
  OBVIOUS
<1>. QED
  BY <1>1, <1>2, <1>3, <1>4, CallsMove

(* What is on its way are codes that were made.                            *)
LEMMA OnTheirWayIs ==
  ASSUME CodesInv, NEW kinds
  PROVE  /\ SignIn!OnTheirWay(kinds) \subseteq 1..made
         /\ \A d \in Calls : call[d].ask \in kinds => call[d].got \in {0} \cup SignIn!OnTheirWay(kinds)
<1>1. \A d \in Calls : call[d].got \in 0..MaxCodes /\ call[d].got <= made /\ made \in 0..MaxCodes /\ MaxCodes \in Nat
  BY SignInFacts DEF CodesInv, Brings, Requests
<1>. QED
  BY <1>1 DEF SignIn!OnTheirWay

(* The dialog of a host goes.                                              *)
LEMMA UnmountedIs ==
  ASSUME CodesInv, NEW host, NEW d \in Calls
  PROVE  LET r == SignIn!Unmounted(host)[d] IN
         /\ r \in Requests /\ r.got = call[d].got /\ r.ask = call[d].ask
         /\ r.answer = call[d].answer /\ r.host = call[d].host
         /\ r.mounted => call[d].mounted
         /\ r.mounted # call[d].mounted =>
              call[d].got \in {0} \cup SignIn!OnTheirWay({"verify-setup"})
<1>1. call[d] \in Requests /\ (call[d].got # 0 => call[d].ask \in BringsCodes)
  BY SignInFacts DEF CodesInv, Brings
<1>2. SignIn!Unmounted(host)[d] \in {call[d], [call[d] EXCEPT !.mounted = FALSE]}
      /\ (SignIn!Unmounted(host)[d] # call[d] =>
             call[d].ask \in {"sign-in", "verify-login", "verify-recovery", "verify-setup"})
  BY DEF SignIn!Unmounted
<1>3. call[d].ask \in {"sign-in", "verify-login", "verify-recovery", "verify-setup"}
        => call[d].got \in {0} \cup SignIn!OnTheirWay({"verify-setup"})
  BY <1>1, OnTheirWayIs DEF BringsCodes
<1>. QED
  BY <1>1, <1>2, <1>3 DEF Requests

(* The dialog closes, or an earlier one succeeds and closes it.            *)
LEMMA SucceedKeeps ==
  ASSUME CodesInv, NEW c \in Calls, NEW host \in SignIn!Hosts, SignIn!Succeed(c, host),
         call[c].got = 0, UNCHANGED <<signing, panel, acting, guarded, codes, made, shown>>
  PROVE  CodesInv'
<1>1. /\ panel \in [enabled : BOOLEAN, modal : {"none", "regenerate", "codes", "disable"}]
      /\ admin \in BOOLEAN /\ signing \in BOOLEAN /\ acting \in BOOLEAN /\ flow \in SignIn!Flow
      /\ missed \subseteq 1..made /\ call \in [Calls -> Requests] /\ made \in Nat
      /\ \A d \in Calls : Brings(call[d], made, missed, ModalUp)
  BY SignInFacts DEF CodesInv
<1>2. admin' \in BOOLEAN /\ flow' \in SignIn!Flow
  BY <1>1, NoFlowIs DEF SignIn!Succeed
<1>. DEFINE others == IF flow.host = host THEN SignIn!Unmounted(host) ELSE call
<1>3. call' = [others EXCEPT ![c] = IF host = "settings" THEN SignIn!Looking ELSE SignIn!Free]
  BY DEF SignIn!Succeed
<1>4. others = [d \in Calls |-> others[d]]
  BY <1>1 DEF SignIn!Unmounted
<1>5. missed \subseteq missed' /\ missed' \subseteq 1..made
      /\ (flow.host = host => SignIn!OnTheirWay({"verify-setup"}) \subseteq missed')
  BY <1>1, OnTheirWayIs DEF SignIn!Succeed, SignIn!OnTheirWay
<1>6. ASSUME NEW d \in Calls
      PROVE  /\ others[d] \in Requests /\ others[d].got = call[d].got /\ others[d].ask = call[d].ask
             /\ others[d].answer = call[d].answer /\ others[d].host = call[d].host
             /\ others[d].mounted => call[d].mounted
             /\ ~others[d].mounted => call[d].got \in {0} \cup missed'
  <2>1. CASE flow.host = host
    <3>1. /\ others[d] \in Requests /\ others[d].got = call[d].got /\ others[d].ask = call[d].ask
          /\ others[d].answer = call[d].answer /\ others[d].host = call[d].host
          /\ others[d].mounted => call[d].mounted
          /\ others[d].mounted # call[d].mounted =>
               call[d].got \in {0} \cup SignIn!OnTheirWay({"verify-setup"})
      BY <2>1, UnmountedIs
    <3>2. ~call[d].mounted => call[d].got \in {0} \cup missed'
      BY <1>1, <1>5 DEF Brings
    <3>3. call[d].got \in {0} \cup SignIn!OnTheirWay({"verify-setup"}) => call[d].got \in {0} \cup missed'
      BY <1>5, <2>1
    <3>4. call[d] \in Requests
      BY <1>1
    <3>. QED
      BY <3>1, <3>2, <3>3, <3>4 DEF Requests
  <2>2. CASE flow.host # host
    BY <1>1, <1>5, <2>2 DEF Brings
  <2>. QED
    BY <2>1, <2>2
<1>. HIDE DEF others
<1>7. call' = [d \in Calls |-> call'[d]]
      /\ call'[c] \in {SignIn!Free, SignIn!Looking} /\ \A d \in Calls \ {c} : call'[d] = others[d]
  BY <1>3, <1>4
<1>8. ModalUp' = ModalUp
  BY DEF ModalUp
<1>9. \A d \in Calls :
        \/ call'[d] \in {SignIn!Free, SignIn!Looking} /\ call[d].got \in {0} \cup missed'
        \/ /\ call'[d] \in Requests /\ call'[d].got = call[d].got
           /\ call'[d].ask = call[d].ask /\ call'[d].answer = call[d].answer
           /\ call'[d].mounted => call[d].mounted /\ call'[d].host = call[d].host
           /\ ~call'[d].mounted => call[d].got \in {0} \cup missed'
           /\ call'[d].ask = "regenerate" /\ call'[d].mounted => ModalUp'
  <2>. TAKE d \in Calls
  <2>1. CASE d = c
    BY <1>7, <2>1
  <2>2. CASE d # c
    BY <1>1, <1>6, <1>7, <1>8, <2>2 DEF Brings
  <2>. QED
    BY <2>1, <2>2
<1>. QED
  BY <1>1, <1>2, <1>5, <1>7, <1>9, LeaveKeeps

(* A step of signing in.                                                   *)
LEMMA CodesStep ==
  ASSUME CodesInv, [SignIn!Next]_signInVars
  PROVE  CodesInv'
<1>0. /\ MaxCodes \in Nat /\ made \in 0..MaxCodes /\ codes \in 0..made
      /\ admin \in BOOLEAN /\ signing \in BOOLEAN /\ acting \in BOOLEAN /\ flow \in SignIn!Flow
      /\ panel \in [enabled : BOOLEAN, modal : {"none", "regenerate", "codes", "disable"}]
      /\ call \in [Calls -> Requests] /\ guarded \in BOOLEAN
      /\ shown \subseteq 1..made /\ missed \subseteq 1..made
  BY SignInFacts
<1>1. \A c \in Calls : call[c] \in Requests /\ Brings(call[c], made, missed, ModalUp)
  BY <1>0 DEF CodesInv
<1>2. \A c \in Calls : call[c].answer # "ok" => call[c].got = 0
  BY <1>1 DEF Brings
<1>3. ASSUME NEW c \in Calls, NEW right \in BOOLEAN, SignIn!SignIn(c, right)
      PROVE  CodesInv'
  BY <1>0, <1>3, AskKeeps DEF SignIn!SignIn, SignIn!server, SignIn!Asks, SignIn!Hosts
<1>4. ASSUME NEW c \in Calls, SignIn!Verify(c)
      PROVE  CodesInv'
  <2>1. SignIn!Endpoint \in SignIn!Asks /\ SignIn!Endpoint # "regenerate"
    BY DEF SignIn!Endpoint, SignIn!Asks
  <2>2. flow.host \in SignIn!Hosts /\ flow' \in SignIn!Flow
    BY <1>0, <1>4 DEF SignIn!Verify, SignIn!Flow
  <2>. QED
    BY <1>0, <1>4, <2>1, <2>2, AskKeeps DEF SignIn!Verify, SignIn!server
<1>5. ASSUME NEW c \in Calls, SignIn!InitiateSetup(c)
      PROVE  CodesInv'
  BY <1>0, <1>5, AskKeeps DEF SignIn!InitiateSetup, SignIn!server, SignIn!Asks, SignIn!Hosts
<1>6. ASSUME NEW c \in Calls, NEW a \in {"regenerate", "disable"}, NEW right \in BOOLEAN,
             SignIn!Act(c, a, right)
      PROVE  CodesInv'
  <2>1. a = "regenerate" => ModalUp
    BY <1>6
       DEF SignIn!Act, SignIn!Clickable, SignIn!FlowScreen, SignIn!SetupCompleteScreen,
           SignIn!SetupScreen, SignIn!RecoveryScreen, SignIn!VerifyScreen, SignIn!Boxes,
           SignIn!Submit, SignIn!PanelScreen, SignIn!DisableModal, SignIn!StatusCard,
           SignIn!SignInForm, ModalUp
  <2>2. a \in SignIn!Asks /\ "settings" \in SignIn!Hosts
    BY DEF SignIn!Asks, SignIn!Hosts
  <2>. QED
    BY <1>0, <1>6, <2>1, <2>2, AskKeeps DEF SignIn!Act, SignIn!server
<1>7. ASSUME NEW c \in Calls, SignIn!Look(c)
      PROVE  CodesInv'
  <2>1. call[c].got = 0
    BY <1>7, FreeRequests DEF SignIn!Look
  <2>2. SignIn!ThenLook(c) /\ UNCHANGED <<admin, flow, signing, panel, acting, guarded, codes, made, shown, missed>>
    BY <1>7 DEF SignIn!Look, SignIn!page, SignIn!server
  <2>3. ModalUp' = ModalUp
    BY <2>2 DEF ModalUp
  <2>. QED
    BY <1>0, <2>1, <2>2, <2>3, OverKeeps
<1>8. ASSUME NEW c \in Calls, SignIn!FinishSetup(c)
      PROVE  CodesInv'
  <2>1. call[c].got = 0 /\ flow.host \in SignIn!Hosts
    BY <1>0, <1>8, FreeRequests DEF SignIn!FinishSetup, SignIn!Flow
  <2>. QED
    BY <1>8, <2>1, SucceedKeeps DEF SignIn!FinishSetup, SignIn!server
<1>9. ASSUME NEW c \in Calls, SignIn!ServeSignIn(c) \/ SignIn!ServeLogin(c) \/ SignIn!ServeLook(c)
      PROVE  CodesInv'
  <2>1. PICK a \in {"ok", "refused"} : SignIn!Answer(c, a, 0)
    BY <1>9 DEF SignIn!ServeSignIn, SignIn!ServeLogin, SignIn!ServeLook
  <2>2. /\ call[c].answer = "none" /\ call[c].ask \notin BringsCodes
        /\ UNCHANGED <<admin, flow, signing, panel, acting, guarded, codes, made, shown, missed>>
    BY <1>9
       DEF SignIn!ServeSignIn, SignIn!ServeLogin, SignIn!ServeLook, SignIn!Pending,
           SignIn!page, SignIn!server, BringsCodes
  <2>. QED
    BY <1>0, <1>2, <2>1, <2>2, AnswerKeeps DEF SignIn!Answers
<1>10. ASSUME NEW c \in Calls, SignIn!ServeSetup(c) \/ SignIn!ServeRegenerate(c)
       PROVE  CodesInv'
  <2>1. /\ call[c].answer = "none" /\ call[c].ask \in BringsCodes
        /\ UNCHANGED <<admin, flow, signing, panel, acting, shown>>
        /\ guarded' \in BOOLEAN
    BY <1>0, <1>10
       DEF SignIn!ServeSetup, SignIn!ServeRegenerate, SignIn!Pending, SignIn!page, SignIn!server,
           BringsCodes
  <2>2. CASE SignIn!NewCodes(c)
    BY <2>1, <2>2, NewCodesKeep
  <2>3. CASE ~SignIn!NewCodes(c)
    <3>1. PICK a \in {"invalid", "refused"} : SignIn!Answer(c, a, 0)
      BY <1>10, <2>3 DEF SignIn!ServeSetup, SignIn!ServeRegenerate
    <3>2. UNCHANGED <<guarded, codes, made, missed>>
      BY <1>10, <2>3 DEF SignIn!ServeSetup, SignIn!ServeRegenerate, SignIn!server
    <3>. QED
      BY <1>0, <1>2, <2>1, <3>1, <3>2, AnswerKeeps DEF SignIn!Answers
  <2>. QED
    BY <2>2, <2>3
<1>11. ASSUME NEW c \in Calls, SignIn!ServeDisable(c)
       PROVE  CodesInv'
  <2>1. PICK a \in {"ok", "refused"} : SignIn!Answer(c, a, 0)
    BY <1>11 DEF SignIn!ServeDisable
  <2>2. /\ call[c].answer = "none" /\ call[c].ask \notin BringsCodes /\ guarded' \in BOOLEAN /\ codes' \in {0, codes}
        /\ UNCHANGED <<admin, flow, signing, panel, acting, made, shown, missed>>
    BY <1>0, <1>11 DEF SignIn!ServeDisable, SignIn!Pending, SignIn!page, BringsCodes
  <2>. QED
    BY <1>0, <1>2, <2>1, <2>2, AnswerKeeps DEF SignIn!Answers
<1>12. ASSUME NEW c \in Calls, SignIn!Lose(c)
       PROVE  CodesInv'
  <2>1. /\ SignIn!Answer(c, "lost", 0) /\ missed' = missed \cup ({call[c].got} \ {0})
        /\ UNCHANGED <<admin, flow, signing, panel, acting, guarded, codes, made, shown>>
    BY <1>12 DEF SignIn!Lose, SignIn!page, SignIn!server
  <2>2. call[c].got \in 0..made
    BY <1>0, <1>1 DEF Brings, Requests
  <2>3. missed' \subseteq 1..made /\ call[c].got \in {0} \cup missed'
    <3>1. {call[c].got} \ {0} \subseteq 1..made
      BY <1>0, <2>2
    <3>. QED
      BY <1>0, <2>1, <3>1
  <2>. QED
    BY <1>0, <2>1, <2>3, AnswerKeeps DEF SignIn!Answers
<1>13. ASSUME NEW c \in Calls, SignIn!SignInBack(c) \/ SignIn!InitiateBack(c)
       PROVE  CodesInv'
  <2>1. /\ SignIn!Over(c) /\ call[c].ask \notin BringsCodes
        /\ signing' \in BOOLEAN /\ acting' \in BOOLEAN
        /\ UNCHANGED <<admin, panel, guarded, codes, made, shown, missed>>
    BY <1>0, <1>13
       DEF SignIn!SignInBack, SignIn!InitiateBack, SignIn!Here, SignIn!Back, SignIn!server,
           BringsCodes
  <2>2. flow' \in SignIn!Flow
    <3>1. \/ flow' = flow
          \/ \E host \in {"form", "settings"}, purpose \in {"login", "setup"}, mode \in {"verify", "setup"} :
               SignIn!OpenFlow(host, purpose, mode)
      BY <1>13 DEF SignIn!SignInBack, SignIn!InitiateBack
    <3>. QED
      BY <1>0, <3>1, NoFlowIs DEF SignIn!OpenFlow, SignIn!Flow, SignIn!Hosts, SignIn!Modes
  <2>3. call[c].got = 0
    BY <1>1, <2>1 DEF Brings
  <2>4. ModalUp' = ModalUp
    BY <2>1 DEF ModalUp
  <2>. QED
    BY <1>0, <2>1, <2>2, <2>3, <2>4, OverKeeps
<1>14. ASSUME NEW c \in Calls, SignIn!FlowBack(c)
       PROVE  CodesInv'
  <2>1. /\ call[c].ask \in {"verify-login", "verify-recovery", "verify-setup"}
        /\ UNCHANGED <<signing, panel, acting, guarded, codes, made>>
    BY <1>14 DEF SignIn!FlowBack, SignIn!Back, SignIn!server
  <2>2. ModalUp' = ModalUp
    BY <2>1 DEF ModalUp
  <2>3. CASE call[c].answer # "ok"
    <3>1. SignIn!Over(c) /\ flow' = SignIn!Settled(c) /\ UNCHANGED <<admin, shown, missed>>
      BY <1>14, <2>3 DEF SignIn!FlowBack
    <3>2. flow' \in SignIn!Flow
      BY <1>0, <3>1 DEF SignIn!Settled, SignIn!Flow, SignIn!Typed
    <3>. QED
      BY <1>0, <1>2, <2>1, <2>2, <2>3, <3>1, <3>2, OverKeeps
  <2>4. CASE call[c].answer = "ok" /\ call[c].ask = "verify-setup"
    <3>1. /\ SignIn!Over(c) /\ UNCHANGED <<admin, missed>>
          /\ IF call[c].mounted
               THEN /\ flow' = [flow EXCEPT !.mode = "complete", !.loading = FALSE]
                    /\ shown' = shown \cup {call[c].got}
               ELSE UNCHANGED <<flow, shown>>
      BY <1>14, <2>4 DEF SignIn!FlowBack, SignIn!SetupVerified
    <3>2. flow' \in SignIn!Flow
      BY <1>0, <3>1 DEF SignIn!Flow, SignIn!Modes
    <3>3. call[c].got # 0 /\ ~call[c].mounted => call[c].got \in missed
      BY <1>1 DEF Brings
    <3>4. call[c].got # 0
      BY <1>1, <2>4 DEF Brings, BringsCodes
    <3>5. /\ shown' \in {shown, shown \cup {call[c].got}}
          /\ call[c].got \in {0} \cup shown' \cup missed
      BY <3>1, <3>3, <3>4
    <3>. QED
      BY <1>0, <2>1, <2>2, <3>1, <3>2, <3>4, <3>5, OverKeeps
  <2>5. CASE call[c].answer = "ok" /\ call[c].ask # "verify-setup"
    <3>1. SignIn!Succeed(c, call[c].host) /\ UNCHANGED shown
      BY <1>14, <2>5 DEF SignIn!FlowBack
    <3>2. call[c].got = 0 /\ call[c].host \in SignIn!Hosts
      BY <1>1, <2>1, <2>5 DEF Brings, BringsCodes, Requests
    <3>. QED
      BY <2>1, <3>1, <3>2, SucceedKeeps
  <2>. QED
    BY <2>3, <2>4, <2>5
<1>15. ASSUME SignIn!Unmount, admin' \in BOOLEAN, call' = [d \in Calls |-> call'[d]],
              \A d \in Calls : \/ call'[d] = SignIn!Free /\ call[d].got = 0
                              \/ call'[d] = SignIn!GoneWith[d]
       PROVE  CodesInv'
  <2>1. /\ flow' = SignIn!NoFlow /\ acting' = FALSE /\ signing' = FALSE
        /\ panel' = [enabled |-> FALSE, modal |-> "none"]
        /\ missed' = missed \cup SignIn!OnTheirWay({"verify-setup", "regenerate"})
        /\ UNCHANGED <<guarded, codes, made, shown>>
    BY <1>15 DEF SignIn!Unmount, SignIn!server
  <2>2. missed \subseteq missed' /\ missed' \subseteq 1..made /\ flow' \in SignIn!Flow
    BY <1>0, <2>1, OnTheirWayIs, NoFlowIs
  <2>3. ASSUME NEW d \in Calls
        PROVE  \/ call'[d] = SignIn!Free /\ call[d].got = 0
               \/ /\ call'[d] \in Requests /\ call'[d].got = call[d].got
                  /\ call'[d].ask = call[d].ask /\ call'[d].answer = call[d].answer
                  /\ ~call'[d].mounted /\ call[d].got \in {0} \cup missed'
    <3>1. /\ call[d] \in Requests /\ (call[d].got # 0 => call[d].ask \in {"verify-setup", "regenerate"})
          /\ "gone" \in SignIn!Hosts
      BY <1>1 DEF Brings, BringsCodes, SignIn!Hosts
    <3>2. call[d].got \in {0} \cup missed'
      BY <2>1, <3>1, OnTheirWayIs
    <3>3. CASE call[d].ask = "none"
      BY <1>15, <3>1, <3>3 DEF SignIn!GoneWith
    <3>4. CASE call[d].ask # "none" /\ call'[d] = SignIn!GoneWith[d]
      <4>1. \/ call'[d] = [call[d] EXCEPT !.host = "gone", !.mounted = FALSE]
            \/ call'[d] = [call[d] EXCEPT !.host = @, !.mounted = FALSE]
        BY <3>4 DEF SignIn!GoneWith
      <4>. QED
        BY <3>1, <3>2, <4>1 DEF Requests
    <3>. QED
      BY <1>15, <3>3, <3>4
  <2>. QED
    BY <1>0, <1>15, <2>1, <2>2, <2>3, LeaveKeeps
<1>24. CASE SignIn!Leave \/ \E c \in Calls : SignIn!FlowExpired(c)
  <2>1. CASE SignIn!Leave
    <3>1. SignIn!Unmount /\ call' = SignIn!GoneWith /\ admin' = admin
      BY <2>1 DEF SignIn!Leave
    <3>. QED
      BY <1>0, <1>15, <3>1 DEF SignIn!GoneWith
  <2>2. ASSUME NEW c \in Calls, SignIn!FlowExpired(c)
        PROVE  CodesInv'
    <3>1. /\ SignIn!Unmount /\ call' = [SignIn!GoneWith EXCEPT ![c] = SignIn!Free] /\ admin' = FALSE
          /\ call[c].answer = "refused"
      BY <2>2 DEF SignIn!FlowExpired
    <3>2. call[c].got = 0
      BY <1>2, <3>1
    <3>3. SignIn!GoneWith = [d \in Calls |-> SignIn!GoneWith[d]]
      BY DEF SignIn!GoneWith
    <3>4. call' = [d \in Calls |-> call'[d]] /\ call'[c] = SignIn!Free
          /\ \A d \in Calls \ {c} : call'[d] = SignIn!GoneWith[d]
      BY <3>1, <3>3
    <3>. QED
      BY <1>15, <3>1, <3>2, <3>4
  <2>. QED
    BY <1>24, <2>1, <2>2
<1>16. ASSUME NEW c \in Calls, SignIn!LeftBack(c) \/ SignIn!LookBack(c) \/ SignIn!DisableBack(c)
       PROVE  CodesInv'
  <2>1. /\ SignIn!Over(c) \/ SignIn!ThenLook(c)
        /\ acting' \in BOOLEAN
        /\ UNCHANGED <<admin, flow, signing, guarded, codes, made, shown, missed>>
    BY <1>0, <1>16
       DEF SignIn!LeftBack, SignIn!LookBack, SignIn!DisableBack, SignIn!page, SignIn!server
  <2>2. panel' \in [enabled : BOOLEAN, modal : {"none", "regenerate", "codes", "disable"}]
        /\ (ModalUp => ModalUp')
    BY <1>0, <1>1, <1>16
       DEF SignIn!LeftBack, SignIn!LookBack, SignIn!DisableBack, SignIn!page, ModalUp, Requests
  <2>3. call[c].got \in {0} \cup missed
    <3>1. CASE call[c].ask # "regenerate"
      BY <1>1, <1>16, <3>1
         DEF SignIn!LeftBack, SignIn!LookBack, SignIn!DisableBack, SignIn!Here, SignIn!Back,
             Brings, BringsCodes
    <3>2. CASE call[c].ask = "regenerate"
      <4>1. call[c].host = "gone"
        BY <1>16, <3>2
           DEF SignIn!LeftBack, SignIn!LookBack, SignIn!DisableBack, SignIn!Here, SignIn!Back
      <4>. QED
        BY <1>1, <3>2, <4>1 DEF Brings
    <3>. QED
      BY <3>1, <3>2
  <2>. QED
    BY <1>0, <2>1, <2>2, <2>3, OverKeeps
<1>17. ASSUME NEW c \in Calls, SignIn!RegenerateBack(c)
       PROVE  CodesInv'
  <2>1. /\ SignIn!Over(c) \/ SignIn!ThenLook(c)
        /\ acting' \in BOOLEAN
        /\ call[c].ask = "regenerate" /\ call[c].host = "settings"
        /\ UNCHANGED <<admin, flow, signing, guarded, codes, made, missed>>
        /\ IF call[c].answer = "ok" /\ ModalUp
             THEN panel' = [panel EXCEPT !.modal = "codes"] /\ shown' = shown \cup {call[c].got}
             ELSE UNCHANGED <<panel, shown>>
    BY <1>17 DEF SignIn!RegenerateBack, SignIn!Here, SignIn!Back, SignIn!server, ModalUp
  <2>2. panel' \in [enabled : BOOLEAN, modal : {"none", "regenerate", "codes", "disable"}]
        /\ (ModalUp => ModalUp')
    BY <1>0, <2>1 DEF ModalUp
  <2>3. /\ shown' \in {shown, shown \cup {call[c].got}}
        /\ call[c].got \in {0} \cup shown' \cup missed
        /\ shown' # shown => call[c].got # 0
    BY <1>1, <2>1 DEF Brings, BringsCodes
  <2>. QED
    BY <1>0, <2>1, <2>2, <2>3, OverKeeps
<1>18. CASE SignIn!CloseModal
  <2>1. /\ panel' = [panel EXCEPT !.modal = "none"]
        /\ missed' = missed \cup SignIn!OnTheirWay({"regenerate"})
        /\ call' = [d \in Calls |-> IF call[d].ask = "regenerate"
                                      THEN [call[d] EXCEPT !.mounted = FALSE] ELSE call[d]]
        /\ UNCHANGED <<admin, flow, signing, acting, guarded, codes, made, shown>>
    BY <1>18 DEF SignIn!CloseModal, SignIn!server
  <2>2. missed \subseteq missed' /\ missed' \subseteq 1..made
        /\ panel' \in [enabled : BOOLEAN, modal : {"none", "regenerate", "codes", "disable"}]
    BY <1>0, <2>1, OnTheirWayIs
  <2>3. ASSUME NEW d \in Calls
        PROVE  /\ call'[d] \in Requests /\ call'[d].got = call[d].got
               /\ call'[d].ask = call[d].ask /\ call'[d].answer = call[d].answer
               /\ call'[d].mounted => call[d].mounted /\ call'[d].host = call[d].host
               /\ ~call'[d].mounted => call[d].got \in {0} \cup missed'
               /\ ~(call'[d].ask = "regenerate" /\ call'[d].mounted)
    <3>1. CASE call[d].ask = "regenerate"
      BY <1>1, <2>1, <3>1, OnTheirWayIs DEF Requests
    <3>2. CASE call[d].ask # "regenerate"
      BY <1>1, <2>1, <3>2 DEF Brings
    <3>. QED
      BY <3>1, <3>2
  <2>4. call' = [d \in Calls |-> call'[d]]
    BY <2>1
  <2>. QED
    BY <1>0, <2>1, <2>2, <2>3, <2>4, LeaveKeeps
<1>19. CASE SignIn!Cancel
  <2>1. /\ flow' = SignIn!NoFlow /\ call' = SignIn!Unmounted(flow.host)
        /\ missed' = missed \cup SignIn!OnTheirWay({"verify-setup"})
        /\ UNCHANGED <<admin, signing, panel, acting, guarded, codes, made, shown>>
    BY <1>19 DEF SignIn!Cancel, SignIn!CloseFlow, SignIn!server
  <2>2. missed \subseteq missed' /\ missed' \subseteq 1..made /\ flow' \in SignIn!Flow
    BY <1>0, <2>1, OnTheirWayIs, NoFlowIs
  <2>3. call' = [d \in Calls |-> call'[d]]
    BY <2>1 DEF SignIn!Unmounted
  <2>4. ModalUp' = ModalUp
    BY <2>1 DEF ModalUp
  <2>5. ASSUME NEW d \in Calls
        PROVE  /\ call'[d] \in Requests /\ call'[d].got = call[d].got
               /\ call'[d].ask = call[d].ask /\ call'[d].answer = call[d].answer
               /\ call'[d].mounted => call[d].mounted /\ call'[d].host = call[d].host
               /\ ~call'[d].mounted => call[d].got \in {0} \cup missed'
               /\ call'[d].ask = "regenerate" /\ call'[d].mounted => ModalUp'
    <3>1. call'[d] = SignIn!Unmounted(flow.host)[d]
      BY <2>1
    <3>2. /\ call'[d] \in Requests /\ call'[d].got = call[d].got /\ call'[d].ask = call[d].ask
          /\ call'[d].answer = call[d].answer /\ call'[d].host = call[d].host
          /\ call'[d].mounted => call[d].mounted
          /\ call'[d].mounted # call[d].mounted =>
               call[d].got \in {0} \cup SignIn!OnTheirWay({"verify-setup"})
      BY <3>1, UnmountedIs
    <3>. QED
      BY <1>1, <2>1, <2>4, <3>2 DEF Brings, Requests
  <2>. QED
    BY <1>0, <2>1, <2>2, <2>3, <2>5, LeaveKeeps
<1>20. ASSUME UNCHANGED <<admin, signing, acting, call, guarded, codes, made, shown, missed>>,
              flow' \in SignIn!Flow,
              panel' \in [enabled : BOOLEAN, modal : {"none", "regenerate", "codes", "disable"}],
              ModalUp => ModalUp'
       PROVE  CodesInv'
  <2>1. \A d \in Calls : Brings(call'[d], made, missed', ModalUp')
    BY <1>1, <1>20 DEF Brings
  <2>. QED
    BY <1>0, <1>20, <2>1, CallsMove
<1>21. CASE (\E text \in SignIn!Typed : SignIn!Type(text)) \/ SignIn!SwitchMode \/ SignIn!Confirm
  <2>1. flow' \in SignIn!Flow
    BY <1>0, <1>21
       DEF SignIn!Type, SignIn!SwitchMode, SignIn!Confirm, SignIn!Flow, SignIn!Typed, SignIn!Modes
  <2>2. UNCHANGED <<admin, signing, panel, acting, call, guarded, codes, made, shown, missed>>
    BY <1>21 DEF SignIn!Type, SignIn!SwitchMode, SignIn!Confirm, SignIn!server
  <2>3. ModalUp' = ModalUp
    BY <2>2 DEF ModalUp
  <2>. QED
    BY <1>0, <1>20, <2>1, <2>2, <2>3
<1>22. ASSUME NEW m \in {"regenerate", "disable"}, SignIn!OpenModal(m)
       PROVE  CodesInv'
  <2>1. ModalUp => ModalUp'
    BY <1>0, <1>22
       DEF SignIn!OpenModal, SignIn!Clickable, SignIn!FlowScreen, SignIn!SetupCompleteScreen,
           SignIn!SetupScreen, SignIn!RecoveryScreen, SignIn!VerifyScreen, SignIn!Boxes,
           SignIn!Submit, SignIn!PanelScreen, SignIn!RegenerateModal, SignIn!DisableModal,
           SignIn!StatusCard, SignIn!SignInForm, ModalUp
  <2>. QED
    BY <1>0, <1>20, <1>22, <2>1 DEF SignIn!OpenModal, SignIn!server
<1>23. CASE UNCHANGED signInVars
  <2>1. ModalUp' = ModalUp
    BY <1>23 DEF signInVars, ModalUp
  <2>. QED
    BY <1>0, <1>20, <1>23, <2>1 DEF signInVars
<1>. QED
  BY <1>3, <1>4, <1>5, <1>6, <1>7, <1>8, <1>9, <1>10, <1>11, <1>12, <1>13, <1>14, <1>16,
     <1>17, <1>18, <1>19, <1>21, <1>22, <1>23, <1>24
     DEF SignIn!Next, signInVars, SignIn!signInVars

------------------------------------------------------------------------------
(***************************************************************************)
(* Reports that are watched.  But for the reports deleted while they were  *)
(* made, no answer is ahead of the server.  The list that was asked for    *)
(* after a report was started brings it while it is being made: nothing is *)
(* started before that list is there.  The first list brings what it finds *)
(* being made; what was started since is watched otherwise.                *)
(***************************************************************************)
Lists == Archives!List

Works == [Jobs -> {"none", "queued", "running"}]

ListLoads == [for : {"none", "first", "view", "poll", "generate", "delete"},
              at : {"sent", "answered"}, brings : Lists]

NotAhead == \A l \in Calls, j \in Jobs \ undone :
              Archives!Rank(load[l].brings[j]) <= Archives!Rank(row[j])

AtWork == \A j \in Jobs \ undone : work[j] # "none" => row[j] = "active"

Shut ==
  ~open => /\ asking = "idle" /\ deleting = "idle" /\ dialog = {} /\ list = Archives!Unmade
           /\ \A l \in Calls : load[l].for = "none"

Due == {j \in Jobs \ (strange \cup undone) : row[j] = "active"}

Reloading(l) ==
  load[l].for = "generate" =>
    /\ asking = "reloading"
    /\ \A k \in Calls : load[k].for = "generate" => k = l
    /\ load[l].at = "answered" => \A j \in Due : load[l].brings[j] = "active"

FirstList(l) ==
  load[l].for = "first" /\ load[l].at = "answered" /\ ~unseen =>
    \A j \in Due : \/ load[l].brings[j] = "active"
                   \/ list[j] = "active" \/ asking = "answered"
                   \/ \E k \in Calls : load[k].for = "generate"

TabTypes ==
  /\ row \in Lists /\ list \in Lists /\ work \in Works /\ load \in [Calls -> ListLoads]
  /\ asking \in Archives!Stages /\ deleting \in Archives!Stages
  /\ dialog \subseteq Jobs /\ Cardinality(dialog) <= 1
  /\ strange \subseteq Jobs /\ undone \subseteq Jobs
  /\ open \in BOOLEAN /\ unseen \in BOOLEAN

WatchInv ==
  /\ TabTypes
  /\ NotAhead /\ AtWork /\ Shut
  /\ \A l \in Calls : Reloading(l) /\ FirstList(l)
  /\ Archives!JobIsWatched

(* A list of nothing, a load of it, and how far a report has come.         *)
LEMMA ArchiveTabIs ==
  /\ Archives!Unmade \in Lists /\ \A j \in Jobs : Archives!Unmade[j] = "none"
  /\ \A p \in {"none", "first", "view", "poll", "generate", "delete"} :
       LET k == [Archives!NoLoad EXCEPT !.for = p] IN
       k \in ListLoads /\ k.for = p /\ k.at = "sent" /\ k.brings = Archives!Unmade
  /\ Archives!NoLoad = [Archives!NoLoad EXCEPT !.for = "none"]
  /\ \A s \in Archives!Status : Archives!Rank(s) \in 0..3
  /\ \A s \in Archives!Status : Archives!Rank(s) = 1 <=> s = "active"
  /\ Archives!Rank("none") = 0
  /\ \A S : Archives!Cardinality(S) = Cardinality(S)
<1>1. Archives!Unmade \in Lists /\ \A j \in Jobs : Archives!Unmade[j] = "none"
  BY DEF Archives!Unmade, Lists, Archives!List, Archives!Status
<1>2. \A p \in {"none", "first", "view", "poll", "generate", "delete"} :
       LET k == [Archives!NoLoad EXCEPT !.for = p] IN
       k \in ListLoads /\ k.for = p /\ k.at = "sent" /\ k.brings = Archives!Unmade
  BY <1>1 DEF Archives!NoLoad, ListLoads
<1>3. Archives!NoLoad = [Archives!NoLoad EXCEPT !.for = "none"]
  BY DEF Archives!NoLoad
<1>4. /\ \A s \in Archives!Status : Archives!Rank(s) \in 0..3
      /\ \A s \in Archives!Status : Archives!Rank(s) = 1 <=> s = "active"
      /\ Archives!Rank("none") = 0
  BY DEF Archives!Status, Archives!Rank
<1>5. \A S : Archives!Cardinality(S) = Cardinality(S)
  BY DEF Archives!Cardinality, Cardinality
<1>. QED
  BY <1>1, <1>2, <1>3, <1>4, <1>5

(* Loads that have only been sent are ahead of nothing.                    *)
LEMMA FreshLoads ==
  ASSUME row \in Lists, \A l \in Calls : load[l].brings = Archives!Unmade
  PROVE  NotAhead
<1>. SUFFICES ASSUME NEW l \in Calls, NEW j \in Jobs
              PROVE  Archives!Rank(load[l].brings[j]) <= Archives!Rank(row[j])
  BY DEF NotAhead
<1>1. Archives!Rank(row[j]) \in 0..3 /\ Archives!Rank(Archives!Unmade[j]) = 0
  BY ArchiveTabIs DEF Lists, Archives!List
<1>. QED
  BY <1>1

(* The types the instance speaks of are those above.                       *)
LEMMA TabTypesAre == TabTypes <=> Archives!TypeOK
BY ArchiveTabIs DEF TabTypes, Archives!TypeOK, ListLoads, Lists, Works

(* Nothing is made and nothing asked, but the first list.                  *)
LEMMA WatchInit == Archives!Init => WatchInv
<1>. SUFFICES ASSUME Archives!Init PROVE WatchInv
  OBVIOUS
<1>1. /\ row = Archives!Unmade /\ list = Archives!Unmade /\ work = [j \in Jobs |-> "none"]
      /\ asking = "idle" /\ deleting = "idle" /\ dialog = {} /\ open = TRUE
      /\ strange = {} /\ undone = {} /\ unseen = FALSE
  BY DEF Archives!Init
<1>2. PICK first \in Calls : load = Archives!Opened(first)
  BY DEF Archives!Init
<1>3. /\ load \in [Calls -> ListLoads]
      /\ \A l \in Calls : /\ load[l].for \in {"none", "first"} /\ load[l].brings = Archives!Unmade
                          /\ load[l].at = "sent"
  BY <1>2, ArchiveTabIs DEF Archives!Opened
<1>4. TabTypes
  <2>1. Cardinality({}) <= 1 /\ dialog \subseteq Jobs
    BY <1>1, FS_EmptySet
  <2>. QED
    BY <1>1, <1>3, <2>1, ArchiveTabIs DEF TabTypes, Archives!Stages, Works
<1>5. NotAhead
  BY <1>1, <1>3, FreshLoads, ArchiveTabIs
<1>6. AtWork /\ Shut /\ \A l \in Calls : Reloading(l) /\ FirstList(l)
  BY <1>1, <1>3 DEF AtWork, Shut, Reloading, FirstList
<1>7. Archives!JobIsWatched
  BY <1>1, ArchiveTabIs DEF Archives!JobIsWatched, Archives!Active
<1>. QED
  BY <1>4, <1>5, <1>6, <1>7 DEF WatchInv

(* The server moves: reports that are not deleted while they are made go   *)
(* one way, and no tab that is open has more of them due than before.      *)
LEMMA ServerMoves ==
  ASSUME WatchInv, row' \in Lists, work' \in Works, strange' \subseteq Jobs, undone' \subseteq Jobs,
         undone \subseteq undone', AtWork',
         \A j \in Jobs \ undone' : Archives!Rank(row[j]) <= Archives!Rank(row'[j]),
         open => Due' \subseteq Due,
         deleting' \in Archives!Stages, ~open => deleting' = "idle",
         UNCHANGED <<open, list, load, asking, dialog, unseen>>
  PROVE  WatchInv'
<1>1. TabTypes'
  <2>1. TabTypes'
    BY DEF WatchInv, TabTypes
  <2>. QED
    BY <2>1
<1>2. NotAhead'
  <2>. SUFFICES ASSUME NEW l \in Calls, NEW j \in Jobs \ undone'
                PROVE  Archives!Rank(load[l].brings[j]) <= Archives!Rank(row'[j])
    BY DEF NotAhead
  <2>1. load[l].brings[j] \in Archives!Status /\ row[j] \in Archives!Status
        /\ row'[j] \in Archives!Status
    BY DEF WatchInv, TabTypes, Lists, Archives!List, ListLoads
  <2>2. Archives!Rank(load[l].brings[j]) <= Archives!Rank(row[j])
    BY DEF WatchInv, NotAhead
  <2>. QED
    BY <2>1, <2>2, ArchiveTabIs
<1>3. Shut'
  BY DEF WatchInv, Shut
<1>4. \A l \in Calls : Reloading(l)' /\ FirstList(l)'
  BY DEF WatchInv, Shut, Reloading, FirstList
<1>5. Archives!JobIsWatched'
  BY DEF WatchInv, Archives!JobIsWatched, Archives!Active, Due
<1>. QED
  BY <1>1, <1>2, <1>3, <1>4, <1>5 DEF WatchInv

(* A report that is being made stays watched if no list is younger.        *)
LEMMA WatchStep ==
  ASSUME WatchInv, [Archives!Next]_archivesVars
  PROVE  WatchInv'
<1>0. /\ TabTypes /\ NotAhead /\ AtWork /\ Shut
      /\ \A l \in Calls : Reloading(l) /\ FirstList(l)
      /\ Archives!JobIsWatched
  BY DEF WatchInv
<1>s. /\ \A j \in Jobs : row[j] \in Archives!Status /\ work[j] \in {"none", "queued", "running"}
      /\ Cardinality({}) = 0 /\ \A j \in Jobs : Cardinality({j}) = 1
      /\ \A s \in Archives!Status : Archives!Rank(s) \in 0..3
      /\ Archives!Rank("none") = 0 /\ Archives!Rank("active") = 1 /\ Archives!Rank("ended") = 2
      /\ Archives!Rank("DELETED") = 3
  BY <1>0, ArchiveTabIs, FS_EmptySet, FS_Singleton
     DEF TabTypes, Lists, Archives!List, Works, Archives!Rank
(* The server starts a report of this tab's.                               *)
<1>1. CASE Archives!Started
  <2>1. PICK j \in Jobs : Archives!Insert(j)
    BY <1>1 DEF Archives!Started
  <2>2. /\ asking = "sent" /\ asking' = "answered"
        /\ UNCHANGED <<open, list, load, dialog, deleting, strange, undone, unseen>>
    BY <1>1 DEF Archives!Started
  <2>3. /\ row[j] = "none" /\ row' = [row EXCEPT ![j] = "active"]
        /\ work' = [work EXCEPT ![j] = "queued"]
    BY <2>1 DEF Archives!Insert
  <2>4. TabTypes'
    <3>1. TabTypes'
      BY <1>0, <2>2, <2>3
         DEF TabTypes, Lists, Archives!List, Archives!Status, Works, Archives!Stages
    <3>. QED
      BY <3>1
  <2>5. NotAhead'
    <3>. SUFFICES ASSUME NEW l \in Calls, NEW k \in Jobs \ undone
                  PROVE  Archives!Rank(load[l].brings[k]) <= Archives!Rank(row'[k])
      BY <2>2 DEF NotAhead
    <3>1. /\ Archives!Rank(load[l].brings[k]) <= Archives!Rank(row[k])
          /\ load[l].brings[k] \in Archives!Status
      BY <1>0 DEF NotAhead, TabTypes, ListLoads, Lists, Archives!List
    <3>2. row'[k] = row[k] \/ (row[k] = "none" /\ row'[k] = "active")
      BY <1>0, <2>3 DEF TabTypes, Lists, Archives!List
    <3>. QED
      BY <1>s, <3>1, <3>2
  <2>6. AtWork'
    BY <1>0, <2>2, <2>3 DEF AtWork, TabTypes, Lists, Archives!List, Works
  <2>7. Shut' /\ Archives!JobIsWatched'
    BY <1>0, <2>2 DEF Shut, Archives!JobIsWatched
  <2>8. \A l \in Calls : Reloading(l)' /\ FirstList(l)'
    BY <1>0, <2>2 DEF Reloading, FirstList
  <2>. QED
    BY <2>4, <2>5, <2>6, <2>7, <2>8 DEF WatchInv
(* Others ask for a report; jobs begin and end; reports are deleted.       *)
<1>2. ASSUME NEW j \in Jobs, Archives!InsertElsewhere(j)
      PROVE  WatchInv'
  <2>1. /\ row[j] = "none" /\ row' = [row EXCEPT ![j] = "active"]
        /\ work' = [work EXCEPT ![j] = "queued"]
        /\ strange' = IF open THEN strange \cup {j} ELSE strange
        /\ UNCHANGED <<open, list, load, asking, dialog, deleting, undone, unseen>>
    BY <1>2 DEF Archives!InsertElsewhere, Archives!Insert
  <2>2. row' \in Lists /\ work' \in Works /\ strange' \subseteq Jobs /\ AtWork'
    BY <1>0, <2>1 DEF AtWork, TabTypes, Lists, Archives!List, Archives!Status, Works
  <2>3. \A k \in Jobs \ undone' : Archives!Rank(row[k]) <= Archives!Rank(row'[k])
    BY <1>0, <1>s, <2>1 DEF TabTypes, Lists, Archives!List
  <2>4. open => Due' \subseteq Due
    BY <1>0, <2>1 DEF Due, TabTypes, Lists, Archives!List
  <2>. QED
    BY <1>0, <2>1, <2>2, <2>3, <2>4, ServerMoves DEF TabTypes, Shut
<1>3. ASSUME NEW j \in Jobs, Archives!Begin(j)
      PROVE  WatchInv'
  <2>1. /\ work[j] = "queued" /\ row' = [row EXCEPT ![j] = "active"]
        /\ work' = [work EXCEPT ![j] = "running"]
        /\ UNCHANGED <<open, list, load, asking, dialog, deleting, strange, undone, unseen>>
    BY <1>3 DEF Archives!Begin
  <2>2. row' \in Lists /\ work' \in Works /\ AtWork'
    BY <1>0, <2>1 DEF AtWork, TabTypes, Lists, Archives!List, Archives!Status, Works
  <2>3. \A k \in Jobs \ undone : row'[k] = row[k]
    BY <1>0, <2>1 DEF AtWork, TabTypes, Lists, Archives!List
  <2>4. \A k \in Jobs \ undone' : Archives!Rank(row[k]) <= Archives!Rank(row'[k])
    BY <1>s, <2>1, <2>3
  <2>5. open => Due' \subseteq Due
    BY <2>1, <2>3 DEF Due
  <2>. QED
    BY <1>0, <2>1, <2>2, <2>4, <2>5, ServerMoves DEF TabTypes, Shut
<1>4. ASSUME NEW j \in Jobs, Archives!JobEnds(j)
      PROVE  WatchInv'
  <2>1. /\ work[j] # "none" /\ row' = [row EXCEPT ![j] = "ended"]
        /\ work' = [work EXCEPT ![j] = "none"]
        /\ UNCHANGED <<open, list, load, asking, dialog, deleting, strange, undone, unseen>>
    BY <1>4 DEF Archives!JobEnds
  <2>2. row' \in Lists /\ work' \in Works /\ AtWork'
    BY <1>0, <2>1 DEF AtWork, TabTypes, Lists, Archives!List, Archives!Status, Works
  <2>3. \A k \in Jobs \ undone : row'[k] = row[k] \/ (row[k] = "active" /\ row'[k] = "ended")
    BY <1>0, <2>1 DEF AtWork, TabTypes, Lists, Archives!List
  <2>4. \A k \in Jobs \ undone' : Archives!Rank(row[k]) <= Archives!Rank(row'[k])
    BY <1>s, <2>1, <2>3
  <2>5. open => Due' \subseteq Due
    BY <2>1, <2>3 DEF Due
  <2>. QED
    BY <1>0, <2>1, <2>2, <2>4, <2>5, ServerMoves DEF TabTypes, Shut
<1>5. ASSUME NEW S \in SUBSET Jobs, Archives!Mark(S), deleting' \in Archives!Stages,
             ~open => deleting' = "idle",
             UNCHANGED <<open, list, load, asking, dialog, unseen>>
      PROVE  WatchInv'
  <2>1. /\ row' = [k \in Jobs |-> IF k \in S THEN "DELETED" ELSE row[k]]
        /\ undone' = undone \cup {k \in S : work[k] # "none"}
        /\ UNCHANGED <<work, strange>>
    BY <1>5 DEF Archives!Mark
  <2>2. row' \in Lists /\ undone' \subseteq Jobs /\ AtWork'
    BY <1>0, <2>1 DEF AtWork, TabTypes, Lists, Archives!List, Archives!Status
  <2>3. \A k \in Jobs : row'[k] = row[k] \/ row'[k] = "DELETED"
    BY <2>1
  <2>4. \A k \in Jobs \ undone' : Archives!Rank(row[k]) <= Archives!Rank(row'[k])
    BY <1>s, <2>3
  <2>5. open => Due' \subseteq Due
    BY <2>1, <2>3 DEF Due
  <2>. QED
    BY <1>0, <1>5, <2>1, <2>2, <2>4, <2>5, ServerMoves DEF TabTypes
<1>6. CASE Archives!Deleted \/ \E j \in Jobs : Archives!DeleteElsewhere(j)
  <2>1. CASE Archives!Deleted
    BY <1>0, <1>5, <2>1 DEF Archives!Deleted, Archives!Stages, TabTypes, Shut
  <2>2. ASSUME NEW j \in Jobs, Archives!DeleteElsewhere(j)
        PROVE  WatchInv'
    BY <1>0, <1>5, <2>2 DEF Archives!DeleteElsewhere, TabTypes, Shut
  <2>. QED
    BY <1>6, <2>1, <2>2
(* What the tab does without the list.                                     *)
<1>7. ASSUME UNCHANGED <<row, work, strange, undone, open, list, load>>,
             asking' \in Archives!Stages, deleting' \in Archives!Stages, unseen' \in BOOLEAN,
             dialog' \subseteq Jobs, Cardinality(dialog') <= 1,
             asking = "reloading" => asking' = "reloading",
             asking = "answered" => unseen' \/ asking' = "answered",
             ~open => asking' = asking /\ deleting' = deleting /\ dialog' = dialog,
             unseen => unseen'
      PROVE  WatchInv'
  <2>1. TabTypes'
    <3>1. TabTypes'
      BY <1>0, <1>7 DEF TabTypes
    <3>. QED
      BY <3>1
  <2>2. NotAhead' /\ AtWork' /\ Shut'
    BY <1>0, <1>7 DEF NotAhead, AtWork, Shut
  <2>3. \A l \in Calls : Reloading(l)' /\ FirstList(l)'
    BY <1>0, <1>7 DEF Reloading, FirstList, Due
  <2>4. Archives!JobIsWatched'
    BY <1>0, <1>7 DEF Archives!JobIsWatched, Archives!Active
  <2>. QED
    BY <2>1, <2>2, <2>3, <2>4 DEF WatchInv
<1>8. ASSUME \/ Archives!Generate \/ Archives!Refused \/ Archives!AnswerLost \/ Archives!CancelDelete
             \/ Archives!ConfirmDelete \/ Archives!DeleteRefused
             \/ \E j \in Jobs : Archives!OpenDelete(j)
             \/ UNCHANGED archivesVars
      PROVE  WatchInv'
  <2>1. UNCHANGED <<row, work, strange, undone, open, list, load>>
    BY <1>8
       DEF Archives!Generate, Archives!Refused, Archives!AnswerLost, Archives!CancelDelete,
           Archives!ConfirmDelete, Archives!DeleteRefused, Archives!OpenDelete, Archives!server,
           archivesVars
  <2>2. /\ \/ asking' = asking /\ unseen' = unseen
           \/ open /\ asking' \in {"idle", "sent"} /\ asking \in {"idle", "sent"} /\ unseen' = unseen
           \/ open /\ asking' = "idle" /\ asking = "answered" /\ unseen' = TRUE
        /\ \/ deleting' = deleting
           \/ open /\ deleting' \in {"idle", "sent"}
    <3>1. CASE Archives!Generate
      BY <3>1 DEF Archives!Generate, Archives!GenerateBar
    <3>2. CASE Archives!Refused \/ Archives!AnswerLost
      BY <1>0, <3>2 DEF Archives!Refused, Archives!AnswerLost, Shut
    <3>3. CASE Archives!ConfirmDelete
      <4>1. dialog # {} /\ deleting' = "sent" /\ UNCHANGED <<asking, unseen>>
        BY <3>3 DEF Archives!ConfirmDelete, Archives!DeleteDialog
      <4>. QED
        BY <1>0, <4>1 DEF Shut
    <3>4. CASE Archives!DeleteRefused
      BY <1>0, <3>4 DEF Archives!DeleteRefused, Shut
    <3>5. CASE Archives!CancelDelete
      BY <3>5 DEF Archives!CancelDelete
    <3>6. CASE \E j \in Jobs : Archives!OpenDelete(j)
      BY <3>6 DEF Archives!OpenDelete
    <3>7. CASE UNCHANGED archivesVars
      BY <3>7 DEF archivesVars
    <3>. QED
      BY <1>8, <3>1, <3>2, <3>3, <3>4, <3>5, <3>6, <3>7
  <2>5. /\ asking' \in Archives!Stages /\ deleting' \in Archives!Stages /\ unseen' \in BOOLEAN
        /\ asking = "reloading" => asking' = "reloading"
        /\ asking = "answered" => unseen' \/ asking' = "answered"
        /\ unseen => unseen'
        /\ ~open => asking' = asking /\ deleting' = deleting
    <3>1. /\ asking \in Archives!Stages /\ deleting \in Archives!Stages
          /\ unseen \in BOOLEAN /\ open \in BOOLEAN
      BY <1>0 DEF TabTypes
    <3>2. deleting' \in Archives!Stages /\ (~open => deleting' = deleting)
      BY <2>2, <3>1 DEF Archives!Stages
    <3>3. CASE asking' = asking /\ unseen' = unseen
      BY <3>1, <3>2, <3>3
    <3>4. CASE open /\ asking' \in {"idle", "sent"} /\ asking \in {"idle", "sent"} /\ unseen' = unseen
      BY <3>1, <3>2, <3>4 DEF Archives!Stages
    <3>5. CASE open /\ asking' = "idle" /\ asking = "answered" /\ unseen' = TRUE
      BY <3>1, <3>2, <3>5 DEF Archives!Stages
    <3>. QED
      BY <2>2, <3>3, <3>4, <3>5
  <2>3. dialog' = dialog \/ dialog' = {} \/ \E j \in Jobs : dialog' = {j}
    BY <1>8
       DEF Archives!Generate, Archives!Refused, Archives!AnswerLost, Archives!CancelDelete,
           Archives!ConfirmDelete, Archives!DeleteRefused, Archives!OpenDelete, archivesVars
  <2>6. ~open => dialog' = dialog
    <3>. SUFFICES ASSUME ~open PROVE dialog' = dialog
      OBVIOUS
    <3>1. dialog = {} /\ \A j \in Jobs : ~Archives!OpenDelete(j)
      BY <1>0, ArchiveTabIs DEF Shut, Archives!OpenDelete, Archives!Deletable
    <3>. QED
      BY <1>8, <3>1
         DEF Archives!Generate, Archives!Refused, Archives!AnswerLost, Archives!CancelDelete,
             Archives!ConfirmDelete, Archives!DeleteRefused, archivesVars
  <2>4. dialog' \subseteq Jobs /\ Cardinality(dialog') <= 1
    BY <1>0, <1>s, <2>3 DEF TabTypes
  <2>. QED
    BY <1>7, <2>1, <2>4, <2>5, <2>6
(* The tab asks for the list.                                              *)
<1>9. ASSUME NEW l \in Calls, NEW p \in {"view", "poll", "generate", "delete"}, Archives!Ask(l, p),
             UNCHANGED <<row, work, strange, undone, open, list, unseen>>, open,
             IF p = "generate" THEN asking = "answered" /\ asking' = "reloading" ELSE asking' = asking,
             deleting' \in Archives!Stages, dialog' \subseteq Jobs, Cardinality(dialog') <= 1
      PROVE  WatchInv'
  <2>1. PICK k \in ListLoads : /\ k.for = p /\ k.at = "sent" /\ k.brings = Archives!Unmade
                              /\ load' = [load EXCEPT ![l] = k]
    BY <1>9, ArchiveTabIs DEF Archives!Ask
  <2>2. load[l].for = "none"
    BY <1>9 DEF Archives!Ask
  <2>3. load' \in [Calls -> ListLoads] /\ load'[l] = k /\ \A m \in Calls \ {l} : load'[m] = load[m]
    BY <1>0, <2>1 DEF TabTypes
  <2>4. NotAhead'
    <3>. SUFFICES ASSUME NEW m \in Calls, NEW j \in Jobs \ undone
                  PROVE  Archives!Rank(load'[m].brings[j]) <= Archives!Rank(row[j])
      BY <1>9 DEF NotAhead
    <3>1. Archives!Rank(row[j]) \in 0..3 /\ Archives!Rank(Archives!Unmade[j]) = 0
      BY <1>s, ArchiveTabIs
    <3>. QED
      BY <1>0, <2>1, <2>3, <3>1 DEF NotAhead
  <2>5. \A m \in Calls : Reloading(m)'
    BY <1>0, <1>9, <2>1, <2>2, <2>3 DEF Reloading, Due
  <2>6. \A m \in Calls : FirstList(m)'
    BY <1>0, <1>9, <2>1, <2>2, <2>3 DEF FirstList, Due
  <2>7. Archives!JobIsWatched'
    BY <1>0, <1>9, <2>1, <2>2, <2>3 DEF Archives!JobIsWatched, Archives!Active
  <2>8. TabTypes'
    <3>1. asking' \in Archives!Stages
      BY <1>0, <1>9 DEF TabTypes, Archives!Stages
    <3>2. TabTypes'
      BY <1>0, <1>9, <2>3, <3>1 DEF TabTypes
    <3>. QED
      BY <3>2
  <2>9. AtWork' /\ Shut'
    BY <1>0, <1>9 DEF AtWork, Shut
  <2>. QED
    BY <2>4, <2>5, <2>6, <2>7, <2>8, <2>9 DEF WatchInv
<1>10. ASSUME NEW l \in Calls,
             Archives!Refresh(l) \/ Archives!Poll(l) \/ Archives!GenerateBack(l) \/ Archives!DeleteBack(l)
      PROVE  WatchInv'
  <2>1. CASE Archives!Refresh(l)
    BY <1>0, <1>9, <2>1 DEF Archives!Refresh, Archives!server, TabTypes
  <2>2. CASE Archives!Poll(l)
    <3>1. open
      BY <1>0, <2>2, ArchiveTabIs DEF Archives!Poll, Archives!Polling, Archives!Active, Shut
    <3>. QED
      BY <1>0, <1>9, <2>2, <3>1 DEF Archives!Poll, Archives!server, TabTypes
  <2>3. CASE Archives!GenerateBack(l)
    <3>1. asking = "answered" /\ open
      BY <1>0, <2>3 DEF Archives!GenerateBack, Shut
    <3>. QED
      BY <1>0, <1>9, <2>3, <3>1 DEF Archives!GenerateBack, Archives!server, TabTypes
  <2>4. CASE Archives!DeleteBack(l)
    <3>1. /\ deleting' \in Archives!Stages /\ dialog' \subseteq Jobs /\ Cardinality(dialog') <= 1
          /\ open
      BY <1>0, <1>s, <2>4 DEF Archives!DeleteBack, Archives!Stages, Shut
    <3>. QED
      BY <1>0, <1>9, <2>4, <3>1 DEF Archives!DeleteBack, Archives!server
  <2>. QED
    BY <1>10, <2>1, <2>2, <2>3, <2>4
(* The server answers.                                                     *)
<1>11. ASSUME NEW l \in Calls, Archives!Serve(l)
       PROVE  WatchInv'
  <2>. DEFINE k == [load[l] EXCEPT !.at = "answered", !.brings = row]
  <2>1. k \in ListLoads /\ k.for = load[l].for /\ k.at = "answered" /\ k.brings = row
    BY <1>0 DEF TabTypes, ListLoads
  <2>2. /\ load' = [load EXCEPT ![l] = k] /\ load[l].for # "none" /\ load[l].at = "sent"
        /\ UNCHANGED <<row, work, strange, undone, open, list, asking, dialog, deleting, unseen>>
    BY <1>11 DEF Archives!Serve, Archives!server
  <2>. HIDE DEF k
  <2>3. load' \in [Calls -> ListLoads] /\ load'[l] = k /\ \A m \in Calls \ {l} : load'[m] = load[m]
    BY <1>0, <2>1, <2>2 DEF TabTypes
  <2>4. NotAhead'
    <3>. SUFFICES ASSUME NEW m \in Calls, NEW j \in Jobs \ undone
                  PROVE  Archives!Rank(load'[m].brings[j]) <= Archives!Rank(row[j])
      BY <2>2 DEF NotAhead
    <3>1. Archives!Rank(row[j]) \in 0..3
      BY <1>s
    <3>. QED
      BY <1>0, <2>1, <2>3, <3>1 DEF NotAhead
  <2>5. \A m \in Calls : load'[m].for = load[m].for
    BY <2>1, <2>3
  <2>6. \A m \in Calls : Reloading(m)'
    BY <1>0, <2>1, <2>2, <2>3, <2>5 DEF Reloading, Due
  <2>7. \A m \in Calls : FirstList(m)'
    BY <1>0, <2>1, <2>2, <2>3, <2>5 DEF FirstList, Due
  <2>8. Archives!JobIsWatched' /\ AtWork' /\ Shut'
    BY <1>0, <2>2, <2>5 DEF Archives!JobIsWatched, Archives!Active, AtWork, Shut
  <2>9. TabTypes'
    <3>1. TabTypes'
      BY <1>0, <2>2, <2>3 DEF TabTypes
    <3>. QED
      BY <3>1
  <2>. QED
    BY <2>4, <2>6, <2>7, <2>8, <2>9 DEF WatchInv
(* A load is over.                                                         *)
<1>12. ASSUME NEW l \in Calls, Archives!Over(l), load[l].for # "none"
       PROVE  /\ load' \in [Calls -> ListLoads] /\ load'[l].for = "none" /\ load'[l].at = "sent"
              /\ \A m \in Calls \ {l} : load'[m] = load[m]
              /\ UNCHANGED <<row, work, strange, undone, open, dialog>>
              /\ asking' = IF load[l].for = "generate" THEN "idle" ELSE asking
              /\ asking' \in Archives!Stages /\ deleting' \in Archives!Stages
              /\ NotAhead' /\ AtWork' /\ Shut' /\ open
  <2>1. /\ asking' = IF load[l].for = "generate" THEN "idle" ELSE asking
        /\ deleting' = IF load[l].for = "delete" THEN "idle" ELSE deleting
        /\ load' = [load EXCEPT ![l] = Archives!NoLoad]
        /\ UNCHANGED <<row, work, strange, undone, open, dialog>>
    BY <1>12 DEF Archives!Over, Archives!server
  <2>2. /\ load' \in [Calls -> ListLoads] /\ load'[l].for = "none" /\ load'[l].at = "sent"
        /\ load'[l].brings = Archives!Unmade
        /\ \A m \in Calls \ {l} : load'[m] = load[m]
    BY <1>0, <2>1, ArchiveTabIs DEF TabTypes
  <2>3. asking' \in Archives!Stages /\ deleting' \in Archives!Stages
    BY <1>0, <2>1 DEF TabTypes, Archives!Stages
  <2>4. NotAhead'
    <3>. SUFFICES ASSUME NEW m \in Calls, NEW j \in Jobs \ undone
                  PROVE  Archives!Rank(load'[m].brings[j]) <= Archives!Rank(row[j])
      BY <2>1 DEF NotAhead
    <3>1. Archives!Rank(row[j]) \in 0..3 /\ Archives!Rank(Archives!Unmade[j]) = 0
      BY <1>s, ArchiveTabIs
    <3>. QED
      BY <1>0, <2>2, <3>1 DEF NotAhead
  <2>5. open
    BY <1>0, <1>12 DEF Shut
  <2>6. AtWork' /\ Shut'
    BY <1>0, <2>1, <2>5 DEF AtWork, Shut
  <2>. QED
    BY <2>1, <2>2, <2>3, <2>4, <2>5, <2>6
<1>13. ASSUME NEW l \in Calls, Archives!LoadBack(l)
       PROVE  WatchInv'
  <2>1. /\ load[l].for # "none" /\ load[l].at = "answered" /\ list' = load[l].brings
        /\ unseen' = (unseen \/ Archives!Older(load[l].brings, list)) /\ Archives!Over(l)
        /\ load[l].brings \in Lists
    BY <1>0, <1>13 DEF Archives!LoadBack, TabTypes, ListLoads
  <2>2. /\ load' \in [Calls -> ListLoads] /\ load'[l].for = "none" /\ load'[l].at = "sent"
        /\ \A m \in Calls \ {l} : load'[m] = load[m]
        /\ UNCHANGED <<row, work, strange, undone, open, dialog>>
        /\ asking' = IF load[l].for = "generate" THEN "idle" ELSE asking
        /\ asking' \in Archives!Stages /\ deleting' \in Archives!Stages
        /\ NotAhead' /\ AtWork' /\ Shut' /\ open
    BY <1>12, <2>1
  <2>3. TabTypes'
    <3>1. unseen' \in BOOLEAN
      BY <1>0, <2>1 DEF TabTypes
    <3>2. TabTypes'
      BY <1>0, <2>1, <2>2, <3>1 DEF TabTypes
    <3>. QED
      BY <3>2
  <2>4. \A m \in Calls : Reloading(m)'
    BY <1>0, <2>1, <2>2 DEF Reloading, Due
  <2>5. ASSUME ~unseen', NEW j \in Due, list[j] = "active"
        PROVE  list'[j] = "active"
    <3>1. /\ load[l].brings[j] \in Archives!Status /\ row[j] = "active" /\ j \in Jobs \ undone
          /\ ~Archives!Older(load[l].brings, list)
      BY <2>1, <2>5 DEF Due, Lists, Archives!List
    <3>2. /\ Archives!Rank(load[l].brings[j]) \in 0..3
          /\ ~(Archives!Rank(load[l].brings[j]) < 1)
          /\ Archives!Rank(load[l].brings[j]) <= 1
      BY <1>0, <1>s, <2>5, <3>1 DEF NotAhead, Archives!Older
    <3>3. Archives!Rank(load[l].brings[j]) = 1
      BY <3>2
    <3>. QED
      BY <2>1, <3>1, <3>3, ArchiveTabIs
  <2>6. ASSUME load[l].for = "generate", NEW j \in Due
        PROVE  list'[j] = "active"
    BY <1>0, <2>1, <2>6 DEF Reloading
  <2>7. \A m \in Calls : FirstList(m)'
    <3>. SUFFICES ASSUME NEW m \in Calls, load'[m].for = "first", load'[m].at = "answered", ~unseen',
                         NEW j \in Due
                  PROVE  \/ load'[m].brings[j] = "active"
                         \/ list'[j] = "active" \/ asking' = "answered"
                         \/ \E k \in Calls : load'[k].for = "generate"
      BY <2>2 DEF FirstList, Due
    <3>1. m # l /\ load'[m] = load[m] /\ ~unseen
      BY <2>1, <2>2
    <3>2. \/ load[m].brings[j] = "active"
          \/ list[j] = "active" \/ asking = "answered"
          \/ \E k \in Calls : load[k].for = "generate"
      BY <1>0, <3>1 DEF FirstList
    <3>3. CASE load[l].for = "generate"
      BY <2>6, <3>3
    <3>4. CASE load[l].for # "generate"
      BY <2>2, <2>5, <3>1, <3>2, <3>4
    <3>. QED
      BY <3>3, <3>4
  <2>8. Archives!JobIsWatched'
    <3>. SUFFICES ASSUME ~unseen', NEW j \in Due
                  PROVE  \/ list'[j] = "active" \/ asking' = "answered"
                         \/ \E m \in Calls : load'[m].for \in {"first", "generate"}
      BY <2>2 DEF Archives!JobIsWatched, Archives!Active, Due
    <3>1. /\ ~unseen /\ j \in Jobs
          /\ \/ list[j] = "active" \/ asking = "answered"
             \/ \E m \in Calls : load[m].for \in {"first", "generate"}
      BY <1>0, <2>1, <2>2 DEF Archives!JobIsWatched, Archives!Active, Due
    <3>2. CASE load[l].for = "generate"
      BY <2>6, <3>2
    <3>3. CASE load[l].for = "first"
      <4>1. \/ list'[j] = "active"
            \/ list[j] = "active" \/ asking = "answered"
            \/ \E k \in Calls : load[k].for = "generate"
        BY <1>0, <2>1, <3>1, <3>3 DEF FirstList
      <4>. QED
        BY <2>2, <2>5, <3>3, <4>1
    <3>4. CASE load[l].for \notin {"first", "generate"}
      BY <2>2, <2>5, <3>1, <3>4
    <3>. QED
      BY <3>2, <3>3, <3>4
  <2>. QED
    BY <2>2, <2>3, <2>4, <2>7, <2>8 DEF WatchInv
<1>14. ASSUME NEW l \in Calls, Archives!LoadLost(l)
       PROVE  WatchInv'
  <2>1. /\ load[l].for # "none" /\ Archives!Over(l) /\ list' = list
        /\ unseen' = (unseen \/ load[l].for # "poll")
    BY <1>14 DEF Archives!LoadLost
  <2>2. /\ load' \in [Calls -> ListLoads] /\ load'[l].for = "none" /\ load'[l].at = "sent"
        /\ \A m \in Calls \ {l} : load'[m] = load[m]
        /\ UNCHANGED <<row, work, strange, undone, open, dialog>>
        /\ asking' = IF load[l].for = "generate" THEN "idle" ELSE asking
        /\ asking' \in Archives!Stages /\ deleting' \in Archives!Stages
        /\ NotAhead' /\ AtWork' /\ Shut' /\ open
    BY <1>12, <2>1
  <2>3. TabTypes'
    <3>1. unseen' \in BOOLEAN
      BY <1>0, <2>1 DEF TabTypes
    <3>2. TabTypes'
      BY <1>0, <2>1, <2>2, <3>1 DEF TabTypes
    <3>. QED
      BY <3>2
  <2>4. \A m \in Calls : Reloading(m)'
    BY <1>0, <2>1, <2>2 DEF Reloading, Due
  <2>5. \A m \in Calls : FirstList(m)'
    <3>1. CASE unseen'
      BY <3>1 DEF FirstList
    <3>2. CASE ~unseen'
      <4>1. load[l].for = "poll" /\ ~unseen /\ asking' = asking
        BY <1>0, <2>1, <2>2, <3>2 DEF TabTypes
      <4>2. ASSUME NEW m \in Calls PROVE FirstList(m)'
        BY <1>0, <2>1, <2>2, <4>1, <4>2 DEF FirstList, Due
      <4>. QED
        BY <4>2
    <3>. QED
      BY <3>1, <3>2
  <2>6. Archives!JobIsWatched'
    BY <1>0, <2>1, <2>2 DEF Archives!JobIsWatched, Archives!Active
  <2>. QED
    BY <2>2, <2>3, <2>4, <2>5, <2>6 DEF WatchInv
(* The tab is left and opened again.                                       *)
<1>15. CASE Archives!Leave
  <2>1. /\ open' = FALSE /\ list' = Archives!Unmade /\ load' = [l \in Calls |-> Archives!NoLoad]
        /\ asking' = "idle" /\ deleting' = "idle" /\ dialog' = {}
        /\ UNCHANGED <<row, work, strange, undone, unseen>>
    BY <1>15 DEF Archives!Leave, Archives!server
  <2>2. /\ load' \in [Calls -> ListLoads]
        /\ \A l \in Calls : load'[l].for = "none" /\ load'[l].brings = Archives!Unmade
    BY <2>1, ArchiveTabIs
  <2>3. NotAhead'
    <3>. SUFFICES ASSUME NEW m \in Calls, NEW j \in Jobs
                  PROVE  Archives!Rank(Archives!Unmade[j]) <= Archives!Rank(row[j])
      BY <2>1, <2>2 DEF NotAhead
    <3>. QED
      BY <1>s, ArchiveTabIs
  <2>4. TabTypes'
    <3>0. dialog' \subseteq Jobs /\ Cardinality(dialog') <= 1
      BY <1>s, <2>1
    <3>1. TabTypes'
      BY <1>0, <2>1, <2>2, <3>0, ArchiveTabIs DEF TabTypes, Archives!Stages
    <3>. QED
      BY <3>1
  <2>5. AtWork' /\ Shut' /\ Archives!JobIsWatched' /\ \A l \in Calls : Reloading(l)' /\ FirstList(l)'
    BY <1>0, <2>1, <2>2 DEF AtWork, Shut, Archives!JobIsWatched, Reloading, FirstList
  <2>. QED
    BY <2>3, <2>4, <2>5 DEF WatchInv
<1>16. ASSUME NEW l \in Calls, Archives!Return(l)
       PROVE  WatchInv'
  <2>1. /\ ~open /\ open' = TRUE /\ load' = Archives!Opened(l)
        /\ strange' = {} /\ unseen' = FALSE
        /\ UNCHANGED <<row, work, list, asking, dialog, deleting, undone>>
    BY <1>16 DEF Archives!Return
  <2>2. /\ load' \in [Calls -> ListLoads] /\ load'[l].for = "first"
        /\ \A m \in Calls : /\ load'[m].for \in {"none", "first"} /\ load'[m].at = "sent"
                            /\ load'[m].brings = Archives!Unmade
    BY <2>1, ArchiveTabIs DEF Archives!Opened
  <2>3. NotAhead'
    <3>. SUFFICES ASSUME NEW m \in Calls, NEW j \in Jobs
                  PROVE  Archives!Rank(Archives!Unmade[j]) <= Archives!Rank(row[j])
      BY <2>1, <2>2 DEF NotAhead
    <3>. QED
      BY <1>s, ArchiveTabIs
  <2>4. TabTypes'
    <3>1. TabTypes'
      BY <1>0, <2>1, <2>2 DEF TabTypes
    <3>. QED
      BY <3>1
  <2>5. AtWork' /\ Shut' /\ Archives!JobIsWatched' /\ \A m \in Calls : Reloading(m)' /\ FirstList(m)'
    BY <1>0, <2>1, <2>2 DEF AtWork, Shut, Archives!JobIsWatched, Reloading, FirstList
  <2>. QED
    BY <2>3, <2>4, <2>5 DEF WatchInv
<1>. QED
  BY <1>1, <1>2, <1>3, <1>4, <1>6, <1>8, <1>10, <1>11, <1>13, <1>14, <1>15, <1>16
     DEF Archives!Next, archivesVars, Archives!archiveTabVars

------------------------------------------------------------------------------
(***************************************************************************)
(* Locations.  The page and the store say the same after each event.       *)
(***************************************************************************)
PlaceInv == Whereabouts!TypeOK /\ Whereabouts!ReloadKeepsLocation

(* What a reload restores, for each way the store was written.             *)
LEMMA RestoredIs ==
  ASSUME NEW s \in Whereabouts!Store
  PROVE  /\ Whereabouts!Restored(s) \in Whereabouts!Place
         /\ ~Whereabouts!Restored(s).loading
         /\ s.status = "none" => Whereabouts!Restored(s) = Whereabouts!At(Nowhere, "prompt", "none")
         /\ s.status = "denied" => Whereabouts!Restored(s) = Whereabouts!At(Nowhere, "denied", "none")
         /\ s.status = "granted" /\ s.coords # Nowhere =>
              Whereabouts!Restored(s) = Whereabouts!At(s.coords, "granted", "GPS")
         /\ s.status = "manual" /\ s.coords # Nowhere /\ s.city # "none" =>
              Whereabouts!Restored(s) = Whereabouts!At(s.coords, "manual", s.city)
BY DEF Whereabouts!Restored, Whereabouts!At, Whereabouts!Store, Whereabouts!Place,
       Whereabouts!Coords

(* A place with nothing loading.                                           *)
LEMMA AtIs ==
  ASSUME NEW k \in Whereabouts!Coords, NEW m \in {"prompt", "granted", "manual", "denied"},
         NEW c \in Cities \cup {"none", "GPS"}
  PROVE  /\ Whereabouts!At(k, m, c) \in Whereabouts!Place
         /\ Whereabouts!At(k, m, c) = [Whereabouts!At(k, m, c) EXCEPT !.loading = FALSE]
<1>1. Whereabouts!At(k, m, c) \in Whereabouts!Place /\ Whereabouts!At(k, m, c).loading = FALSE
  BY DEF Whereabouts!At, Whereabouts!Place
<1>. QED
  BY <1>1 DEF Whereabouts!Place

(* The page starts from the store.                                         *)
LEMMA PlaceInit == Whereabouts!Init => PlaceInv
<1>. SUFFICES ASSUME Whereabouts!Init PROVE PlaceInv
  OBVIOUS
<1>1. store \in Whereabouts!Store
  BY DEF Whereabouts!Init, Whereabouts!Store, Whereabouts!Coords
<1>2. place \in Whereabouts!Place /\ place = Whereabouts!Restored(store) /\ ~place.loading
  BY <1>1, RestoredIs DEF Whereabouts!Init
<1>3. place = [place EXCEPT !.loading = FALSE]
  BY <1>2 DEF Whereabouts!Place
<1>. QED
  BY <1>1, <1>2, <1>3, PagesAssumption
     DEF Whereabouts!Init, PlaceInv, Whereabouts!TypeOK, Whereabouts!ReloadKeepsLocation,
         Whereabouts!LocationAssumption

(* A step of the location.                                                 *)
LEMMA PlaceStep ==
  ASSUME PlaceInv, [Whereabouts!Next]_placeVars
  PROVE  PlaceInv'
<1>0. /\ Spots \cap Cities = {} /\ Nowhere \notin Spots \cup Cities /\ "none" \notin Cities
      /\ MaxAsked \in Nat \ {0} /\ asked \in 0..MaxAsked
      /\ place \in Whereabouts!Place /\ store \in Whereabouts!Store /\ capable \in BOOLEAN
  BY PagesAssumption DEF Whereabouts!LocationAssumption, PlaceInv, Whereabouts!TypeOK
<1>. USE <1>0
<1>1. CASE Whereabouts!Reload
  <2>1. /\ place' = Whereabouts!Restored(store) /\ store' = store /\ capable' = capable
        /\ asked' \in 0..MaxAsked
    BY <1>1 DEF Whereabouts!Reload
  <2>2. place' \in Whereabouts!Place /\ ~place'.loading
    BY <2>1, RestoredIs
  <2>3. place' = [place' EXCEPT !.loading = FALSE]
    BY <2>2 DEF Whereabouts!Place
  <2>. QED
    BY <2>1, <2>2, <2>3 DEF PlaceInv, Whereabouts!TypeOK, Whereabouts!ReloadKeepsLocation
<1>2. CASE Whereabouts!RequestLocation
  <2>1. store' = store /\ capable' = capable
    BY <1>2 DEF Whereabouts!RequestLocation
  <2>2. CASE capable
    <3>1. place' = [place EXCEPT !.loading = TRUE] /\ asked' \in 0..MaxAsked
      BY <1>2, <2>2 DEF Whereabouts!RequestLocation
    <3>2. place' \in Whereabouts!Place /\ [place' EXCEPT !.loading = FALSE] = [place EXCEPT !.loading = FALSE]
      BY <3>1 DEF Whereabouts!Place
    <3>. QED
      BY <2>1, <3>1, <3>2 DEF PlaceInv, Whereabouts!TypeOK, Whereabouts!ReloadKeepsLocation
  <2>3. CASE ~capable
    <3>1. place' = Whereabouts!At(Nowhere, "denied", "none") /\ asked' = asked
      BY <1>2, <2>3 DEF Whereabouts!RequestLocation
    <3>2. place' \in Whereabouts!Place
      BY <3>1, AtIs DEF Whereabouts!Coords
    <3>. QED
      BY <2>1, <2>3, <3>1, <3>2 DEF PlaceInv, Whereabouts!TypeOK, Whereabouts!ReloadKeepsLocation
  <2>. QED
    BY <2>2, <2>3
<1>3. CASE Whereabouts!NotLocated
  <2>1. /\ place' = Whereabouts!At(Nowhere, "denied", "none") /\ store' = [store EXCEPT !.status = "denied"]
        /\ asked' \in 0..MaxAsked /\ capable' = capable
    BY <1>3 DEF Whereabouts!NotLocated
  <2>2. store' \in Whereabouts!Store /\ store'.status = "denied"
    BY <2>1 DEF Whereabouts!Store
  <2>3. place' \in Whereabouts!Place /\ place' = [place' EXCEPT !.loading = FALSE]
    BY <2>1, AtIs DEF Whereabouts!Coords
  <2>4. Whereabouts!Restored(store)' = place'
    BY <2>1, <2>2, RestoredIs
  <2>. QED
    BY <2>1, <2>2, <2>3, <2>4 DEF PlaceInv, Whereabouts!TypeOK, Whereabouts!ReloadKeepsLocation
<1>4. ASSUME NEW s \in Spots, Whereabouts!Located(s)
      PROVE  PlaceInv'
  <2>1. /\ place' = Whereabouts!At(s, "granted", "GPS")
        /\ store' = [status |-> "granted", coords |-> s, city |-> "none"]
        /\ asked' = asked - 1 /\ asked > 0 /\ capable' = capable
    BY <1>4 DEF Whereabouts!Located
  <2>2. store' \in Whereabouts!Store /\ store'.status = "granted" /\ store'.coords = s
    BY <2>1 DEF Whereabouts!Store, Whereabouts!Coords
  <2>3. place' \in Whereabouts!Place /\ place' = [place' EXCEPT !.loading = FALSE]
    BY <2>1, AtIs DEF Whereabouts!Coords
  <2>4. Whereabouts!Restored(store)' = place'
    BY <2>1, <2>2, RestoredIs
  <2>5. asked' \in 0..MaxAsked
    BY <2>1
  <2>. QED
    BY <2>1, <2>2, <2>3, <2>4, <2>5 DEF PlaceInv, Whereabouts!TypeOK, Whereabouts!ReloadKeepsLocation
<1>5. ASSUME NEW c \in Cities, Whereabouts!SetManualLocation(c)
      PROVE  PlaceInv'
  <2>1. /\ place' = Whereabouts!At(c, "manual", c)
        /\ store' = [status |-> "manual", coords |-> c, city |-> c]
        /\ asked' = asked /\ capable' = capable
    BY <1>5 DEF Whereabouts!SetManualLocation
  <2>2. store' \in Whereabouts!Store /\ store'.status = "manual" /\ store'.coords = c /\ store'.city = c
    BY <2>1 DEF Whereabouts!Store, Whereabouts!Coords
  <2>3. place' \in Whereabouts!Place /\ place' = [place' EXCEPT !.loading = FALSE]
    BY <2>1, AtIs DEF Whereabouts!Coords
  <2>4. Whereabouts!Restored(store)' = place'
    BY <2>1, <2>2, RestoredIs
  <2>. QED
    BY <2>1, <2>2, <2>3, <2>4 DEF PlaceInv, Whereabouts!TypeOK, Whereabouts!ReloadKeepsLocation
<1>6. CASE UNCHANGED placeVars
  BY <1>6 DEF placeVars, PlaceInv, Whereabouts!TypeOK, Whereabouts!ReloadKeepsLocation
<1>. QED
  BY <1>1, <1>2, <1>3, <1>4, <1>5, <1>6
     DEF Whereabouts!Next, placeVars, Whereabouts!locationVars

------------------------------------------------------------------------------
(***************************************************************************)
(* Loads.  The last load is under way, or shown, or has failed; and what   *)
(* it asks is what the page is about, unless it was started for what the   *)
(* page was about before.                                                  *)
(***************************************************************************)
Fetches == [kind : {"none", "load", "change"}, of : Questions \cup {0}, number : 0..MaxLoads,
            at : {"sent", "answered", "lost"}, version : 0..MaxWrites, stale : BOOLEAN]

Latest(c) == fetches[c].kind = "load" /\ fetches[c].number = loads

Attentive == page \in {"ProductDetails", "VerifyEmail", "Header"}

LoadOrder(c) ==
  /\ fetches[c].kind # "none" => fetches[c].of \in Questions
  /\ fetches[c].kind = "load" =>
       /\ fetches[c].number \in 1..loads
       /\ fetches[c].stale => fetches[c].number < loads
       /\ Loading!Rules[page].guarded /\ fetches[c].number < loads => fetches[c].stale

Trusted == ~error /\ (crossed => Attentive)

LoadsInv ==
  /\ Loading!TypeOK
  /\ display.number <= loads
  /\ \A c \in Calls : fetches[c].version <= version /\ LoadOrder(c)
  /\ Trusted => display.number = loads \/ \E c \in Calls : Latest(c)
  /\ Trusted /\ display.number = loads => display.of = about /\ display.version >= seen
  /\ Trusted => \A c \in Calls : Latest(c) => Loading!Rules[page].follow \/ fetches[c].of = about
  /\ Attentive => seen = 0 /\ \A c \in Calls : fetches[c].kind # "change"

(* The three pages that ignore answers of before change nothing.           *)
LEMMA AttentiveRules ==
  \A p \in {"ProductDetails", "VerifyEmail", "Header"} :
    Loading!Rules[p].guarded /\ Loading!Rules[p].after = "nothing"
<1>1. /\ Loading!Rules["ProductDetails"] = Loading!ProductDetails
      /\ Loading!Rules["VerifyEmail"] = Loading!VerifyEmail
      /\ Loading!Rules["Header"] = Loading!Header
  BY DEF Loading!Rules
<1>2. Loading!ProductDetails.guarded /\ Loading!ProductDetails.after = "nothing"
  BY DEF Loading!ProductDetails, Loading!View
<1>3. Loading!VerifyEmail.guarded /\ Loading!VerifyEmail.after = "nothing"
  BY DEF Loading!VerifyEmail, Loading!View
<1>4. Loading!Header.guarded /\ Loading!Header.after = "nothing"
  BY DEF Loading!Header, Loading!View
<1>. QED
  BY <1>1, <1>2, <1>3, <1>4

(* A free place.                                                           *)
LEMMA FreeFetchIs ==
  Loading!Free \in Fetches /\ Loading!Free.kind = "none" /\ Loading!Free.version = 0
BY PagesAssumption DEF Loading!LoadsAssumption, Fetches, Loading!Free

(* A load that begins.                                                     *)
LEMMA LoadOfIs ==
  ASSUME NEW q \in Questions, NEW n \in 1..MaxLoads
  PROVE  LET l == Loading!LoadOf(q, n) IN
         l \in Fetches /\ l.kind = "load" /\ l.of = q /\ l.number = n /\ l.version = 0 /\ ~l.stale
<1>1. Loading!Free \in Fetches /\ ~Loading!Free.stale /\ Loading!Free.version = 0
  BY FreeFetchIs DEF Loading!Free
<1>2. n \in 0..MaxLoads
  BY PagesAssumption DEF Loading!LoadsAssumption
<1>3. Loading!LoadOf(q, n) = [[[Loading!Free EXCEPT !.kind = "load"] EXCEPT !.of = q] EXCEPT !.number = n]
  BY <1>1 DEF Loading!LoadOf, Fetches
<1>. HIDE DEF Loading!Free
<1>. QED
  BY <1>1, <1>2, <1>3 DEF Fetches

(* The page opens with its first load.                                     *)
LEMMA LoadsInit == Loading!Init => LoadsInv
<1>. SUFFICES ASSUME Loading!Init PROVE LoadsInv
  OBVIOUS
<1>1. PICK c \in Calls :
        fetches = [d \in Calls |-> IF d = c THEN Loading!LoadOf(about, 1) ELSE Loading!Free]
  BY DEF Loading!Init
<1>2. about \in Questions /\ MaxLoads \in Nat \ {0} /\ 1 \in 1..MaxLoads /\ MaxWrites \in Nat
  BY PagesAssumption DEF Loading!LoadsAssumption, Loading!Init
<1>. DEFINE l == Loading!LoadOf(about, 1)
<1>3. l \in Fetches /\ l.kind = "load" /\ l.of = about /\ l.number = 1 /\ l.version = 0 /\ ~l.stale
      /\ Loading!Free \in Fetches /\ Loading!Free.kind = "none" /\ Loading!Free.version = 0
  BY <1>2, FreeFetchIs, LoadOfIs
<1>4. fetches \in [Calls -> Fetches] /\ fetches[c] = l
      /\ \A d \in Calls \ {c} : fetches[d] = Loading!Free
  BY <1>1, <1>3
<1>5. Loading!TypeOK
  <2>1. display \in Loading!Shown
    BY <1>2 DEF Loading!Init, Loading!Shown, Loading!Nothing
  <2>2. fetches \in [Calls -> Loading!Call]
    BY <1>4 DEF Loading!Call, Fetches
  <2>3. loads \in 1..MaxLoads /\ version \in 0..MaxWrites /\ seen \in 0..version
    BY <1>2 DEF Loading!Init
  <2>. QED
    BY <1>2, <2>1, <2>2, <2>3 DEF Loading!Init, Loading!TypeOK
<1>6. display.number = 0 /\ loads = 1 /\ seen = 0 /\ version = 0 /\ ~error /\ ~crossed
  BY DEF Loading!Init, Loading!Nothing
<1>. HIDE DEF l
<1>. QED
  BY <1>2, <1>3, <1>4, <1>5, <1>6 DEF LoadsInv, LoadOrder, Latest, Trusted

(* What is known of the state.                                             *)
LEMMA LoadsFacts ==
  ASSUME LoadsInv
  PROVE  /\ MaxLoads \in Nat \ {0} /\ MaxWrites \in Nat
         /\ page \in Loading!Pages /\ about \in Questions
         /\ display \in [of : Questions \cup {0}, version : 0..MaxWrites, number : 0..MaxLoads]
         /\ fetches \in [Calls -> Fetches]
         /\ loads \in 1..MaxLoads /\ version \in 0..MaxWrites /\ seen \in 0..version
         /\ error \in BOOLEAN /\ crossed \in BOOLEAN
BY PagesAssumption
   DEF Loading!LoadsAssumption, LoadsInv, Loading!TypeOK, Loading!Shown, Loading!Call, Fetches

(* The next load begins.                                                   *)
LEMMA LoadBegins ==
  ASSUME LoadsInv, NEW c \in Calls, NEW q \in Questions, Loading!StartLoad(c, q),
         page' = page, about' \in Questions, display' = display, version' = version,
         seen' \in 0..version, crossed' \in BOOLEAN,
         Trusted' => Loading!Rules[page].follow \/ about' = q,
         Attentive => seen' = 0
  PROVE  LoadsInv'
<1>0. LoadsInv /\ MaxLoads \in Nat \ {0} /\ MaxWrites \in Nat
      /\ fetches \in [Calls -> Fetches] /\ loads \in 1..MaxLoads /\ version \in 0..MaxWrites
      /\ display.number \in 0..MaxLoads
  BY LoadsFacts
<1>1. loads' = loads + 1 /\ loads' \in 1..MaxLoads /\ error' \in BOOLEAN
  BY <1>0 DEF Loading!StartLoad
<1>. DEFINE l == Loading!LoadOf(q, loads')
<1>2. l \in Fetches /\ l.kind = "load" /\ l.of = q /\ l.number = loads' /\ l.version = 0 /\ ~l.stale
  BY <1>1, LoadOfIs
<1>. HIDE DEF l
<1>3. ASSUME NEW d \in Calls \ {c}
      PROVE  /\ fetches'[d] \in Fetches /\ fetches'[d].kind = fetches[d].kind
             /\ fetches'[d].of = fetches[d].of
             /\ fetches'[d].number = fetches[d].number /\ fetches'[d].version = fetches[d].version
             /\ fetches[d].kind = "load" =>
                  fetches'[d].stale = (fetches[d].stale \/ Loading!Rules[page].guarded)
  <2>1. fetches'[d] = [fetches[d] EXCEPT
          !.stale = (fetches[d].stale \/ (fetches[d].kind = "load" /\ Loading!Rules[page].guarded))]
    BY DEF Loading!StartLoad
  <2>. QED
    BY <1>0, <2>1 DEF Fetches
<1>4. fetches'[c] = l
  BY <1>1 DEF Loading!StartLoad, l
<1>5. fetches' \in [Calls -> Fetches]
  <2>1. \A d \in Calls : fetches'[d] \in Fetches
    BY <1>2, <1>3, <1>4
  <2>2. fetches' = [d \in Calls |-> fetches'[d]]
    BY DEF Loading!StartLoad
  <2>. QED
    BY <2>1, <2>2
<1>6. Loading!TypeOK'
  BY <1>0, <1>1, <1>5, LoadsFacts DEF Loading!TypeOK, Loading!Shown, Loading!Call, Fetches
<1>7. \A d \in Calls : fetches'[d].version <= version' /\ LoadOrder(d)'
  <2>. TAKE d \in Calls
  <2>1. CASE d = c
    BY <1>0, <1>1, <1>2, <1>4, <2>1 DEF LoadOrder
  <2>2. CASE d # c
    BY <1>0, <1>1, <1>3, <2>2 DEF LoadsInv, LoadOrder, Fetches
  <2>. QED
    BY <2>1, <2>2
<1>8. \A d \in Calls : Latest(d)' => d = c
  BY <1>0, <1>1, <1>3 DEF LoadsInv, LoadOrder, Latest, Fetches
<1>9. Latest(c)' /\ fetches'[c].of = q /\ display'.number < loads'
  BY <1>0, <1>1, <1>2, <1>4 DEF LoadsInv, Latest
<1>10. Attentive' => seen' = 0 /\ \A d \in Calls : fetches'[d].kind # "change"
  BY <1>2, <1>3, <1>4 DEF LoadsInv, Attentive
<1>. QED
  BY <1>0, <1>1, <1>6, <1>7, <1>8, <1>9, <1>10 DEF LoadsInv

(* An answer is dealt with, or comes: one request changes, and no load     *)
(* begins.                                                                 *)
LEMMA FetchMoves ==
  ASSUME LoadsInv, NEW c \in Calls, NEW f \in Fetches, fetches' = [fetches EXCEPT ![c] = f],
         page' = page, loads' = loads, about' \in Questions,
         display' \in [of : Questions \cup {0}, version : 0..MaxWrites, number : 0..loads],
         version' \in version..MaxWrites, seen' \in 0..version',
         error' \in BOOLEAN, crossed' \in BOOLEAN,
         f.version <= version', f.kind # "none" => f.of \in Questions,
         f.kind = "load" =>
           /\ fetches[c].kind = "load" /\ f.number = fetches[c].number
           /\ f.of = fetches[c].of /\ f.stale = fetches[c].stale,
         Attentive => f.kind # "change" /\ seen' = 0,
         Trusted' => display'.number = loads \/ \E d \in Calls : Latest(d)',
         Trusted' => Trusted,
         Trusted' /\ display'.number = loads => display'.of = about' /\ display'.version >= seen',
         about' # about => Loading!Rules[page].follow
  PROVE  LoadsInv'
<1>0. LoadsInv /\ MaxLoads \in Nat \ {0} /\ MaxWrites \in Nat
      /\ fetches \in [Calls -> Fetches] /\ loads \in 1..MaxLoads /\ version \in 0..MaxWrites
  BY LoadsFacts
<1>1. /\ fetches' \in [Calls -> Fetches] /\ fetches'[c] = f
      /\ \A d \in Calls \ {c} : fetches'[d] = fetches[d]
  BY <1>0
<1>2. Loading!TypeOK'
  <2>1. display' \in [of : Questions \cup {0}, version : 0..MaxWrites, number : 0..MaxLoads]
    BY <1>0
  <2>2. version' \in 0..MaxWrites
    BY <1>0
  <2>. QED
    BY <1>0, <1>1, <2>1, <2>2, LoadsFacts DEF Loading!TypeOK, Loading!Shown, Loading!Call, Fetches
<1>3. \A d \in Calls : fetches'[d].version <= version' /\ LoadOrder(d)'
  <2>. TAKE d \in Calls
  <2>1. CASE d = c
    BY <1>0, <1>1, <2>1 DEF LoadsInv, LoadOrder
  <2>2. CASE d # c
    BY <1>0, <1>1, <2>2 DEF LoadsInv, LoadOrder, Fetches
  <2>. QED
    BY <2>1, <2>2
<1>4. Trusted' => \A d \in Calls : Latest(d)' => Loading!Rules[page]'.follow \/ fetches'[d].of = about'
  BY <1>0, <1>1 DEF LoadsInv, Latest
<1>5. Attentive' => seen' = 0 /\ \A d \in Calls : fetches'[d].kind # "change"
  BY <1>1 DEF LoadsInv, Attentive
<1>. QED
  BY <1>0, <1>2, <1>3, <1>4, <1>5 DEF LoadsInv

(* A step of a page that loads.                                            *)
LEMMA LoadsStep ==
  ASSUME LoadsInv, [Loading!Next]_viewsVars
  PROVE  LoadsInv'
<1>0. /\ LoadsInv /\ MaxLoads \in Nat \ {0} /\ MaxWrites \in Nat
      /\ page \in Loading!Pages /\ about \in Questions
      /\ display \in [of : Questions \cup {0}, version : 0..MaxWrites, number : 0..MaxLoads]
      /\ fetches \in [Calls -> Fetches]
      /\ loads \in 1..MaxLoads /\ version \in 0..MaxWrites /\ seen \in 0..version
      /\ error \in BOOLEAN /\ crossed \in BOOLEAN
  BY LoadsFacts
<1>1. /\ display.number <= loads
      /\ \A c \in Calls : fetches[c] \in Fetches /\ fetches[c].version <= version /\ LoadOrder(c)
      /\ Trusted => display.number = loads \/ \E c \in Calls : Latest(c)
      /\ Trusted /\ display.number = loads => display.of = about /\ display.version >= seen
      /\ Attentive => seen = 0 /\ \A c \in Calls : fetches[c].kind # "change"
  BY <1>0 DEF LoadsInv
<1>2. Attentive => Loading!Rules[page].guarded /\ Loading!Rules[page].after = "nothing"
  BY AttentiveRules DEF Attentive
<1>3. Loading!Free \in Fetches /\ Loading!Free.kind = "none" /\ Loading!Free.version = 0
  BY FreeFetchIs
<1>4. ASSUME NEW c \in Calls, NEW q \in Questions, Loading!Turn(c, q)
      PROVE  LoadsInv'
  <2>1. /\ Loading!StartLoad(c, q)
        /\ about' = IF Loading!Rules[page].follow THEN about ELSE q
        /\ UNCHANGED <<page, display, version, seen, crossed>>
    BY <1>4 DEF Loading!Turn
  <2>. QED
    BY <1>0, <1>1, <2>1, LoadBegins
<1>5. ASSUME NEW c \in Calls, Loading!Change(c)
      PROVE  LoadsInv'
  <2>. DEFINE f == [Loading!Free EXCEPT !.kind = "change", !.of = about]
  <2>1. f \in Fetches /\ f.kind = "change" /\ f.version = 0 /\ f.of \in Questions
    BY <1>0, <1>3 DEF Fetches
  <2>2. fetches' = [fetches EXCEPT ![c] = f]
    BY <1>5 DEF Loading!Change
  <2>. HIDE DEF f
  <2>3. /\ Loading!Rules[page].after # "nothing" /\ fetches[c].kind = "none"
        /\ UNCHANGED <<page, about, display, loads, version, seen, error, crossed>>
    BY <1>5 DEF Loading!Change
  <2>4. ~Attentive
    BY <1>2, <2>3
  <2>5. Trusted' => display'.number = loads \/ \E d \in Calls : Latest(d)'
    BY <1>0, <1>1, <2>2, <2>3 DEF Latest, Trusted, Attentive
  <2>6. Trusted' <=> Trusted
    BY <2>3 DEF Trusted, Attentive
  <2>7. display' \in [of : Questions \cup {0}, version : 0..MaxWrites, number : 0..loads]
    BY <1>0, <1>1, <2>3
  <2>8. version' \in version..MaxWrites /\ seen' \in 0..version' /\ f.version <= version'
        /\ f.kind # "load"
    BY <1>0, <2>1, <2>3
  <2>. QED
    BY <1>0, <1>1, <2>2, <2>3, <2>1, <2>4, <2>5, <2>6, <2>7, <2>8, FetchMoves
<1>6. ASSUME NEW c \in Calls, Loading!Serve(c) \/ Loading!Lose(c)
      PROVE  LoadsInv'
  <2>1. PICK a \in {"answered", "lost"}, v \in 0..MaxWrites :
          /\ fetches' = [fetches EXCEPT ![c].at = a, ![c].version = v]
          /\ version' \in version..MaxWrites /\ v <= version'
    BY <1>0, <1>6 DEF Loading!Serve, Loading!Lose
  <2>. DEFINE f == [fetches[c] EXCEPT !.at = a, !.version = v]
  <2>2. /\ f \in Fetches /\ f.version = v
        /\ f.kind = fetches[c].kind /\ f.number = fetches[c].number
        /\ f.of = fetches[c].of /\ f.stale = fetches[c].stale
        /\ f.kind # "none" => f.of \in Questions
    BY <1>1 DEF Fetches, LoadOrder
  <2>3. fetches' = [fetches EXCEPT ![c] = f]
    BY <1>0, <2>1
  <2>. HIDE DEF f
  <2>4. UNCHANGED <<page, about, display, loads, seen, error, crossed>>
    BY <1>6 DEF Loading!Serve, Loading!Lose
  <2>5. Trusted' => display'.number = loads \/ \E d \in Calls : Latest(d)'
    BY <1>0, <1>1, <2>2, <2>3, <2>4 DEF Latest, Trusted, Attentive
  <2>6. Trusted' <=> Trusted
    BY <2>4 DEF Trusted, Attentive
  <2>7. display' \in [of : Questions \cup {0}, version : 0..MaxWrites, number : 0..loads]
    BY <1>0, <1>1, <2>4
  <2>8. seen' \in 0..version'
    BY <1>0, <2>1, <2>4
  <2>. QED
    BY <1>0, <1>1, <2>1, <2>2, <2>3, <2>4, <2>5, <2>6, <2>7, <2>8, FetchMoves
<1>7. ASSUME NEW c \in Calls, Loading!Show(c)
      PROVE  LoadsInv'
  <2>1. /\ fetches[c].kind = "load" /\ ~fetches[c].stale
        /\ display' = [of |-> fetches[c].of, version |-> fetches[c].version, number |-> fetches[c].number]
        /\ about' = IF Loading!Rules[page].follow THEN fetches[c].of ELSE about
        /\ crossed' = (crossed \/ fetches[c].number < display.number \/ fetches[c].version < seen)
        /\ fetches' = [fetches EXCEPT ![c] = Loading!Free]
        /\ UNCHANGED <<page, loads, version, seen, error>>
    BY <1>7 DEF Loading!Show, Loading!Over
  <2>2. /\ fetches[c].number \in 1..loads /\ fetches[c].version \in 0..MaxWrites
        /\ fetches[c].of \in Questions
    BY <1>1, <2>1 DEF LoadOrder, Fetches
  <2>3. about' \in Questions /\ (about' # about => Loading!Rules[page].follow)
        /\ display' \in [of : Questions \cup {0}, version : 0..MaxWrites, number : 0..loads]
    BY <1>0, <2>1, <2>2
  <2>4. Trusted' => Trusted /\ fetches[c].number >= display.number /\ fetches[c].version >= seen
    <3>1. CASE Attentive
      <4>1. fetches[c].number = loads /\ seen = 0
        BY <1>0, <1>1, <1>2, <2>1, <2>2, <3>1 DEF LoadOrder
      <4>. QED
        BY <1>0, <1>1, <2>1, <2>2, <3>1, <4>1 DEF Trusted
    <3>2. CASE ~Attentive
      <4>1. Trusted' => ~crossed'
        BY <2>1, <3>2 DEF Trusted, Attentive
      <4>2. ~crossed' => ~crossed /\ ~(fetches[c].number < display.number) /\ ~(fetches[c].version < seen)
        BY <2>1
      <4>3. ASSUME Trusted' PROVE Trusted
        BY <2>1, <4>1, <4>2, <4>3 DEF Trusted
      <4>4. /\ ~(fetches[c].number < display.number) => fetches[c].number >= display.number
            /\ ~(fetches[c].version < seen) => fetches[c].version >= seen
        BY <1>0, <2>2
      <4>. QED
        BY <4>1, <4>2, <4>3, <4>4
    <3>. QED
      BY <3>1, <3>2
  <2>5. Trusted' => display'.number = loads \/ \E d \in Calls : Latest(d)'
    <3>1. ASSUME Trusted', fetches[c].number # loads
          PROVE  \E d \in Calls : Latest(d)'
      <4>1. Trusted /\ display.number # loads
        BY <1>0, <2>2, <2>4, <3>1
      <4>2. PICK d \in Calls : Latest(d)
        BY <1>1, <4>1
      <4>3. d # c /\ Latest(d)'
        BY <1>0, <2>1, <3>1, <4>2 DEF Latest
      <4>. QED
        BY <4>3
    <3>. QED
      BY <2>1, <3>1
  <2>6. Trusted' /\ display'.number = loads => display'.of = about' /\ display'.version >= seen
    <3>1. ASSUME Trusted', fetches[c].number = loads
          PROVE  fetches[c].of = about' /\ fetches[c].version >= seen
      <4>1. Trusted /\ Latest(c)
        BY <2>1, <2>4, <3>1 DEF Latest
      <4>2. fetches[c].of = about'
        BY <2>1, <4>1 DEF LoadsInv
      <4>3. fetches[c].version >= seen
        BY <1>0, <1>1, <2>2, <2>4, <3>1
      <4>. QED
        BY <4>2, <4>3
    <3>. QED
      BY <2>1, <3>1
  <2>7. seen' \in 0..version' /\ crossed' \in BOOLEAN /\ version' \in version..MaxWrites
    BY <1>0, <2>1
  <2>8. Trusted' => Trusted
    BY <2>4
  <2>9. Loading!Free.version <= version' /\ error' \in BOOLEAN
    BY <1>0, <1>3, <2>1
  <2>10. (Attentive => seen' = 0) /\ page' = page /\ loads' = loads /\ seen' = seen
    BY <1>1, <2>1
  <2>. QED
    BY <1>0, <1>3, <2>1, <2>3, <2>5, <2>6, <2>7, <2>8, <2>9, <2>10, FetchMoves
<1>8. ASSUME NEW c \in Calls,
             Loading!Ignore(c) \/ Loading!LoadFails(c) \/ Loading!ChangeFails(c)
      PROVE  LoadsInv'
  <2>1. /\ fetches' = [fetches EXCEPT ![c] = Loading!Free]
        /\ UNCHANGED <<page, about, loads, version, seen, crossed>>
        /\ error' \/ (display' = display /\ error' = error /\ fetches[c].kind = "load" /\ fetches[c].stale)
        /\ error' \in BOOLEAN
    BY <1>0, <1>8 DEF Loading!Ignore, Loading!LoadFails, Loading!ChangeFails, Loading!Over
  <2>2. display' \in [of : Questions \cup {0}, version : 0..MaxWrites, number : 0..loads]
    BY <1>0, <1>1, <1>8
       DEF Loading!Ignore, Loading!LoadFails, Loading!ChangeFails, Loading!Nothing
  <2>3. Trusted' => Trusted /\ display' = display /\ ~Latest(c)
    BY <1>0, <1>1, <2>1 DEF Trusted, Attentive, Latest, LoadOrder, Fetches
  <2>4. \A d \in Calls : d # c /\ Latest(d) => Latest(d)'
    BY <1>0, <2>1 DEF Latest
  <2>5. Trusted' => display'.number = loads \/ \E d \in Calls : Latest(d)'
    BY <1>1, <2>3, <2>4
  <2>6. Trusted' /\ display'.number = loads => display'.of = about' /\ display'.version >= seen'
    BY <1>1, <2>1, <2>3
  <2>7. version' \in version..MaxWrites /\ seen' \in 0..version' /\ Loading!Free.version <= version'
        /\ crossed' \in BOOLEAN /\ about' \in Questions
    BY <1>0, <1>3, <2>1
  <2>8. Attentive => seen' = 0
    BY <1>1, <2>1
  <2>. QED
    BY <1>0, <1>3, <2>1, <2>2, <2>3, <2>5, <2>6, <2>7, <2>8, FetchMoves
<1>9. ASSUME NEW c \in Calls, Loading!ChangeBack(c)
      PROVE  LoadsInv'
  <2>1. /\ fetches[c].kind = "change" /\ ~Attentive
        /\ seen' = IF fetches[c].version > seen THEN fetches[c].version ELSE seen
        /\ UNCHANGED <<page, about, version>>
    BY <1>1, <1>9 DEF Loading!ChangeBack
  <2>2. fetches[c].version \in 0..version /\ fetches[c].of \in Questions /\ seen' \in 0..version
    BY <1>0, <1>1, <2>1 DEF LoadOrder, Fetches
  <2>3. CASE Loading!Rules[page].after = "reload"
    <3>1. /\ Loading!StartLoad(c, fetches[c].of) /\ display' = display
          /\ crossed' = (crossed \/ fetches[c].of # about)
      BY <1>9, <2>3 DEF Loading!ChangeBack
    <3>2. Trusted' => fetches[c].of = about
      BY <2>1, <3>1 DEF Trusted, Attentive
    <3>. QED
      BY <1>0, <2>1, <2>2, <3>1, <3>2, LoadBegins
  <2>4. CASE Loading!Rules[page].after # "reload"
    <3>1. /\ display' = IF display.version < fetches[c].version
                         THEN [display EXCEPT !.version = fetches[c].version] ELSE display
          /\ fetches' = [fetches EXCEPT ![c] = Loading!Free]
          /\ UNCHANGED <<loads, error, crossed>>
      BY <1>9, <2>4 DEF Loading!ChangeBack, Loading!Over
    <3>2. /\ display' \in [of : Questions \cup {0}, version : 0..MaxWrites, number : 0..loads]
          /\ display'.number = display.number /\ display'.of = display.of
          /\ display.version >= seen => display'.version >= seen'
      BY <1>0, <1>1, <2>1, <2>2, <3>1
    <3>3. Trusted' => Trusted
      BY <2>1, <3>1 DEF Trusted, Attentive
    <3>4. \A d \in Calls : Latest(d) => Latest(d)'
      BY <1>0, <2>1, <3>1 DEF Latest
    <3>5. Trusted' => display'.number = loads \/ \E d \in Calls : Latest(d)'
      BY <1>1, <3>2, <3>3, <3>4
    <3>6. Trusted' /\ display'.number = loads => display'.of = about' /\ display'.version >= seen'
      BY <1>1, <2>1, <3>2, <3>3
    <3>7. version' \in version..MaxWrites /\ seen' \in 0..version' /\ Loading!Free.version <= version'
      BY <1>0, <1>3, <2>1, <2>2
    <3>. QED
      BY <1>0, <1>3, <2>1, <3>1, <3>2, <3>3, <3>5, <3>6, <3>7, FetchMoves
  <2>. QED
    BY <2>3, <2>4
<1>10. CASE UNCHANGED viewsVars
  BY <1>10
     DEF viewsVars, LoadsInv, Loading!TypeOK, LoadOrder, Latest, Trusted, Attentive
<1>. QED
  BY <1>4, <1>5, <1>6, <1>7, <1>8, <1>9, <1>10 DEF Loading!Next, viewsVars, Loading!pageVars

------------------------------------------------------------------------------
(***************************************************************************)
(* Expired products.  The dialog that confirmed a deletion stays until its *)
(* answer is dealt with, so the ticks are still those of the click.        *)
(***************************************************************************)
Answering == removal.at \in {"sent", "done", "refused"}

TicksInv ==
  /\ Expiry!TypeOK
  /\ Answering => modal = removal.what /\ modal # Expiry!NoDialog /\ removal.ids = selected
  /\ Expiry!TicksAreKept

(* The sizes of the list and of its pages are numbers.                     *)
LEMMA ItemsAre ==
  /\ \A S : Expiry!Cardinality(S) = Cardinality(S)
  /\ Cardinality(Items) \in Nat /\ PageSize \in Nat \ {0}
  /\ \A S \in SUBSET Items : Cardinality(S) \in Nat /\ Cardinality(S) <= Cardinality(Items)
<1>0. \A S : Expiry!Cardinality(S) = Cardinality(S)
  BY DEF Expiry!Cardinality, Cardinality
<1>1. IsFiniteSet(Items) /\ PageSize \in Nat \ {0}
  BY PagesAssumption DEF Expiry!ExpiredTabAssumption, Expiry!IsFiniteSet, IsFiniteSet
<1>2. Cardinality(Items) \in Nat
  BY <1>1, FS_CardinalityType
<1>3. ASSUME NEW S \in SUBSET Items
      PROVE  Cardinality(S) \in Nat /\ Cardinality(S) <= Cardinality(Items)
  <2>1. IsFiniteSet(S) /\ Cardinality(S) <= Cardinality(Items)
    BY <1>1, FS_Subset
  <2>. QED
    BY <2>1, FS_CardinalityType
<1>. QED
  BY <1>0, <1>1, <1>2, <1>3

(* There are no more pages than rows.                                      *)
LEMMA PagesFit ==
  ASSUME NEW n \in Nat, NEW p \in Nat \ {0}
  PROVE  (n + p - 1) \div p \in 0..n
<1>. DEFINE q == (n + p - 1) \div p
<1>1. q \in Int /\ q * p <= n + p - 1 /\ n + p - 1 < (q + 1) * p
  BY SMT
<1>. HIDE DEF q
<1>2. q >= 0
  BY <1>1
<1>3. q <= n
  BY <1>1
<1>. QED
  BY <1>1, <1>2, <1>3 DEF q

(* What an answer shows.                                                   *)
LEMMA PageIs ==
  ASSUME NEW of \in Expiry!Where, NEW E \in SUBSET Items
  PROVE  /\ Expiry!PageOf(of, E) \in SUBSET Items
         /\ Expiry!PagesOf(of, E) \in 0..Expiry!Cardinality(Items)
<1>1. Expiry!Found(of, E) \in SUBSET Items
  BY DEF Expiry!Found
<1>2. Expiry!PageOf(of, E) \in SUBSET Items
  BY <1>1 DEF Expiry!PageOf
<1>. DEFINE n == Cardinality(Expiry!Found(of, E))
<1>3. n \in Nat /\ n <= Cardinality(Items)
  BY <1>1, ItemsAre
<1>5. Expiry!PagesOf(of, E) = (n + PageSize - 1) \div PageSize
  BY ItemsAre DEF Expiry!PagesOf
<1>. HIDE DEF n
<1>4. (n + PageSize - 1) \div PageSize \in 0..n
  BY <1>3, ItemsAre, PagesFit
<1>. QED
  BY <1>2, <1>3, <1>4, <1>5, ItemsAre

(* Nobody has asked and nothing is deleted; a first page.                  *)
LEMMA NothingExpired ==
  /\ [page |-> 1, searching |-> FALSE] \in Expiry!Where
  /\ Expiry!NoView \in [at : {"none", "sent", "answered", "lost"}, of : Expiry!Where, brings : SUBSET Items]
  /\ Expiry!NoRemoval \in [at : {"none", "sent", "done", "refused", "reloading"}, what : Expiry!Dialogs,
                           ids : SUBSET Items, of : Expiry!Where]
  /\ Expiry!NoRemoval.at = "none" /\ Expiry!NoDialog \in Expiry!Dialogs
<1>1. [page |-> 1, searching |-> FALSE] \in Expiry!Where
  BY DEF Expiry!Where
<1>2. Expiry!NoDialog \in Expiry!Dialogs
  BY DEF Expiry!Dialogs
<1>. QED
  BY <1>1, <1>2 DEF Expiry!NoView, Expiry!NoRemoval

(* Nothing is ticked.                                                      *)
LEMMA TicksInit == Expiry!Init => TicksInv
<1>. SUFFICES ASSUME Expiry!Init PROVE TicksInv
  OBVIOUS
<1>1. view \in [Calls -> [at : {"none", "sent", "answered", "lost"}, of : Expiry!Where, brings : SUBSET Items]]
  BY NothingExpired DEF Expiry!Init
<1>2. item \in [Items -> {"fresh", "expired", "deleted"}]
  BY DEF Expiry!Init
<1>3. listed \in [shows : SUBSET Items, pages : {1} \cup 0..Expiry!Cardinality(Items)]
  BY DEF Expiry!Init
<1>. QED
  BY <1>1, <1>2, <1>3, NothingExpired DEF Expiry!Init, TicksInv, Expiry!TypeOK, Answering, Expiry!TicksAreKept

(* A step of the expired products.                                         *)
LEMMA TicksStep ==
  ASSUME TicksInv, [Expiry!Next]_expiryVars
  PROVE  TicksInv'
<1>. DEFINE Views    == [at : {"none", "sent", "answered", "lost"}, of : Expiry!Where, brings : SUBSET Items]
            Rows     == [shows : SUBSET Items, pages : {1} \cup 0..Expiry!Cardinality(Items)]
            Removals == [at : {"none", "sent", "done", "refused", "reloading"}, what : Expiry!Dialogs,
                         ids : SUBSET Items, of : Expiry!Where]
<1>0. /\ item \in [Items -> {"fresh", "expired", "deleted"}] /\ at \in Expiry!Where
      /\ listed \in Rows /\ view \in [Calls -> Views] /\ turning \in BOOLEAN
      /\ selected \in SUBSET Items /\ ticks = selected
      /\ modal \in Expiry!Dialogs /\ removal \in Removals
      /\ Answering => modal = removal.what /\ modal # Expiry!NoDialog /\ removal.ids = selected
  BY DEF TicksInv, Expiry!TypeOK, Expiry!TicksAreKept
<1>1. /\ Expiry!NoDialog \in Expiry!Dialogs /\ Expiry!NoView \in Views
      /\ Expiry!NoRemoval \in Removals /\ Expiry!NoRemoval.at = "none"
  BY NothingExpired
<1>. HIDE DEF Views, Rows, Removals
<1>2. /\ Expiry!Toolbar # {} => ~Answering
      /\ Expiry!Cards # {} => ~Answering
      /\ ~Expiry!Deleting => ~Answering
  BY <1>0 DEF Expiry!Toolbar, Expiry!Cards, Expiry!Uncovered, Expiry!Deleting, Answering
(* The type of what an action writes is left to show.                      *)
<1>3. ASSUME item' \in [Items -> {"fresh", "expired", "deleted"}], at' \in Expiry!Where,
             listed' \in Rows, view' \in [Calls -> Views], turning' \in BOOLEAN,
             selected' \in SUBSET Items, ticks' = selected', modal' \in Expiry!Dialogs,
             removal' \in Removals,
             Answering' => modal' = removal'.what /\ modal' # Expiry!NoDialog /\ removal'.ids = selected'
      PROVE  TicksInv'
  BY <1>3 DEF TicksInv, Expiry!TypeOK, Expiry!TicksAreKept, Views, Rows, Removals
<1>4. ASSUME NEW v \in Calls, NEW of \in Expiry!Where, Expiry!LoadExpired(v, of)
      PROVE  view' \in [Calls -> Views] /\ turning' \in BOOLEAN
  <2>1. [Expiry!NoView EXCEPT !.at = "sent", !.of = of] \in Views
    BY <1>1 DEF Views
  <2>. QED
    BY <1>0, <1>4, <2>1 DEF Expiry!LoadExpired
<1>5. ASSUME NEW v \in Calls, Expiry!Search(v) \/ \E p \in 1..Expiry!Cardinality(Items) : Expiry!Turn(v, p)
      PROVE  TicksInv'
  <2>1. at' \in Expiry!Where
    <3>1. CASE Expiry!Search(v)
      BY <3>1 DEF Expiry!Search, Expiry!Where
    <3>2. ASSUME NEW p \in 1..Expiry!Cardinality(Items), Expiry!Turn(v, p)
          PROVE  at' \in Expiry!Where
      <4>1. at' = [at EXCEPT !.page = p]
        BY <3>2 DEF Expiry!Turn
      <4>. QED
        BY <1>0, <4>1 DEF Expiry!Where
    <3>. QED
      BY <1>5, <3>1, <3>2
  <2>2. Expiry!LoadExpired(v, at') /\ UNCHANGED <<item, listed, selected, modal, removal, ticks>>
    BY <1>5 DEF Expiry!Search, Expiry!Turn
  <2>3. view' \in [Calls -> Views] /\ turning' \in BOOLEAN
    BY <1>4, <2>1, <2>2
  <2>. QED
    BY <1>0, <1>3, <2>1, <2>2, <2>3 DEF Answering
<1>6. ASSUME NEW ids \in SUBSET Items, Expiry!Select(ids), ~Answering
      PROVE  TicksInv'
  <2>1. selected' = ids /\ ticks' = ids
    BY <1>0, <1>6 DEF Expiry!Select
  <2>2. UNCHANGED <<item, at, listed, view, turning, modal, removal>>
    BY <1>6 DEF Expiry!Select
  <2>. QED
    BY <1>0, <1>3, <1>6, <2>1, <2>2 DEF Answering
<1>7. ASSUME NEW i \in Items, Expiry!ToggleSelectProduct(i)
      PROVE  TicksInv'
  BY <1>0, <1>2, <1>6, <1>7 DEF Expiry!ToggleSelectProduct
<1>8. CASE Expiry!ToggleSelectAllPage \/ Expiry!DeselectAll
  <2>1. listed.shows \subseteq Items
    BY <1>0 DEF Rows
  <2>2. ~Answering
    BY <1>2, <1>8 DEF Expiry!ToggleSelectAllPage, Expiry!DeselectAll
  <2>3. PICK ids \in SUBSET Items : Expiry!Select(ids)
    BY <1>0, <1>8, <2>1 DEF Expiry!ToggleSelectAllPage, Expiry!DeselectAll
  <2>. QED
    BY <1>6, <2>2, <2>3
<1>9. ASSUME NEW m \in Expiry!Dialogs, Expiry!Open(m), ~Answering
      PROVE  TicksInv'
  BY <1>0, <1>3, <1>9 DEF Expiry!Open, Answering
<1>10. ASSUME NEW i \in Items, Expiry!OpenSingle(i)
       PROVE  TicksInv'
  <2>1. <<"single", i>> \in Expiry!Dialogs
    BY DEF Expiry!Dialogs
  <2>. QED
    BY <1>2, <1>9, <1>10, <2>1 DEF Expiry!OpenSingle
<1>11. CASE Expiry!OpenSelected \/ Expiry!OpenAll \/ Expiry!Cancel
  <2>1. <<"selected", 0>> \in Expiry!Dialogs /\ <<"all", 0>> \in Expiry!Dialogs
    BY DEF Expiry!Dialogs
  <2>2. ~Answering
    BY <1>2, <1>11 DEF Expiry!OpenSelected, Expiry!OpenAll, Expiry!Cancel
  <2>3. PICK m \in Expiry!Dialogs : Expiry!Open(m)
    BY <1>1, <1>11, <2>1 DEF Expiry!OpenSelected, Expiry!OpenAll, Expiry!Cancel
  <2>. QED
    BY <1>9, <2>2, <2>3
<1>12. CASE Expiry!Confirm
  <2>1. removal' \in Removals /\ removal'.what = modal /\ removal'.ids = selected
    BY <1>0, <1>12 DEF Expiry!Confirm, Removals
  <2>. QED
    BY <1>0, <1>3, <1>12, <2>1 DEF Expiry!Confirm
<1>13. ASSUME NEW a \in {"done", "refused"}, Expiry!Answer(a), Answering,
              item' \in [Items -> {"fresh", "expired", "deleted"}]
       PROVE  TicksInv'
  <2>1. removal' \in Removals /\ removal'.what = removal.what /\ removal'.ids = removal.ids
    BY <1>0, <1>13 DEF Expiry!Answer, Removals
  <2>. QED
    BY <1>0, <1>3, <1>13, <2>1 DEF Expiry!Answer
<1>14. CASE \/ Expiry!DeleteAllExpired \/ Expiry!DeleteSelectedExpired
            \/ Expiry!DeleteSingleExpired \/ Expiry!RemovalLost
  <2>1. item' \in [Items -> {"fresh", "expired", "deleted"}]
    BY <1>0, <1>14
       DEF Expiry!DeleteAllExpired, Expiry!DeleteSelectedExpired, Expiry!DeleteSingleExpired,
           Expiry!RemovalLost, Expiry!Remove
  <2>2. Answering
    BY <1>14
       DEF Expiry!DeleteAllExpired, Expiry!DeleteSelectedExpired, Expiry!DeleteSingleExpired,
           Expiry!RemovalLost, Answering
  <2>3. PICK a \in {"done", "refused"} : Expiry!Answer(a)
    BY <1>14
       DEF Expiry!DeleteAllExpired, Expiry!DeleteSelectedExpired, Expiry!DeleteSingleExpired,
           Expiry!RemovalLost
  <2>. QED
    BY <1>13, <2>1, <2>2, <2>3
<1>15. ASSUME NEW v \in Calls, Expiry!Removed(v)
       PROVE  TicksInv'
  <2>1. /\ removal.ids = selected /\ removal.what # Expiry!NoDialog
        /\ removal.what \in Expiry!Dialogs /\ removal.of \in Expiry!Where
    BY <1>0, <1>15 DEF Expiry!Removed, Answering, Removals
  <2>2. removal.what[1] \in {"all", "selected", "single"}
    BY <2>1 DEF Expiry!Dialogs, Expiry!NoDialog
  <2>3. selected' \in SUBSET Items /\ ticks' = selected'
    <3>1. CASE removal.what[1] = "all"
      BY <1>15, <3>1 DEF Expiry!Removed
    <3>2. CASE removal.what[1] = "selected"
      BY <1>0, <1>15, <2>1, <3>2 DEF Expiry!Removed
    <3>3. CASE removal.what[1] = "single"
      BY <1>0, <1>15, <2>1, <3>3 DEF Expiry!Removed
    <3>. QED
      BY <2>2, <3>1, <3>2, <3>3
  <2>4. removal' \in Removals /\ removal'.at = "reloading"
    BY <1>1, <1>15 DEF Expiry!Removed, Removals
  <2>5. view' \in [Calls -> Views] /\ turning' \in BOOLEAN
    BY <1>4, <1>15, <2>1 DEF Expiry!Removed
  <2>6. modal' = Expiry!NoDialog /\ UNCHANGED <<item, at, listed>>
    BY <1>15 DEF Expiry!Removed
  <2>. QED
    BY <1>0, <1>1, <1>3, <2>3, <2>4, <2>5, <2>6 DEF Answering
<1>16. CASE Expiry!NotRemoved
  BY <1>0, <1>1, <1>3, <1>16 DEF Expiry!NotRemoved, Answering
<1>17. ASSUME NEW v \in Calls, Expiry!GetExpired(v) \/ Expiry!LoseView(v)
       PROVE  TicksInv'
  <2>1. view' \in [Calls -> Views]
    BY <1>0, <1>17 DEF Expiry!GetExpired, Expiry!LoseView, Expiry!Expired, Views
  <2>2. UNCHANGED <<item, at, listed, turning, selected, modal, removal, ticks>>
    BY <1>17 DEF Expiry!GetExpired, Expiry!LoseView
  <2>. QED
    BY <1>0, <1>3, <2>1, <2>2 DEF Answering
<1>18. ASSUME NEW v \in Calls, Expiry!ViewBack(v)
       PROVE  TicksInv'
  <2>. DEFINE w == view[v]
  <2>1. w.of \in Expiry!Where /\ w.brings \in SUBSET Items
    BY <1>0 DEF Views
  <2>2. listed' \in Rows
    BY <1>0, <1>18, <2>1, PageIs DEF Expiry!ViewBack, Rows
  <2>3. view' \in [Calls -> Views] /\ turning' \in BOOLEAN
    BY <1>0, <1>1, <1>18 DEF Expiry!ViewBack
  <2>4. removal' \in Removals /\ (Answering' => removal' = removal /\ Answering)
    BY <1>0, <1>1, <1>18 DEF Expiry!ViewBack, Answering
  <2>5. UNCHANGED <<item, at, selected, modal, ticks>>
    BY <1>18 DEF Expiry!ViewBack
  <2>. QED
    BY <1>0, <1>3, <2>2, <2>3, <2>4, <2>5
<1>19. ASSUME NEW i \in Items, Expiry!Meanwhile(i)
       PROVE  TicksInv'
  <2>1. item' \in [Items -> {"fresh", "expired", "deleted"}]
    BY <1>0, <1>19 DEF Expiry!Meanwhile
  <2>. QED
    BY <1>0, <1>3, <1>19, <2>1 DEF Expiry!Meanwhile, Answering
<1>20. CASE UNCHANGED expiryVars
  BY <1>0, <1>3, <1>20 DEF expiryVars, Answering
<1>. QED
  BY <1>5, <1>7, <1>8, <1>10, <1>11, <1>12, <1>14, <1>15, <1>16, <1>17, <1>18, <1>19, <1>20
     DEF Expiry!Next, expiryVars, Expiry!expiredTabVars

------------------------------------------------------------------------------
(***************************************************************************)
(* Redirections.  Where one led, no other leads away.                      *)
(***************************************************************************)
AskRecords == [at : {"none", "sent"}, by : {"email", "google", "signup"},
               from : Entry!Froms \cup {"register"}, mounted : BOOLEAN]

EntryShape ==
  /\ path \in Entry!Pages /\ from \in Entry!Froms /\ user \in Entry!Users
  /\ restoring \in BOOLEAN /\ challenge \in BOOLEAN /\ busy \in BOOLEAN /\ leaving \in BOOLEAN
  /\ asks \in [Calls -> AskRecords]
  /\ resetting \in {"form", "sent", "done"} /\ timer \in SUBSET {"login", "sell"}

EntryInv ==
  /\ EntryShape
  /\ hops \in 0..1
  /\ hops = 1 => Entry!Redirects = {}

(* Where redirections lead are pages.                                      *)
LEMMA EntryConstants ==
  /\ Entry!NoAsk \in AskRecords
  /\ \A f \in Entry!Froms, role \in Entry!Users :
       Entry!RedirectPath(role) \in Entry!Pages /\ Entry!Destination(f, role) \in Entry!Pages
BY DEF Entry!NoAsk, AskRecords, Entry!Froms, Entry!Pages, Entry!Users, Entry!Roles,
       Entry!RedirectPath, Entry!Destination

(* Nobody has been sent anywhere.                                          *)
LEMMA EntryInit == Entry!Init => EntryInv
<1>. SUFFICES ASSUME Entry!Init PROVE EntryInv
  OBVIOUS
<1>1. asks \in [Calls -> AskRecords]
  BY EntryConstants DEF Entry!Init
<1>2. EntryShape
  BY <1>1 DEF Entry!Init, EntryShape, Entry!Froms, Entry!Users, Entry!Roles
<1>. QED
  BY <1>2 DEF Entry!Init, EntryInv

(* Where a page sends its visitor, nobody is sent on.                      *)
LEMMA RedirectsOnce ==
  ASSUME EntryShape, NEW r \in Entry!Redirects
  PROVE  /\ r = <<r[1], r[2]>> /\ r[1] \in Entry!Pages /\ r[2] \in Entry!Froms
         /\ user' = user /\ restoring' = restoring /\ path' = r[1] /\ from' = r[2]
              => Entry!Redirects' = {}
<1>. USE DEF EntryShape, Entry!Redirects, Entry!Login, Entry!Register, Entry!AdminRoute, Entry!Sell,
             Entry!SellerOrders, Entry!Profile, Entry!Destination, Entry!RedirectPath,
             Entry!Pages, Entry!Froms, Entry!Users, Entry!Roles
<1>1. CASE path = "login"
  BY <1>1
<1>2. CASE path = "register"
  BY <1>2
<1>3. CASE path \notin {"login", "register"}
  BY <1>3
<1>. QED
  BY <1>1, <1>2, <1>3

(* Another page, or the same one, with what it keeps.                      *)
LEMMA GoKeeps ==
  ASSUME NEW to \in Entry!Pages, NEW f \in Entry!Froms, NEW reqs \in [Calls -> AskRecords],
         Entry!Go(to, f, reqs)
  PROVE  /\ path' \in Entry!Pages /\ from' \in Entry!Froms /\ challenge' \in BOOLEAN
         /\ busy' \in BOOLEAN /\ resetting' \in {"form", "sent", "done"}
         /\ asks' \in [Calls -> AskRecords]
<1>1. asks' = [a \in Calls |-> [reqs[a] EXCEPT !.mounted = FALSE]]
  BY DEF Entry!Go
<1>2. asks' \in [Calls -> AskRecords]
  BY <1>1 DEF AskRecords
<1>. QED
  BY <1>2 DEF Entry!Go

(* A step of the entry pages.                                              *)
LEMMA EntryStep ==
  ASSUME EntryInv, [Entry!Next]_entryVars
  PROVE  EntryInv'
<1>0. /\ EntryShape
      /\ path \in Entry!Pages /\ from \in Entry!Froms /\ user \in Entry!Users
      /\ restoring \in BOOLEAN /\ challenge \in BOOLEAN /\ busy \in BOOLEAN /\ leaving \in BOOLEAN
      /\ asks \in [Calls -> AskRecords]
      /\ resetting \in {"form", "sent", "done"} /\ timer \in SUBSET {"login", "sell"}
  BY DEF EntryInv, EntryShape
<1>. USE <1>0
<1>1. CASE Entry!Redirect
  <2>1. PICK r \in Entry!Redirects : Entry!Go(r[1], r[2], asks)
    BY <1>1 DEF Entry!Redirect
  <2>2. hops' = 1 /\ UNCHANGED <<user, restoring, leaving, timer>>
    BY <1>1, <2>1 DEF Entry!Redirect, EntryInv
  <2>3. path' = r[1] /\ from' = r[2] /\ r[1] \in Entry!Pages /\ r[2] \in Entry!Froms
    BY <2>1, RedirectsOnce DEF Entry!Go
  <2>4. EntryShape'
    BY <2>1, <2>2, <2>3, GoKeeps DEF EntryShape
  <2>5. Entry!Redirects' = {}
    BY <2>2, <2>3, RedirectsOnce
  <2>. QED
    BY <2>2, <2>4, <2>5 DEF EntryInv
<1>2. ASSUME hops' = 0, EntryShape'
      PROVE  EntryInv'
  BY <1>2 DEF EntryInv
<1>3. ASSUME NEW to \in Entry!Pages, NEW f \in Entry!Froms, NEW reqs \in [Calls -> AskRecords],
             Entry!Go(to, f, reqs), hops' = 0, user' \in Entry!Users, restoring' \in BOOLEAN,
             leaving' \in BOOLEAN, timer' \in SUBSET {"login", "sell"}
      PROVE  EntryInv'
  BY <1>2, <1>3, GoKeeps DEF EntryShape
<1>. USE DEF Entry!Event
<1>4. ASSUME NEW to \in Entry!Pages, NEW f \in Entry!Froms, Entry!Visit(to, f)
      PROVE  EntryInv'
  BY <1>3, <1>4 DEF Entry!Visit
<1>5. ASSUME NEW u \in Entry!Roles \cup {"none"}, Entry!SilentRefresh(u)
      PROVE  EntryInv'
  BY <1>2, <1>5 DEF Entry!SilentRefresh, Entry!SetUser, EntryShape, Entry!Users
<1>6. CASE Entry!AuthExpired \/ Entry!Logout \/ Entry!LoggedOut
  BY <1>2, <1>6
     DEF Entry!AuthExpired, Entry!Logout, Entry!LoggedOut, Entry!SetUser, EntryShape, Entry!Users
<1>7. CASE Entry!HandleLogout
  <2>1. "login" \in Entry!Pages /\ "none" \in Entry!Froms
    BY DEF Entry!Pages, Entry!Froms
  <2>. QED
    BY <1>3, <1>7, <2>1 DEF Entry!HandleLogout
<1>8. ASSUME NEW a \in Calls
      PROVE  asks[a] \in AskRecords /\ Entry!Rest(a) \in [Calls -> AskRecords]
  BY EntryConstants DEF Entry!Rest
<1>9. ASSUME NEW a \in Calls, Entry!Submit(a)
      PROVE  EntryInv'
  <2>1. PICK by \in Entry!LoginForm \cup Entry!RegisterForm :
          asks' = [asks EXCEPT ![a] = [at |-> "sent", by |-> by,
                                       from |-> IF path = "login" THEN from ELSE "register",
                                       mounted |-> TRUE]]
    BY <1>9 DEF Entry!Submit
  <2>2. by \in {"email", "google", "signup"}
    BY <2>1 DEF Entry!LoginForm, Entry!RegisterForm
  <2>3. asks' \in [Calls -> AskRecords]
    BY <2>1, <2>2 DEF AskRecords
  <2>. QED
    BY <1>2, <1>9, <2>3 DEF Entry!Submit, EntryShape
<1>10. ASSUME NEW a \in Calls, NEW u \in Entry!Roles, Entry!SignedIn(a, u)
       PROVE  EntryInv'
  <2>1. u \in Entry!Users /\ "none" \in Entry!Froms
    BY DEF Entry!Users, Entry!Froms
  <2>2. (IF Entry!AtRegister(a) THEN Entry!RedirectPath(u) ELSE Entry!Destination(asks[a].from, u))
          \in Entry!Pages
    BY <1>8, <2>1, EntryConstants DEF Entry!AtRegister, AskRecords
  <2>. QED
    BY <1>3, <1>8, <1>10, <2>1, <2>2 DEF Entry!SignedIn
<1>11. ASSUME NEW a \in Calls,
              \/ Entry!Challenged(a) \/ Entry!ChallengedAtRegister(a)
              \/ Entry!Registered(a) \/ Entry!Refused(a)
       PROVE  EntryInv'
  <2>1. asks' = Entry!Rest(a) /\ hops' = 0 /\ UNCHANGED <<path, from, resetting, restoring, leaving>>
    BY <1>11 DEF Entry!Challenged, Entry!ChallengedAtRegister, Entry!Registered, Entry!Refused, Entry!Stay
  <2>2. /\ user' \in Entry!Users /\ challenge' \in BOOLEAN /\ busy' \in BOOLEAN
        /\ timer' \in SUBSET {"login", "sell"}
    BY <1>8, <1>11
       DEF Entry!Challenged, Entry!ChallengedAtRegister, Entry!Registered, Entry!Refused,
           Entry!Idle, Entry!Users
  <2>. QED
    BY <1>2, <1>8, <2>1, <2>2 DEF EntryShape
<1>12. CASE Entry!TwoFactorSuccess
  <2>1. "admin" \in Entry!Users /\ "none" \in Entry!Froms /\ Entry!Destination(from, "admin") \in Entry!Pages
    BY EntryConstants DEF Entry!Users, Entry!Roles, Entry!Froms
  <2>. QED
    BY <1>3, <1>12, <2>1 DEF Entry!TwoFactorSuccess
<1>13. CASE \/ Entry!TwoFactorCancel \/ Entry!SubmitReset \/ Entry!ResetDone
            \/ Entry!ResetRefused \/ Entry!Listed
  BY <1>2, <1>13
     DEF Entry!TwoFactorCancel, Entry!SubmitReset, Entry!ResetDone, Entry!ResetRefused,
         Entry!Listed, Entry!Reset, EntryShape
<1>14. ASSUME NEW to \in {"login", "sell"}, Entry!TimerFires(to)
       PROVE  EntryInv'
  <2>1. to \in Entry!Pages /\ "none" \in Entry!Froms
    BY DEF Entry!Pages, Entry!Froms
  <2>2. CASE path = to
    BY <1>2, <1>14, <2>2 DEF Entry!TimerFires, EntryShape
  <2>3. CASE path # to
    BY <1>3, <1>14, <2>1, <2>3 DEF Entry!TimerFires
  <2>. QED
    BY <2>2, <2>3
<1>15. CASE UNCHANGED entryVars
  BY <1>15 DEF entryVars, EntryInv, EntryShape, Entry!Redirects, Entry!Login, Entry!Register,
               Entry!AdminRoute, Entry!Sell, Entry!SellerOrders, Entry!Profile
<1>. QED
  BY <1>1, <1>4, <1>5, <1>6, <1>7, <1>9, <1>10, <1>11, <1>12, <1>13, <1>14, <1>15
     DEF Entry!Next, entryVars, Entry!entryVars

------------------------------------------------------------------------------
(***************************************************************************)
(* Selling.  The form is usable only by a seller with a telephone, because *)
(* the dialog that asks for it covers the form; and its district is always *)
(* one of the districts offered.                                           *)
(***************************************************************************)
Listable(s) == s.at # "none" => phoned # "no" /\ (s.fits => s.district = s.state)

Settled == latest = {} /\ ~strayed => listOf = form.state

Coming(a) == a \in latest => districts[a].of = form.state /\ districts[a].at # "none" /\ latest = {a}

SellInv ==
  /\ Selling!TypeOK
  /\ auth = "phoned" => phoned # "no"
  /\ auth = "user" => phoneModal
  /\ form.district = listOf
  /\ Settled /\ \A a \in Calls : Coming(a)
  /\ Listable(sent) /\ Listable(listing)

(* Some state comes first.                                                 *)
LEMMA DefaultIs == Selling!Default \in States
BY PagesAssumption DEF Selling!SellAssumption, Selling!Default

(* The form is empty and nothing is listed.                                *)
LEMMA SellInit == Selling!Init => SellInv
<1>. SUFFICES ASSUME Selling!Init PROVE SellInv
  OBVIOUS
<1>1. form \in Selling!Form /\ form.district = listOf /\ listOf \in States
  BY DefaultIs DEF Selling!Init, Selling!Form
<1>2. /\ Selling!NoAsk \in [at : {"none", "sent", "answered", "lost"}, of : States]
      /\ Selling!NotSent \in Selling!Sent /\ Selling!NotSent.at = "none"
  BY DefaultIs DEF Selling!NoAsk, Selling!NotSent, Selling!Sent
<1>3. districts \in [Calls -> [at : {"none", "sent", "answered", "lost"}, of : States]]
  BY <1>2 DEF Selling!Init
<1>. QED
  BY <1>1, <1>2, <1>3 DEF Selling!Init, SellInv, Selling!TypeOK, Listable, Settled, Coming

(* A step of the form.                                                     *)
LEMMA SellStep ==
  ASSUME SellInv, [Selling!Next]_sellVars
  PROVE  SellInv'
<1>0. /\ form \in Selling!Form /\ listOf \in States /\ form.district = listOf
      /\ districts \in [Calls -> [at : {"none", "sent", "answered", "lost"}, of : States]]
      /\ auth \in {"loading", "nobody", "user", "phoned"}
      /\ phoneModal \in BOOLEAN /\ saving \in BOOLEAN /\ locating \in BOOLEAN
      /\ success \in BOOLEAN /\ phoned \in {"no", "blank", "yes"}
      /\ sent \in Selling!Sent /\ listing \in Selling!Sent
      /\ Listable(sent) /\ Listable(listing)
      /\ latest \subseteq Calls /\ strayed \in BOOLEAN /\ Settled /\ \A a \in Calls : Coming(a)
  BY DEF SellInv, Selling!TypeOK
<1>u. ASSUME UNCHANGED <<listOf, districts, latest, strayed>>, form'.state = form.state
      PROVE  Settled' /\ \A a \in Calls : Coming(a)'
  BY <1>0, <1>u DEF Settled, Coming
<1>1. Selling!Usable => phoned # "no"
  BY DEF SellInv, Selling!Usable
<1>2. Selling!NotSent \in Selling!Sent /\ Selling!NotSent.at = "none"
      /\ Selling!NoAsk \in [at : {"none", "sent", "answered", "lost"}, of : States]
  BY DefaultIs DEF Selling!NotSent, Selling!Sent, Selling!NoAsk
<1>3. ASSUME NEW u \in {"nobody", "user", "phoned"}, Selling!Authenticated(u)
      PROVE  SellInv'
  BY <1>0, <1>3, <1>u DEF Selling!Authenticated, Selling!asks, SellInv, Selling!TypeOK, Listable
<1>4. CASE Selling!SavePhone \/ Selling!PhoneSaved \/ Selling!PhoneRefused
  BY <1>0, <1>4, <1>u
     DEF Selling!SavePhone, Selling!PhoneSaved, Selling!PhoneRefused, Selling!PhoneDialog,
         Selling!asks, SellInv, Selling!TypeOK, Listable
<1>5. ASSUME NEW a \in Calls, NEW s \in States, Selling!StateChange(a, s)
      PROVE  SellInv'
  <2>1. form' \in Selling!Form /\ form'.district = form.district /\ form'.state = s
    BY <1>0, <1>5 DEF Selling!StateChange, Selling!Edit, Selling!Form
  <2>2. /\ districts' = [districts EXCEPT ![a] = [at |-> "sent", of |-> s]]
        /\ latest' = {a} /\ strayed' = FALSE
        /\ UNCHANGED <<listOf, auth, phoneModal, saving, locating, sent, success, phoned, listing>>
    BY <1>5 DEF Selling!StateChange, Selling!Edit
  <2>3. /\ districts' \in [Calls -> [at : {"none", "sent", "answered", "lost"}, of : States]]
        /\ districts'[a].of = s /\ districts'[a].at = "sent"
    BY <1>0, <2>2
  <2>4. Settled' /\ \A b \in Calls : Coming(b)'
    BY <2>1, <2>2, <2>3 DEF Settled, Coming
  <2>. QED
    BY <1>0, <2>1, <2>2, <2>3, <2>4 DEF SellInv, Selling!TypeOK, Listable
<1>6. ASSUME NEW a \in Calls, Selling!GetDistricts(a)
      PROVE  SellInv'
  <2>1. PICK to \in {"answered", "lost"} : districts' = [districts EXCEPT ![a].at = to]
    BY <1>6 DEF Selling!GetDistricts
  <2>2. /\ districts[a].at = "sent"
        /\ UNCHANGED <<form, listOf, latest, strayed, auth, phoneModal, saving, locating, sent, success,
                       phoned, listing>>
    BY <1>6 DEF Selling!GetDistricts
  <2>3. /\ districts' \in [Calls -> [at : {"none", "sent", "answered", "lost"}, of : States]]
        /\ districts'[a].of = districts[a].of /\ districts'[a].at # "none"
        /\ \A b \in Calls \ {a} : districts'[b] = districts[b]
    BY <1>0, <2>1
  <2>4. Settled' /\ \A b \in Calls : Coming(b)'
    BY <1>0, <2>2, <2>3 DEF Settled, Coming
  <2>. QED
    BY <1>0, <2>2, <2>3, <2>4 DEF SellInv, Selling!TypeOK, Listable
<1>a. ASSUME NEW a \in Calls, Selling!DistrictsBack(a) \/ Selling!DistrictsLost(a)
      PROVE  SellInv'
  <2>1. /\ districts' = [districts EXCEPT ![a] = Selling!NoAsk] /\ latest' = latest \ {a}
        /\ districts[a].at # "none"
        /\ UNCHANGED <<auth, phoneModal, saving, locating, sent, success, phoned, listing>>
    BY <1>a DEF Selling!DistrictsBack, Selling!DistrictsLost
  <2>2. form' \in Selling!Form /\ listOf' \in States /\ form'.district = listOf'
        /\ form'.state = form.state
    BY <1>0, <1>a DEF Selling!DistrictsBack, Selling!DistrictsLost, Selling!Form
  <2>3. /\ districts' \in [Calls -> [at : {"none", "sent", "answered", "lost"}, of : States]]
        /\ \A b \in Calls \ {a} : districts'[b] = districts[b]
    BY <1>0, <1>2, <2>1
  <2>4. \A b \in Calls : Coming(b)'
    BY <1>0, <2>1, <2>2, <2>3 DEF Coming
  <2>5. Settled'
    <3>1. CASE Selling!DistrictsBack(a)
      BY <1>0, <2>1, <2>2, <3>1 DEF Selling!DistrictsBack, Settled, Coming
    <3>2. CASE Selling!DistrictsLost(a)
      BY <1>0, <2>1, <2>2, <3>2 DEF Selling!DistrictsLost, Settled, Coming
    <3>. QED
      BY <1>a, <3>1, <3>2
  <2>6. strayed' \in BOOLEAN
    BY <1>0, <1>a DEF Selling!DistrictsBack, Selling!DistrictsLost
  <2>. QED
    BY <1>0, <2>1, <2>2, <2>3, <2>4, <2>5, <2>6 DEF SellInv, Selling!TypeOK, Listable
<1>7. CASE Selling!PickDistrict \/ Selling!Type \/ Selling!HandleImage \/ Selling!HandleGPS
           \/ Selling!Located
  <2>1. form' \in Selling!Form /\ form'.district = listOf /\ form'.state = form.state
    BY <1>0, <1>7
       DEF Selling!PickDistrict, Selling!Type, Selling!HandleImage, Selling!HandleGPS,
           Selling!Located, Selling!Edit, Selling!Form
  <2>2. UNCHANGED <<listOf, districts, latest, strayed>>
    BY <1>7
       DEF Selling!PickDistrict, Selling!Type, Selling!HandleImage, Selling!HandleGPS,
           Selling!Located, Selling!asks
  <2>3. UNCHANGED <<auth, phoneModal, saving, sent, success, phoned, listing>> /\ locating' \in BOOLEAN
    BY <1>0, <1>7
       DEF Selling!PickDistrict, Selling!Type, Selling!HandleImage, Selling!HandleGPS,
           Selling!Located, Selling!Edit
  <2>. QED
    BY <1>0, <1>u, <2>1, <2>2, <2>3 DEF SellInv, Selling!TypeOK, Listable
<1>8. CASE Selling!HandleSubmit
  <2>1. sent' \in Selling!Sent /\ Listable(sent)'
    <3>1. CASE Selling!Valid
      <4>1. form.state \in States /\ form.district \in States
        BY <1>0 DEF Selling!Form
      <4>2. /\ phoned # "no" /\ phoned' = phoned
            /\ sent' = [at |-> "sent", state |-> form.state, district |-> form.district,
                        fits |-> latest = {} /\ ~strayed]
        BY <1>1, <1>8, <3>1 DEF Selling!HandleSubmit, Selling!SubmitButton
      <4>. QED
        BY <1>0, <4>1, <4>2 DEF Selling!Sent, Listable, Settled
    <3>2. CASE ~Selling!Valid
      BY <1>2, <1>8, <3>2 DEF Selling!HandleSubmit, Listable
    <3>. QED
      BY <3>1, <3>2
  <2>. QED
    BY <1>0, <1>8, <1>u, <2>1
       DEF Selling!HandleSubmit, Selling!asks, SellInv, Selling!TypeOK, Listable
<1>9. CASE Selling!AddProduct \/ Selling!SubmitBack
  <2>1. /\ sent' \in Selling!Sent /\ listing' \in Selling!Sent
        /\ Listable(sent)' /\ Listable(listing)'
    <3>1. CASE Selling!AddProduct
      BY <1>0, <3>1 DEF Selling!AddProduct, Selling!Sent, Listable
    <3>2. CASE Selling!SubmitBack
      BY <1>0, <1>2, <3>2 DEF Selling!SubmitBack, Listable
    <3>. QED
      BY <1>9, <3>1, <3>2
  <2>2. success' \in BOOLEAN
    BY <1>0, <1>9 DEF Selling!AddProduct, Selling!SubmitBack
  <2>. QED
    BY <1>0, <1>9, <1>u, <2>1, <2>2
       DEF Selling!AddProduct, Selling!SubmitBack, Selling!asks, SellInv, Selling!TypeOK
<1>10. CASE UNCHANGED sellVars
  BY <1>0, <1>u, <1>10 DEF sellVars, SellInv, Selling!TypeOK, Listable
<1>. QED
  BY <1>3, <1>4, <1>5, <1>6, <1>7, <1>8, <1>9, <1>10, <1>a
     DEF Selling!Next, sellVars, Selling!sellVars

------------------------------------------------------------------------------
(***************************************************************************)
(* Complaints.  What is promised is inductive, once an action of the panel *)
(* is known to write what it was made for.                                 *)
(***************************************************************************)
PanelCalls == [at : {"none", "sent", "closed", "done", "failed", "loading", "loaded"},
               op : {"none", "resolve", "status", "delete", "other"},
               of : Reports \cup {"none"}, to : Desk!Statuses \cup Desk!Closings \cup {"none"},
               brings : SUBSET Reports]

Fits(a) ==
  /\ a.op = "resolve" => a.of \in Reports /\ a.to \in Desk!Closings
  /\ a.at = "closed" => a.op = "resolve"
  /\ a.op = "status" => a.to \in Desk!Statuses

DeskInv ==
  /\ Desk!TypeOK
  /\ \A c \in Calls : Fits(action[c])
  /\ Desk!GenuineIsOffSale

(* An action of the panel that has not begun.                              *)
LEMMA NoActionIs ==
  \A s \in {"none", "done", "failed", "loading"} :
    LET a == [Desk!NoCall EXCEPT !.at = s] IN a \in PanelCalls /\ Fits(a) /\ a.at = s
BY DEF Desk!NoCall, PanelCalls, Fits

(* The panel opens with its first load.                                    *)
LEMMA DeskInit == Desk!Init => DeskInv
<1>. SUFFICES ASSUME Desk!Init PROVE DeskInv
  OBVIOUS
<1>0. Desk!NoCall = [Desk!NoCall EXCEPT !.at = "none"]
  BY DEF Desk!NoCall
<1>1. PICK c \in Calls : action = [d \in Calls |-> IF d = c THEN [Desk!NoCall EXCEPT !.at = "loading"]
                                                            ELSE Desk!NoCall]
  BY DEF Desk!Init
<1>2. action \in [Calls -> PanelCalls] /\ \A d \in Calls : Fits(action[d])
  BY <1>0, <1>1, NoActionIs
<1>. QED
  BY <1>2 DEF Desk!Init, DeskInv, Desk!TypeOK, Desk!GenuineIsOffSale, Desk!Statuses, PanelCalls

(* One action of the panel moves on, and closes a complaint or leaves off. *)
LEMMA ActionStep ==
  ASSUME DeskInv, NEW c \in Calls, NEW a \in PanelCalls, Fits(a),
         action' = [action EXCEPT ![c] = a],
         product' \in Desk!Statuses, report' \in [Reports -> {"none", "pending"} \cup Desk!Closings],
         offered' \in SUBSET Reports, cut' \in SUBSET Reports, lifted' \in BOOLEAN, card' = card,
         product' = "active" /\ ~lifted' =>
           /\ product = "active" /\ ~lifted /\ cut \subseteq cut'
           /\ \A r \in Reports : report'[r] = "resolved" =>
                report[r] = "resolved" \/ (a.at = "closed" /\ a.of = r)
           /\ action[c].at = "closed" => action[c].of \in cut'
  PROVE  DeskInv'
<1>1. action' \in [Calls -> PanelCalls] /\ action'[c] = a
      /\ \A d \in Calls \ {c} : action'[d] = action[d]
  BY DEF DeskInv, Desk!TypeOK, PanelCalls
<1>2. Desk!TypeOK'
  BY <1>1 DEF DeskInv, Desk!TypeOK, PanelCalls
<1>3. Desk!GenuineIsOffSale'
  BY <1>1 DEF DeskInv, Desk!GenuineIsOffSale
<1>4. \A d \in Calls : Fits(action[d])'
  BY <1>1 DEF DeskInv, Fits
<1>. QED
  BY <1>2, <1>3, <1>4 DEF DeskInv

(* A step of the complaints.                                               *)
LEMMA DeskStep ==
  ASSUME DeskInv, [Desk!Next]_deskVars
  PROVE  DeskInv'
<1>0. /\ action \in [Calls -> PanelCalls] /\ product \in Desk!Statuses
      /\ report \in [Reports -> {"none", "pending"} \cup Desk!Closings]
      /\ offered \in SUBSET Reports /\ cut \in SUBSET Reports /\ lifted \in BOOLEAN
      /\ card \in [Reports -> {"form", "sent", "reported"}]
      /\ \A c \in Calls : action[c] \in PanelCalls /\ Fits(action[c])
  BY DEF DeskInv, Desk!TypeOK, PanelCalls
<1>1. ASSUME NEW r \in Reports, Desk!HandleReport(r) \/ Desk!ReportProduct(r) \/ Desk!Leave(r)
      PROVE  DeskInv'
  BY <1>0, <1>1
     DEF Desk!HandleReport, Desk!ReportProduct, Desk!Leave, Desk!Card, DeskInv, Desk!TypeOK,
         Desk!GenuineIsOffSale, Fits
<1>2. ASSUME NEW c \in Calls, Desk!RunAction(c)
      PROVE  DeskInv'
  <2>1. PICK b \in Desk!Actions \cup Desk!ProductActions \cup Desk!OtherActions :
          action' = [action EXCEPT ![c] = [b EXCEPT !.at = "sent"]]
    BY <1>2 DEF Desk!RunAction
  <2>. DEFINE a == [b EXCEPT !.at = "sent"]
  <2>2. a \in PanelCalls /\ Fits(a) /\ a.at = "sent"
    <3>1. CASE b \in Desk!Actions
      BY <1>0, <3>1 DEF Desk!Actions, PanelCalls, Fits
    <3>2. CASE b \in Desk!ProductActions
      BY <3>2 DEF Desk!ProductActions, Desk!Statuses, Desk!NoCall, PanelCalls, Fits
    <3>3. CASE b \in Desk!OtherActions
      BY <3>3 DEF Desk!OtherActions, Desk!NoCall, PanelCalls, Fits
    <3>. QED
      BY <2>1, <3>1, <3>2, <3>3
  <2>3. action' = [action EXCEPT ![c] = a]
    BY <2>1
  <2>4. action[c].at = "none" /\ UNCHANGED <<product, report, card, offered, cut, lifted>>
    BY <1>2 DEF Desk!RunAction
  <2>. HIDE DEF a
  <2>. QED
    BY <1>0, <2>2, <2>3, <2>4, ActionStep
<1>3. ASSUME NEW c \in Calls, NEW s \in {"none", "done", "failed", "loading"},
             action' = [action EXCEPT ![c] = [Desk!NoCall EXCEPT !.at = s]]
      PROVE  \E a \in PanelCalls : Fits(a) /\ a.at = s /\ action' = [action EXCEPT ![c] = a]
  BY <1>3, NoActionIs
<1>5. ASSUME NEW c \in Calls, Desk!CloseReport(c)
      PROVE  DeskInv'
  <2>1. /\ action[c].at = "sent" /\ action[c].op = "resolve"
        /\ report' = [report EXCEPT ![action[c].of] = action[c].to]
        /\ UNCHANGED <<product, card, offered, cut, lifted>>
    BY <1>5 DEF Desk!CloseReport
  <2>2. \E a \in PanelCalls :
          /\ Fits(a) /\ action' = [action EXCEPT ![c] = a]
          /\ action[c].to = "resolved" => a.at = "closed" /\ a.of = action[c].of
    <3>1. CASE action[c].to = "resolved"
      <4>. DEFINE a == [action[c] EXCEPT !.at = "closed"]
      <4>1. a \in PanelCalls /\ Fits(a) /\ a.at = "closed" /\ a.of = action[c].of
        BY <1>0, <2>1 DEF PanelCalls, Fits
      <4>2. action' = [action EXCEPT ![c] = a]
        BY <1>0, <1>5, <3>1 DEF Desk!CloseReport, Desk!Move
      <4>. HIDE DEF a
      <4>. QED
        BY <4>1, <4>2
    <3>2. CASE action[c].to # "resolved"
      <4>1. action' = [action EXCEPT ![c] = [Desk!NoCall EXCEPT !.at = "done"]]
        BY <1>5, <3>2 DEF Desk!CloseReport, Desk!Answer
      <4>. QED
        BY <1>3, <3>2, <4>1
    <3>. QED
      BY <3>1, <3>2
  <2>3. report' \in [Reports -> {"none", "pending"} \cup Desk!Closings]
    BY <1>0, <2>1 DEF Fits
  <2>. QED
    BY <1>0, <2>1, <2>2, <2>3, ActionStep DEF Fits
<1>6. ASSUME NEW c \in Calls, Desk!BlockProduct(c)
      PROVE  DeskInv'
  <2>1. /\ action' = [action EXCEPT ![c] = [Desk!NoCall EXCEPT !.at = "done"]]
        /\ product' = "blocked" /\ ~lifted' /\ lifted' \in BOOLEAN /\ cut' \subseteq cut
        /\ UNCHANGED <<report, card, offered>>
    BY <1>6 DEF Desk!BlockProduct, Desk!Answer
  <2>2. PICK a \in PanelCalls : Fits(a) /\ action' = [action EXCEPT ![c] = a]
    BY <1>3, <2>1
  <2>. QED
    BY <1>0, <2>1, <2>2, ActionStep DEF Desk!Statuses
<1>7. ASSUME NEW c \in Calls, Desk!ResolveFails(c)
      PROVE  DeskInv'
  <2>1. /\ action' = [action EXCEPT ![c] = [Desk!NoCall EXCEPT !.at = "failed"]]
        /\ cut' = IF action[c].at = "closed" THEN cut \cup {action[c].of} ELSE cut
        /\ UNCHANGED <<product, report, card, offered, lifted>>
    BY <1>7 DEF Desk!ResolveFails, Desk!Answer
  <2>2. PICK a \in PanelCalls : Fits(a) /\ action' = [action EXCEPT ![c] = a]
    BY <1>3, <2>1
  <2>. QED
    BY <1>0, <2>1, <2>2, ActionStep DEF Fits
<1>8. ASSUME NEW c \in Calls, Desk!UpdateProductStatus(c) \/ Desk!DeleteProduct(c)
      PROVE  DeskInv'
  <2>1. /\ product' \in Desk!Statuses
        /\ product' = "active" => lifted'
        /\ lifted' \in BOOLEAN /\ UNCHANGED <<report, card, offered, cut>>
    BY <1>0, <1>8 DEF Desk!UpdateProductStatus, Desk!DeleteProduct, Desk!Write, Desk!Statuses, Fits
  <2>2. PICK s \in {"done", "failed"} :
          action' = [action EXCEPT ![c] = [Desk!NoCall EXCEPT !.at = s]]
    BY <1>8 DEF Desk!UpdateProductStatus, Desk!DeleteProduct, Desk!Answer
  <2>3. PICK a \in PanelCalls : Fits(a) /\ action' = [action EXCEPT ![c] = a]
    BY <1>3, <2>2
  <2>. QED
    BY <1>0, <2>1, <2>3, ActionStep
<1>9. ASSUME NEW c \in Calls,
             Desk!OtherDone(c) \/ Desk!ActionBack(c) \/ Desk!LoadBack(c) \/ Desk!LoadFails(c)
      PROVE  DeskInv'
  <2>0. Desk!NoCall = [Desk!NoCall EXCEPT !.at = "none"]
    BY DEF Desk!NoCall
  <2>1. /\ action[c].at # "closed" /\ offered' \in SUBSET Reports
        /\ UNCHANGED <<product, report, card, cut, lifted>>
    BY <1>0, <1>9
       DEF Desk!OtherDone, Desk!ActionBack, Desk!LoadBack, Desk!LoadFails, PanelCalls
  <2>2. PICK s \in {"none", "done", "loading"} :
          action' = [action EXCEPT ![c] = [Desk!NoCall EXCEPT !.at = s]]
    BY <1>9, <2>0
       DEF Desk!OtherDone, Desk!ActionBack, Desk!LoadBack, Desk!LoadFails, Desk!Answer
  <2>. QED
    BY <1>0, <1>3, <2>1, <2>2, ActionStep
<1>10. ASSUME NEW c \in Calls, Desk!GetReports(c)
       PROVE  DeskInv'
  <2>1. PICK l \in SUBSET Reports :
          action' = [action EXCEPT ![c].at = "loaded", ![c].brings = l]
    BY <1>10 DEF Desk!GetReports
  <2>. DEFINE a == [action[c] EXCEPT !.at = "loaded", !.brings = l]
  <2>2. a \in PanelCalls /\ Fits(a) /\ action' = [action EXCEPT ![c] = a]
    BY <1>0, <2>1 DEF PanelCalls, Fits
  <2>3. action[c].at = "loading" /\ UNCHANGED <<product, report, card, offered, cut, lifted>>
    BY <1>10 DEF Desk!GetReports
  <2>. HIDE DEF a
  <2>. QED
    BY <1>0, <2>2, <2>3, ActionStep
<1>11. ASSUME NEW s \in Desk!Statuses, Desk!Elsewhere(s)
       PROVE  DeskInv'
  BY <1>0, <1>11
     DEF Desk!Elsewhere, Desk!Write, DeskInv, Desk!TypeOK, Desk!GenuineIsOffSale, Fits
<1>12. CASE UNCHANGED deskVars
  BY <1>12 DEF deskVars, DeskInv, Desk!TypeOK, Desk!GenuineIsOffSale, Fits
<1>. QED
  BY <1>1, <1>2, <1>5, <1>6, <1>7, <1>8, <1>9, <1>10, <1>11, <1>12
     DEF Desk!Next, deskVars, Desk!deskVars

------------------------------------------------------------------------------
(***************************************************************************)
(* All pages.  The one that is open keeps its invariant.                   *)
(***************************************************************************)
PagesInv ==
  /\ part \in Parts
  /\ part = "sign-in" => CodesInv
  /\ part = "archives" => WatchInv
  /\ part = "whereabouts" => PlaceInv
  /\ part = "views" => LoadsInv
  /\ part = "expiry" => TicksInv
  /\ part = "entry" => EntryInv
  /\ part = "selling" => SellInv
  /\ part = "desk" => DeskInv

(* Whichever page opens.                                                   *)
LEMMA PagesInit == Init => PagesInv
BY SignInInit, WatchInit, PlaceInit, LoadsInit, TicksInit, EntryInit, SellInit, DeskInit
   DEF Init, PagesInv

(* The page that is open moves by a step of its own, or stays.             *)
LEMMA PageMoves ==
  ASSUME [Next]_vars
  PROVE  /\ part' = part
         /\ part = "sign-in" => [SignIn!Next]_signInVars
         /\ part = "archives" => [Archives!Next]_archivesVars
         /\ part = "whereabouts" => [Whereabouts!Next]_placeVars
         /\ part = "views" => [Loading!Next]_viewsVars
         /\ part = "expiry" => [Expiry!Next]_expiryVars
         /\ part = "entry" => [Entry!Next]_entryVars
         /\ part = "selling" => [Selling!Next]_sellVars
         /\ part = "desk" => [Desk!Next]_deskVars
<1>1. CASE UNCHANGED vars
  BY <1>1 DEF vars
<1>2. CASE Next
  BY <1>2 DEF Next
<1>. QED
  BY <1>1, <1>2

(* It keeps its invariant.                                                 *)
LEMMA PagesStep == PagesInv /\ [Next]_vars => PagesInv'
<1>. SUFFICES ASSUME PagesInv, [Next]_vars PROVE PagesInv'
  OBVIOUS
<1>1. part' = part /\ part \in Parts
  BY PageMoves DEF PagesInv
<1>2. part = "sign-in" => CodesInv'
  BY PageMoves, CodesStep DEF PagesInv
<1>3. part = "archives" => WatchInv'
  BY PageMoves, WatchStep DEF PagesInv
<1>4. part = "whereabouts" => PlaceInv'
  BY PageMoves, PlaceStep DEF PagesInv
<1>5. part = "views" => LoadsInv'
  BY PageMoves, LoadsStep DEF PagesInv
<1>6. part = "expiry" => TicksInv'
  BY PageMoves, TicksStep DEF PagesInv
<1>7. part = "entry" => EntryInv'
  BY PageMoves, EntryStep DEF PagesInv
<1>8. part = "selling" => SellInv'
  BY PageMoves, SellStep DEF PagesInv
<1>9. part = "desk" => DeskInv'
  BY PageMoves, DeskStep DEF PagesInv
<1>. QED
  BY <1>1, <1>2, <1>3, <1>4, <1>5, <1>6, <1>7, <1>8, <1>9 DEF PagesInv

(* Hence it holds for good, from which the theorems follow.                *)
LEMMA PagesKeep == Spec => []PagesInv
<1>1. Init => PagesInv
  BY PagesInit
<1>2. PagesInv /\ [Next]_vars => PagesInv'
  BY PagesStep
<1>. QED
  BY <1>1, <1>2, PTL DEF Spec

(* The variables of every page keep to their types.                        *)
THEOREM PagesTypeCorrect == Spec => []TypeOK
<1>1. EntryInv => Entry!TypeOK
  BY DEF EntryInv, EntryShape, AskRecords, Entry!TypeOK, Entry!Froms, Entry!Pages, Entry!MaxHops
<1>2. PagesInv => TypeOK
  BY <1>1, TabTypesAre DEF PagesInv, TypeOK, CodesInv, WatchInv, PlaceInv, LoadsInv, TicksInv, SellInv, DeskInv
<1>. QED
  BY <1>2, PagesKeep, PTL

(* AdminSignIn: the recovery codes in force have been on the screen or are *)
(* on their way to it, unless their answer was lost or came to a dialog    *)
(* that had been closed.                                                   *)
THEOREM CodesAreSeen == Spec => []CodesReachTheAdmin
<1>1. PagesInv => CodesReachTheAdmin
  BY DEF PagesInv, CodesInv, CodesReachTheAdmin
<1>. QED
  BY <1>1, PagesKeep, PTL

(* ArchiveTab: a report that is being made is in the list, so that the     *)
(* timer runs, or the answer that will put it there is on its way, though  *)
(* the tab may be left and opened again; except a report inserted for      *)
(* somebody else or for a tab that was left, one that was deleted while it *)
(* was made, and a tab that lost an answer or had one overtaken.           *)
THEOREM JobStaysWatched == Spec => []JobIsWatched
<1>1. PagesInv => JobIsWatched
  BY DEF PagesInv, WatchInv, JobIsWatched
<1>. QED
  BY <1>1, PagesKeep, PTL

(* LocationContext: at any moment a reload would find the visitor where    *)
(* the page has them, with the same consent.                               *)
THEOREM ReloadRestores == Spec => []ReloadKeepsLocation
<1>1. PagesInv => ReloadKeepsLocation
  BY DEF PagesInv, PlaceInv, ReloadKeepsLocation
<1>. QED
  BY <1>1, PagesKeep, PTL

(* PageLoads: a page at rest whose last load did not fail shows the answer *)
(* to what it is about, no older than its own changes, unless answers      *)
(* crossed; three of the thirteen (a product, the verification of an       *)
(* address, the header) whatever answers crossed.                          *)
THEOREM RestingPageAnswers == Spec => []AnswersToTheQuestion
<1>1. LoadsInv => Loading!AnswersToTheQuestion
  <2>. SUFFICES ASSUME LoadsInv, \A c \in Calls : fetches[c] = Loading!Free, ~error,
                       crossed => Attentive
                PROVE  display.of = about /\ display.version >= seen
    BY DEF Loading!AnswersToTheQuestion, Attentive
  <2>1. \A c \in Calls : ~Latest(c)
    BY FreeFetchIs DEF Latest
  <2>2. Trusted
    BY DEF Trusted
  <2>. QED
    BY <2>1, <2>2 DEF LoadsInv
<1>2. PagesInv => AnswersToTheQuestion
  BY <1>1 DEF PagesInv, AnswersToTheQuestion
<1>. QED
  BY <1>2, PagesKeep, PTL

(* ExpiredTab: what is selected is what was ticked and neither taken back  *)
(* nor deleted here, whatever page, search or answer came between.         *)
THEOREM TicksStay == Spec => []TicksAreKept
<1>1. PagesInv => TicksAreKept
  BY DEF PagesInv, TicksInv, TicksAreKept
<1>. QED
  BY <1>1, PagesKeep, PTL

(* EntryPages: whoever is redirected stays where the redirection led until *)
(* something else happens: one hop, never a second.                        *)
THEOREM NobodyGoesInCircles == Spec => []RedirectsEnd
<1>1. PagesInv => RedirectsEnd
  BY DEF PagesInv, EntryInv, RedirectsEnd, Entry!RedirectsEnd
<1>. QED
  BY <1>1, PagesKeep, PTL

(* SellForm: what is listed is of a seller who was asked for a telephone   *)
(* and saved something, be it spaces, and in a district of its state       *)
(* unless it was sent while the answer with the districts was on its way,  *)
(* lost or overtaken.                                                      *)
THEOREM ListingsFit == Spec => []ListedWhereItIs
<1>1. PagesInv => ListedWhereItIs
  BY DEF PagesInv, SellInv, Listable, ListedWhereItIs, Selling!ListedWhereItIs
<1>. QED
  BY <1>1, PagesKeep, PTL

(* DisputeDesk: a product with a complaint found genuine is not on sale,   *)
(* unless its block was cut off or somebody lifted it.                     *)
THEOREM GenuineStaysOffSale == Spec => []GenuineIsOffSale
<1>1. PagesInv => GenuineIsOffSale
  BY DEF PagesInv, DeskInv, GenuineIsOffSale
<1>. QED
  BY <1>1, PagesKeep, PTL
=============================================================================
