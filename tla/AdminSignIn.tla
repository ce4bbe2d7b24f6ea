------------------------------ MODULE AdminSignIn ------------------------------
(***************************************************************************)
(* How an administrator signs in and looks after the second step, as the   *)
(* page sees it: the form of bylot/src/pages/Login.jsx, where AdminRoute   *)
(* sends whoever is not signed in (AdminPanel.jsx has a form of the same   *)
(* handlers, which is never reached), the dialog                           *)
(* components/TwoFactorAuthFlow.jsx, which the form and the settings       *)
(* share, and components/AdminTwoFactorSettings.jsx.  The server answers   *)
(* atomically here; TwoFactor has its statements.                          *)
(* The n-th set of recovery codes the server makes is n; 0 is none.  What  *)
(* is typed is empty, right or wrong.                                      *)
(***************************************************************************)
EXTENDS Naturals, FiniteSets

CONSTANTS
  Calls,     \* requests of the page that can be under way at once
  MaxCodes   \* bound on the sets of recovery codes made

SignInAssumption == MaxCodes \in Nat \ {0}

VARIABLES
  admin,     \* is the user of AuthContext an administrator?
  flow,      \* the open TwoFactorAuthFlow
  signing,   \* loading of Login
  panel,     \* AdminTwoFactorSettings: what statusData says and which modal is up
  acting,    \* its actionLoading
  call,      \* each request: what it asks, of which dialog, and how it stands
  guarded,   \* server: is the second step on?
  codes,     \* server: the set of recovery codes in force
  made,      \* server: how many sets were made
  shown,     \* history: sets that came on the screen
  missed     \* history: sets whose answer was lost, or whose dialog was
             \* closed while they were on their way

signInVars == <<admin, flow, signing, panel, acting, call, guarded, codes, made, shown, missed>>
page   == <<admin, flow, signing, panel, acting>>
server == <<guarded, codes, made>>

Modes == {"none", "verify", "recovery", "setup", "complete"}
Hosts == {"form", "settings", "gone"}   \* gone: settings that have been left
Typed == {"none", "right", "wrong"}
Flow  == [mode : Modes, host : Hosts, purpose : {"login", "setup"}, typed : Typed,
          loading : BOOLEAN, saved : BOOLEAN]
NoFlow == [mode |-> "none", host |-> "form", purpose |-> "login", typed |-> "none",
           loading |-> FALSE, saved |-> FALSE]
Asks  == {"sign-in", "verify-login", "verify-recovery", "verify-setup",
          "initiate", "status", "regenerate", "disable"}
Answers == {"none", "ok", "refused", "invalid", "lost"}
Call == [ask : Asks \cup {"none"}, host : Hosts, right : BOOLEAN, purpose : {"login", "setup"},
         mounted : BOOLEAN, answer : Answers, got : 0..MaxCodes, on : BOOLEAN]
Free == [ask |-> "none", host |-> "form", right |-> FALSE, purpose |-> "login",
         mounted |-> FALSE, answer |-> "none", got |-> 0, on |-> FALSE]

TypeOK ==
  /\ admin \in BOOLEAN /\ signing \in BOOLEAN /\ acting \in BOOLEAN
  /\ flow \in Flow
  /\ panel \in [enabled : BOOLEAN, modal : {"none", "regenerate", "codes", "disable"}]
  /\ call \in [Calls -> Call]
  /\ guarded \in BOOLEAN
  /\ codes \in 0..made /\ made \in 0..MaxCodes
  /\ shown \cup missed \subseteq 1..made

Init ==
  /\ admin = FALSE /\ flow = NoFlow /\ signing = FALSE /\ acting = FALSE
  /\ panel = [enabled |-> FALSE, modal |-> "none"]
  /\ call = [c \in Calls |-> Free]
  /\ guarded = FALSE /\ codes = 0 /\ made = 0
  /\ shown = {} /\ missed = {}

------------------------------------------------------------------------------
(* What can be clicked on each screen.                                     *)

SignInForm == IF signing THEN {} ELSE {"sign-in"}

Submit == IF flow.loading \/ flow.typed = "none" THEN {} ELSE {"verify"}
Boxes  == IF flow.loading THEN {} ELSE {"type"}

SetupCompleteScreen == IF flow.saved THEN {"unconfirm", "continue"} ELSE {"confirm"}
SetupScreen    == {"cancel"} \cup Boxes \cup Submit
RecoveryScreen == {"cancel", "back"} \cup Boxes \cup Submit
VerifyScreen   == {"cancel", "to-recovery"} \cup Boxes \cup Submit

FlowScreen ==
  CASE flow.mode = "complete" -> SetupCompleteScreen
    [] flow.mode = "setup"    -> SetupScreen
    [] flow.mode = "recovery" -> RecoveryScreen
    [] flow.mode = "verify"   -> VerifyScreen
    [] OTHER                  -> {}

StatusCard ==
  IF panel.enabled THEN {"open-regenerate", "open-disable", "refresh"}
  ELSE {"refresh"} \cup (IF acting THEN {} ELSE {"set-up"})

RegenerateModal == {"close"} \cup IF panel.modal = "codes" \/ acting THEN {} ELSE {"regenerate"}

DisableModal == {"close"} \cup IF acting THEN {} ELSE {"disable"}

(* A dialog covers the page below it.                                      *)
PanelScreen ==
  CASE panel.modal \in {"regenerate", "codes"} -> RegenerateModal
    [] panel.modal = "disable"                 -> DisableModal
    [] OTHER                                   -> StatusCard

Clickable ==
  IF flow.mode # "none" THEN FlowScreen ELSE IF admin THEN PanelScreen ELSE SignInForm

------------------------------------------------------------------------------
(* A request leaves; those of the dialog carry what is typed.              *)
Ask(c, ask, host, right) ==
  /\ call[c] = Free
  /\ call' = [call EXCEPT ![c] =
       [Free EXCEPT !.ask = ask, !.host = host, !.right = right,
                    !.purpose = flow.purpose, !.mounted = TRUE]]

(* handleEmailLogin: the password is right or wrong.                       *)
SignIn(c, right) ==
  /\ "sign-in" \in Clickable
  /\ Ask(c, "sign-in", "form", right)
  /\ signing' = TRUE
  /\ UNCHANGED <<admin, flow, panel, acting, server, shown, missed>>

(* handleDigitChange, handlePaste and the recovery field.                  *)
Type(text) ==
  /\ "type" \in Clickable
  /\ flow.typed # text
  /\ flow' = [flow EXCEPT !.typed = text]
  /\ UNCHANGED <<admin, signing, panel, acting, call, server, shown, missed>>

Endpoint == CASE flow.mode = "setup"    -> "verify-setup"
              [] flow.mode = "recovery" -> "verify-recovery"
              [] OTHER                  -> "verify-login"

(* handleVerifyTotp, handleVerifyRecovery, handleVerifySetup.              *)
Verify(c) ==
  /\ "verify" \in Clickable
  /\ Ask(c, Endpoint, flow.host, flow.typed = "right")
  /\ flow' = [flow EXCEPT !.loading = TRUE]
  /\ UNCHANGED <<admin, signing, panel, acting, server, shown, missed>>

SwitchMode ==
  /\ \/ "back" \in Clickable /\ flow' = [flow EXCEPT !.mode = "verify", !.typed = "none"]
     \/ "to-recovery" \in Clickable /\ flow' = [flow EXCEPT !.mode = "recovery", !.typed = "none"]
  /\ UNCHANGED <<admin, signing, panel, acting, call, server, shown, missed>>

OnTheirWay(asks) == {call[c].got : c \in {d \in Calls : call[d].ask \in asks}} \ {0}

Unmounted(host) == [c \in Calls |->
  IF call[c].ask \in {"sign-in", "verify-login", "verify-recovery", "verify-setup"} /\ call[c].host = host
    THEN [call[c] EXCEPT !.mounted = FALSE] ELSE call[c]]

(* A set under way is missed also if it is made after the dialog closed.   *)
CloseFlow ==
  /\ flow' = NoFlow
  /\ call' = Unmounted(flow.host)
  /\ missed' = missed \cup OnTheirWay({"verify-setup"})

Cancel ==
  /\ "cancel" \in Clickable
  /\ CloseFlow
  /\ UNCHANGED <<admin, signing, panel, acting, server, shown>>

Confirm ==
  /\ Clickable \cap {"confirm", "unconfirm"} # {}
  /\ flow' = [flow EXCEPT !.saved = ~@]
  /\ UNCHANGED <<admin, signing, panel, acting, call, server, shown, missed>>

(* fetchStatus, over the place of the request it follows.                  *)
Looking     == [Free EXCEPT !.ask = "status", !.host = "settings"]
ThenLook(c) == call' = [call EXCEPT ![c] = Looking]
Over(c)     == call' = [call EXCEPT ![c] = Free]

(* onSuccess: Login signs in and goes, the settings look again; the dialog *)
(* the host has open by now goes, be it another than the one that          *)
(* succeeded.                                                              *)
Succeed(c, host) ==
  /\ admin' = (admin \/ host = "form")
  /\ flow' = IF flow.host = host THEN NoFlow ELSE flow
  /\ missed' = IF flow.host # host THEN missed
               ELSE missed \cup (OnTheirWay({"verify-setup"}) \ {call[c].got})
  /\ LET others == IF flow.host = host THEN Unmounted(host) ELSE call
     IN call' = [others EXCEPT ![c] = IF host = "settings" THEN Looking ELSE Free]

(* handleFinishSetup.                                                      *)
FinishSetup(c) ==
  /\ "continue" \in Clickable
  /\ call[c] = Free
  /\ Succeed(c, flow.host)
  /\ UNCHANGED <<signing, panel, acting, server, shown>>

------------------------------------------------------------------------------
(* AdminTwoFactorSettings.                                                 *)
Look(c) ==   \* the Refresh button; opening the settings does the same
  /\ "refresh" \in Clickable
  /\ call[c] = Free
  /\ ThenLook(c)
  /\ UNCHANGED <<page, server, shown, missed>>

InitiateSetup(c) ==
  /\ "set-up" \in Clickable
  /\ Ask(c, "initiate", "settings", TRUE)
  /\ acting' = TRUE
  /\ UNCHANGED <<admin, flow, signing, panel, server, shown, missed>>

OpenModal(modal) ==
  /\ \/ modal = "regenerate" /\ "open-regenerate" \in Clickable
     \/ modal = "disable" /\ "open-disable" \in Clickable
  /\ panel' = [panel EXCEPT !.modal = modal]
  /\ UNCHANGED <<admin, flow, signing, acting, call, server, shown, missed>>

CloseModal ==
  /\ "close" \in Clickable
  /\ panel' = [panel EXCEPT !.modal = "none"]
  /\ missed' = missed \cup OnTheirWay({"regenerate"})
  /\ call' = [c \in Calls |-> IF call[c].ask = "regenerate"
                THEN [call[c] EXCEPT !.mounted = FALSE] ELSE call[c]]
  /\ UNCHANGED <<admin, flow, signing, acting, server, shown>>

Act(c, ask, right) ==   \* handleRegenerateCodes, handleDisable2FA
  /\ ask \in {"regenerate", "disable"} /\ ask \in Clickable
  /\ Ask(c, ask, "settings", right)
  /\ acting' = TRUE
  /\ UNCHANGED <<admin, flow, signing, panel, server, shown, missed>>

------------------------------------------------------------------------------
(* The server.                                                             *)
Answer(c, answer, got) ==
  call' = [call EXCEPT ![c].answer = answer, ![c].got = got, ![c].on = guarded]

Pending(c, asks) == call[c].ask \in asks /\ call[c].answer = "none"

(* A challenge for the login, or for the setup when there is none yet.     *)
ServeSignIn(c) ==
  /\ Pending(c, {"sign-in"})
  /\ Answer(c, IF call[c].right THEN "ok" ELSE "refused", 0)
  /\ UNCHANGED <<page, server, shown, missed>>

(* A code of the login: right for a challenge of the login only.           *)
ServeLogin(c) ==
  /\ Pending(c, {"verify-login", "verify-recovery"})
  /\ Answer(c, IF call[c].right /\ call[c].purpose = "login" /\ guarded
                 THEN "ok" ELSE "refused", 0)
  /\ UNCHANGED <<page, server, shown, missed>>

NewCodes(c) ==
  /\ made < MaxCodes   \* bound
  /\ made' = made + 1
  /\ codes' = made + 1
  /\ call' = [call EXCEPT ![c].answer = "ok", ![c].got = made + 1]
  /\ missed' = IF call[c].mounted THEN missed ELSE missed \cup {made + 1}

ServeSetup(c) ==
  /\ Pending(c, {"verify-setup"})
  /\ IF call[c].right
       THEN NewCodes(c) /\ guarded' = TRUE
       ELSE Answer(c, "invalid", 0) /\ UNCHANGED <<server, missed>>
  /\ UNCHANGED <<page, shown>>

ServeRegenerate(c) ==
  /\ Pending(c, {"regenerate"})
  /\ IF call[c].right /\ guarded
       THEN NewCodes(c)
       ELSE Answer(c, "refused", 0) /\ UNCHANGED <<codes, made, missed>>
  /\ UNCHANGED <<page, guarded, shown>>

ServeDisable(c) ==
  /\ Pending(c, {"disable"})
  /\ IF call[c].right /\ guarded
       THEN guarded' = FALSE /\ codes' = 0 /\ Answer(c, "ok", 0)
       ELSE Answer(c, "refused", 0) /\ UNCHANGED <<guarded, codes>>
  /\ UNCHANGED <<page, made, shown, missed>>

ServeLook(c) ==
  /\ Pending(c, {"status", "initiate"})
  /\ Answer(c, "ok", 0)
  /\ UNCHANGED <<page, server, shown, missed>>

(* The connection breaks, before the server's work or after it.            *)
Lose(c) ==
  /\ call[c].ask # "none" /\ call[c].answer # "lost"
  /\ missed' = missed \cup ({call[c].got} \ {0})
  /\ Answer(c, "lost", 0)
  /\ UNCHANGED <<page, server, shown>>

------------------------------------------------------------------------------
Back(c, asks) == call[c].ask \in asks /\ call[c].answer # "none"

OpenFlow(host, purpose, mode) ==
  flow' = [NoFlow EXCEPT !.mode = mode, !.host = host, !.purpose = purpose]

(* handleEmailLogin after its await; nothing opens on a form that was left. *)
SignInBack(c) ==
  /\ Back(c, {"sign-in"})
  /\ signing' = (signing /\ ~call[c].mounted)
  /\ IF call[c].answer = "ok" /\ call[c].mounted /\ ~admin
       THEN IF call[c].on THEN OpenFlow("form", "login", "verify")
                          ELSE OpenFlow("form", "setup", "setup")
       ELSE UNCHANGED flow
  /\ Over(c)
  /\ UNCHANGED <<admin, panel, acting, server, shown, missed>>

(* The dialog after its await: a dialog that is gone shows nothing, but    *)
(* its host is told of a success all the same.                             *)
Settled(c) == IF call[c].mounted THEN [flow EXCEPT !.loading = FALSE, !.typed = "none"] ELSE flow

StraightIn(c) ==   \* mutant: a verified setup goes on like a verified login
  /\ Succeed(c, call[c].host)
  /\ UNCHANGED shown

SetupVerified(c) ==
  /\ IF call[c].mounted
       THEN /\ flow' = [flow EXCEPT !.mode = "complete", !.loading = FALSE]
            /\ shown' = shown \cup {call[c].got}
       ELSE UNCHANGED <<flow, shown>>
  /\ Over(c)
  /\ UNCHANGED <<admin, missed>>

FlowBack(c) ==
  /\ Back(c, {"verify-login", "verify-recovery", "verify-setup"})
  /\ IF call[c].answer = "ok"
       THEN IF call[c].ask = "verify-setup"
              THEN SetupVerified(c)
              ELSE Succeed(c, call[c].host) /\ UNCHANGED shown
       ELSE flow' = Settled(c) /\ Over(c) /\ UNCHANGED <<admin, shown, missed>>
  /\ UNCHANGED <<signing, panel, acting, server>>

(* Another page is opened: the form or the settings go, with their dialog. *)
(* What they asked for goes on.                                            *)
GoneWith == [d \in Calls |->
  IF call[d].ask = "none" THEN Free
  ELSE [call[d] EXCEPT !.host = IF @ = "settings" THEN "gone" ELSE @, !.mounted = FALSE]]

Unmount ==
  /\ flow' = NoFlow
  /\ panel' = [enabled |-> FALSE, modal |-> "none"]
  /\ acting' = FALSE /\ signing' = FALSE
  /\ missed' = missed \cup OnTheirWay({"verify-setup", "regenerate"})
  /\ UNCHANGED <<server, shown>>

Leave ==
  /\ admin \/ signing \/ flow # NoFlow
  /\ Unmount
  /\ call' = GoneWith
  /\ UNCHANGED admin

(* A 401 to the dialog makes apiRequest refresh; when it cannot, the user  *)
(* is signed out (auth:expired), which closes the settings.                *)
FlowExpired(c) ==
  /\ Back(c, {"verify-login", "verify-recovery", "verify-setup"})
  /\ call[c].answer = "refused" /\ admin
  /\ admin' = FALSE
  /\ Unmount
  /\ call' = [GoneWith EXCEPT ![c] = Free]

Here(c, ask) == Back(c, {ask}) /\ call[c].host = "settings"

LeftBack(c) ==   \* what the settings asked that have been left
  /\ Back(c, {"status", "initiate", "regenerate", "disable"}) /\ call[c].host = "gone"
  /\ Over(c)
  /\ UNCHANGED <<page, server, shown, missed>>

LookBack(c) ==
  /\ Here(c, "status")
  /\ panel' = IF call[c].answer = "ok" THEN [panel EXCEPT !.enabled = call[c].on] ELSE panel
  /\ Over(c)
  /\ UNCHANGED <<admin, flow, signing, acting, server, shown, missed>>

(* initiate2FASetup does not say requires2FASetup, so the dialog opens as  *)
(* for a login: it asks verify-login, with the challenge of a setup.       *)
InitiateBack(c) ==
  /\ Here(c, "initiate")
  /\ acting' = FALSE
  /\ IF call[c].answer = "ok" /\ admin THEN OpenFlow("settings", "setup", "verify")
                                       ELSE UNCHANGED flow
  /\ Over(c)
  /\ UNCHANGED <<admin, signing, panel, server, shown, missed>>

(* The new codes stand in the modal, if it is still up.                    *)
RegenerateBack(c) ==
  /\ Here(c, "regenerate")
  /\ acting' = FALSE
  /\ IF call[c].answer = "ok" /\ panel.modal \in {"regenerate", "codes"}
       THEN panel' = [panel EXCEPT !.modal = "codes"] /\ shown' = shown \cup {call[c].got}
       ELSE UNCHANGED <<panel, shown>>
  /\ IF call[c].answer = "ok" THEN ThenLook(c) ELSE Over(c)
  /\ UNCHANGED <<admin, flow, signing, server, missed>>

DisableBack(c) ==
  /\ Here(c, "disable")
  /\ acting' = FALSE
  /\ panel' = IF call[c].answer = "ok" /\ panel.modal = "disable"
                THEN [panel EXCEPT !.modal = "none"] ELSE panel
  /\ IF call[c].answer = "ok" THEN ThenLook(c) ELSE Over(c)
  /\ UNCHANGED <<admin, flow, signing, server, shown, missed>>

------------------------------------------------------------------------------
Next ==
  \/ \E c \in Calls :
       \/ \E right \in BOOLEAN : SignIn(c, right) \/ \E a \in {"regenerate", "disable"} : Act(c, a, right)
       \/ Verify(c) \/ Look(c) \/ InitiateSetup(c) \/ FinishSetup(c)
       \/ ServeSignIn(c) \/ ServeLogin(c) \/ ServeSetup(c) \/ ServeRegenerate(c)
       \/ ServeDisable(c) \/ ServeLook(c) \/ Lose(c)
       \/ SignInBack(c) \/ FlowBack(c) \/ FlowExpired(c) \/ LeftBack(c) \/ LookBack(c)
       \/ InitiateBack(c) \/ RegenerateBack(c) \/ DisableBack(c)
  \/ \E text \in Typed : Type(text)
  \/ \E m \in {"regenerate", "disable"} : OpenModal(m)
  \/ SwitchMode \/ Cancel \/ Confirm \/ CloseModal \/ Leave

Spec == Init /\ [][Next]_signInVars

------------------------------------------------------------------------------
(***************************************************************************)
(* "They will never be shown again" (TwoFactorAuthFlow.jsx): the recovery  *)
(* codes in force have come on the screen or are still on their way to it, *)
(* unless their answer was lost or their dialog closed before it came: the *)
(* administrator closed it, or a late success of an earlier one did.       *)
(***************************************************************************)
CodesReachTheAdmin ==
  codes \in {0} \cup shown \cup missed \cup OnTheirWay({"verify-setup", "regenerate"})
=============================================================================
