---------------------------- MODULE EmailAccounts ----------------------------
(***************************************************************************)
(* The account of one e-mail address (backend/controllers/                 *)
(* authController.js over backend/models/userModel.js): registration,      *)
(* verification by a mailed link, sign-in with Google, a new password by a *)
(* mailed link.  Each handler reads the row, then writes it; requests of   *)
(* anybody overlap.  Only the owner of the mailbox, or of the Google       *)
(* account, can use what is mailed or verified there.  A request's secret  *)
(* (its link, its password) is named by the request.                       *)
(***************************************************************************)
EXTENDS Naturals

CONSTANTS
  Requests,  \* requests ever made
  None       \* no password, no link

AccountAssumption == None \notin Requests

VARIABLES
  user,    \* the row of table users, if it exists
  request, \* each request: what it does, where it stands, what it has read
  mailed,  \* requests whose link reached the mailbox
  proven   \* history: the password in the row was chosen, or approved by
           \* verifying the address, by the owner of the mailbox; or the server
           \* took the address for verified when it was registered

vars == <<user, request, mailed, proven>>

Secret == Requests \cup {None}
Row    == [exists : BOOLEAN, password : Secret, verified : BOOLEAN, google : BOOLEAN,
           link : Secret, reset : Secret]
NoRow  == [exists |-> FALSE, password |-> None, verified |-> FALSE, google |-> FALSE,
           link |-> None, reset |-> None]

Steps == {"new", "registering", "linking", "creating", "verifying", "renewing",
          "preparing", "changing", "mailing", "done"}
Fresh == [pc |-> "new", unproved |-> FALSE]

TypeOK ==
  /\ user \in Row
  /\ ~user.exists => user = NoRow
  /\ request \in [Requests -> [pc : Steps, unproved : BOOLEAN]]
  /\ mailed \subseteq Requests
  /\ proven \in BOOLEAN

Init ==
  /\ user = NoRow
  /\ request = [r \in Requests |-> Fresh]
  /\ mailed = {}
  /\ proven = FALSE

Goto(r, step) == request' = [request EXCEPT ![r].pc = step]

At(r, step) == request[r].pc = step

------------------------------------------------------------------------------
(* register: findUserByEmail; a known address only gets a mail of another  *)
(* kind.                                                                   *)
Register(r) ==
  /\ At(r, "new")
  /\ Goto(r, IF user.exists THEN "done" ELSE "registering")
  /\ UNCHANGED <<user, mailed, proven>>

(* createUser after hashPassword; the address is unique, so the second of  *)
(* two INSERTs fails.  autoVerified: development without a mail server,    *)
(* where nobody has to prove the address, so the password passes for his.  *)
InsertRegistered(r, autoVerified) ==
  /\ At(r, "registering")
  /\ IF user.exists
       THEN UNCHANGED <<user, proven>> /\ Goto(r, "done")
       ELSE /\ user' = [NoRow EXCEPT !.exists = TRUE, !.password = r, !.link = r,
                                     !.verified = autoVerified]
            /\ proven' = autoVerified
            /\ Goto(r, "mailing")
  /\ UNCHANGED mailed

(* sendVerificationEmail or sendPasswordResetEmail; a mail may get lost.   *)
Mail(r, sent) ==
  /\ At(r, "mailing")
  /\ mailed' = IF sent THEN mailed \cup {r} ELSE mailed
  /\ Goto(r, "done")
  /\ UNCHANGED <<user, proven>>

(* googleLogin: verifyGoogleIdToken, then the row by google_id or e-mail.  *)
GoogleLogin(r) ==
  /\ At(r, "new")
  /\ request' = [request EXCEPT
       ![r] = [pc |-> IF user.exists THEN "linking" ELSE "creating",
               unproved |-> ~user.verified /\ user.password # None]]
  /\ UNCHANGED <<user, mailed, proven>>

InsertGoogle(r) ==
  /\ At(r, "creating")
  /\ IF user.exists
       THEN UNCHANGED <<user, proven>>
       ELSE /\ user' = [NoRow EXCEPT !.exists = TRUE, !.google = TRUE, !.verified = TRUE]
            /\ proven' = FALSE
  /\ Goto(r, "done")
  /\ UNCHANGED mailed

(* Mutant: the password stays.                                             *)
LinkGoogleOnly(r) ==
  /\ At(r, "linking")
  /\ user' = [user EXCEPT !.google = TRUE, !.verified = TRUE]
  /\ Goto(r, "done")
  /\ UNCHANGED <<mailed, proven>>

(* The UPDATE: COALESCE of google_id and email_verified_at, and the        *)
(* password cleared when the row that was read had it unverified.          *)
LinkGoogle(r) ==
  /\ At(r, "linking")
  /\ user' = [user EXCEPT !.google = TRUE, !.verified = TRUE,
                          !.password = IF request[r].unproved THEN None ELSE @]
  /\ Goto(r, "done")
  /\ UNCHANGED <<mailed, proven>>

------------------------------------------------------------------------------
(* verifyEmail: a link out of the mailbox that is still the row's.         *)
VerifyEmail(r, link) ==
  /\ At(r, "new")
  /\ link \in mailed
  /\ Goto(r, IF user.link = link THEN "verifying" ELSE "done")
  /\ UNCHANGED <<user, mailed, proven>>

SetVerified(r) ==
  /\ At(r, "verifying")
  /\ user' = [user EXCEPT !.verified = TRUE, !.link = None]
  /\ proven' = TRUE
  /\ Goto(r, "done")
  /\ UNCHANGED mailed

(* resendVerification: a new link, for an account not verified.            *)
ResendVerification(r) ==
  /\ At(r, "new")
  /\ Goto(r, IF user.exists /\ ~user.verified THEN "renewing" ELSE "done")
  /\ UNCHANGED <<user, mailed, proven>>

RenewLink(r) ==
  /\ At(r, "renewing")
  /\ user' = [user EXCEPT !.link = r]
  /\ Goto(r, "mailing")
  /\ UNCHANGED <<mailed, proven>>

(* forgotPassword.                                                         *)
ForgotPassword(r) ==
  /\ At(r, "new")
  /\ Goto(r, IF user.exists THEN "preparing" ELSE "done")
  /\ UNCHANGED <<user, mailed, proven>>

SetReset(r) ==
  /\ At(r, "preparing")
  /\ user' = [user EXCEPT !.reset = r]
  /\ Goto(r, "mailing")
  /\ UNCHANGED <<mailed, proven>>

(* resetPassword: the SELECT, then hashPassword and the UPDATE by id.      *)
ResetPassword(r, link) ==
  /\ At(r, "new")
  /\ link \in mailed
  /\ Goto(r, IF user.reset = link THEN "changing" ELSE "done")
  /\ UNCHANGED <<user, mailed, proven>>

ChangePassword(r) ==
  /\ At(r, "changing")
  /\ user' = [user EXCEPT !.password = r, !.reset = None]
  /\ proven' = TRUE
  /\ Goto(r, "done")
  /\ UNCHANGED mailed

(* email_verification_expires_at, password_reset_expires_at.               *)
LapseLink ==
  /\ user.link # None \/ user.reset # None
  /\ \/ user' = [user EXCEPT !.link = None]
     \/ user' = [user EXCEPT !.reset = None]
  /\ UNCHANGED <<request, mailed, proven>>

(* A statement fails: the request is answered with an error.               *)
Fail(r) ==
  /\ request[r].pc \notin {"new", "done"}
  /\ Goto(r, "done")
  /\ UNCHANGED <<user, mailed, proven>>

Next ==
  \/ \E r \in Requests :
       \/ Register(r) \/ \E auto \in BOOLEAN : InsertRegistered(r, auto)
       \/ \E sent \in BOOLEAN : Mail(r, sent)
       \/ GoogleLogin(r) \/ InsertGoogle(r) \/ LinkGoogle(r)
       \/ \E link \in Requests : VerifyEmail(r, link) \/ ResetPassword(r, link)
       \/ SetVerified(r) \/ ResendVerification(r) \/ RenewLink(r)
       \/ ForgotPassword(r) \/ SetReset(r) \/ ChangePassword(r) \/ Fail(r)
  \/ LapseLink

Spec == Init /\ [][Next]_vars

------------------------------------------------------------------------------
(* A Google sign-in leaves no password in the account that the owner of    *)
(* the address has not chosen or approved, whatever order the requests of  *)
(* the owner and of others take effect in (googleLogin: the row is read    *)
(* before it is written).  A server in development without a mail server   *)
(* is left out: it verifies every address unasked, and keeps the password. *)
LinkedPasswordIsOwned == user.google /\ user.password # None => proven
==============================================================================
