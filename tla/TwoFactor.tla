------------------------------ MODULE TwoFactor ------------------------------
(***************************************************************************)
(* Two-step sign-in of one administrator: the tables admin_2fa,            *)
(* admin_2fa_recovery_codes and admin_2fa_challenges, written by           *)
(* backend/services/twoFactorService.js for the handlers of                *)
(* backend/controllers/adminController.js.  A visit is a challenge id: a   *)
(* sign-in, or an enrolment from the settings page.  Nothing keeps a page  *)
(* to one answer at a time, so several handlers may be at work on one      *)
(* visit.  One code stands for the ten of an issue.  Whether a six-digit   *)
(* code is right is a free choice.                                         *)
(***************************************************************************)
EXTENDS Naturals

CONSTANTS
  Visits,      \* challenge ids
  Answers,     \* handlers at work; one that signed somebody in is kept
  Codes,       \* recovery codes that can ever be issued
  None,        \* no visit, no code, no handler
  MaxAttempts  \* MAX_CHALLENGE_ATTEMPTS

TwoFactorAssumption ==
  None \notin Visits \cup Answers \cup Codes /\ MaxAttempts \in Nat \ {0}

VARIABLES
  enabled,    \* admin_2fa.enabled
  code,       \* each recovery code: not issued, live, burnt (used_at), deleted
  wanted,     \* the type of challenge each visit asked for, "none" before it
  kind,       \* its row of admin_2fa_challenges, "none" if it has none
  attempts,   \* its attempts
  lapsed,     \* challenges past expires_at
  lock,       \* which handler holds the row lock of a recovery code
  pc,         \* each handler: where it stands
  visit,      \* the challenge it works on
  seen,       \* attempts as its last SELECT returned them
  typed,      \* the recovery code it was sent
  told,       \* history: wrong codes answered for a challenge
  crossed,    \* history: those of them whose challenge others had counted on
              \* or ended since the handler read it
  desk        \* the settings page: the operation past its checks

tables   == <<enabled, code, wanted, kind, attempts, lapsed, lock>>
memory   == <<visit, seen, typed>>
history  == <<told, crossed>>
vars     == <<tables, pc, memory, history, desk>>

Present == {"live", "burnt"}
Kinds   == {"login", "setup"}
Steps   == {"idle", "purging", "inserting", "totp", "setup", "recover", "burning",
            "enabling", "failing", "counting", "consuming", "admitting", "in"}

TypeOK ==
  /\ enabled \in BOOLEAN
  /\ code \in [Codes -> {"unissued", "deleted"} \cup Present]
  /\ wanted \in [Visits -> Kinds \cup {"none"}]
  /\ kind \in [Visits -> Kinds \cup {"none"}]
  /\ attempts \in [Visits -> 0..MaxAttempts]
  /\ lapsed \subseteq Visits
  /\ lock \in [Codes -> Answers \cup {None}]
  /\ pc \in [Answers -> Steps]
  /\ visit \in [Answers -> Visits \cup {None}]
  /\ seen \in [Answers -> 0..MaxAttempts]
  /\ typed \in [Answers -> Codes \cup {None}]
  /\ told \in [Visits -> Nat]
  /\ crossed \in [Visits -> Nat]
  /\ desk \in {"idle", "regenerating", "disabling"}

(* The administrator has enrolled before, or has not.                      *)
Init ==
  /\ \/ enabled = FALSE /\ code = [c \in Codes |-> "unissued"]
     \/ /\ enabled = TRUE
        /\ \E issued \in Codes :
             code = [c \in Codes |-> IF c = issued THEN "live" ELSE "unissued"]
  /\ wanted = [v \in Visits |-> "none"]
  /\ kind = [v \in Visits |-> "none"]
  /\ attempts = [v \in Visits |-> 0]
  /\ lapsed = {}
  /\ lock = [c \in Codes |-> None]
  /\ pc = [r \in Answers |-> "idle"]
  /\ visit = [r \in Answers |-> None]
  /\ seen = [r \in Answers |-> 0]
  /\ typed = [r \in Answers |-> None]
  /\ told = [v \in Visits |-> 0]
  /\ crossed = [v \in Visits |-> 0]
  /\ desk = "idle"

Goto(r, step) == pc' = [pc EXCEPT ![r] = step]

Go(r, step) == Goto(r, step) /\ UNCHANGED memory

(* The handler has answered and forgets what it read.                      *)
End(r) ==
  /\ Goto(r, "idle")
  /\ visit' = [visit EXCEPT ![r] = None]
  /\ seen' = [seen EXCEPT ![r] = 0]
  /\ typed' = [typed EXCEPT ![r] = None]

Gone(v) == [kind EXCEPT ![v] = "none"]

------------------------------------------------------------------------------
(* createChallenge, which draws a new id: once login or adminLogin has     *)
(* accepted the password, or from initiate2FASetup of the settings page.   *)
Draw(r, v, k) ==
  /\ pc[r] = "idle"
  /\ wanted[v] = "none"
  /\ wanted' = [wanted EXCEPT ![v] = k]
  /\ Goto(r, "purging")
  /\ visit' = [visit EXCEPT ![r] = v]
  /\ UNCHANGED <<enabled, code, kind, attempts, lapsed, lock, seen, typed, history, desk>>

Greet(r, v) == Draw(r, v, IF enabled THEN "login" ELSE "setup")

InitiateSetup(r, v) == Draw(r, v, "setup")

Purge(r) ==
  /\ pc[r] = "purging"
  /\ kind' = [v \in Visits |-> "none"]
  /\ Go(r, "inserting")
  /\ UNCHANGED <<enabled, code, wanted, attempts, lapsed, lock, history, desk>>

InsertChallenge(r) ==
  /\ pc[r] = "inserting"
  /\ kind' = [kind EXCEPT ![visit[r]] = wanted[visit[r]]]
  /\ End(r)
  /\ UNCHANGED <<enabled, code, wanted, attempts, lapsed, lock, history, desk>>

(* getChallenge, at the head of each of the three verifications.  Without  *)
(* a row that is active the answer is a refusal and nothing changes.       *)
Active(v, k) == kind[v] = k /\ v \notin lapsed

Open(r, v, k, step, c) ==
  /\ pc[r] = "idle"
  /\ Active(v, k)
  /\ IF attempts[v] >= MaxAttempts
       THEN kind' = Gone(v) /\ UNCHANGED <<pc, memory>>
       ELSE /\ Goto(r, step)
            /\ visit' = [visit EXCEPT ![r] = v]
            /\ typed' = [typed EXCEPT ![r] = c]
            /\ UNCHANGED <<kind, seen>>
  /\ UNCHANGED <<enabled, code, wanted, attempts, lapsed, lock, history, desk>>

BeginTotp(r, v) == Open(r, v, "login", "totp", None)

BeginSetup(r, v) == Open(r, v, "setup", "setup", None)

BeginRecovery(r, v, c) == Open(r, v, "login", "recover", c)

(* verifyLogin2FA: the record is read again; no longer enabled ends the    *)
(* challenge.  The verdict on the code is that of verifyTotp.              *)
CheckTotp(r, right) ==
  /\ pc[r] = "totp"
  /\ IF enabled
       THEN Go(r, IF right THEN "consuming" ELSE "failing") /\ UNCHANGED kind
       ELSE kind' = Gone(visit[r]) /\ End(r)
  /\ UNCHANGED <<enabled, code, wanted, attempts, lapsed, lock, history, desk>>

CheckSetup(r, right) ==
  /\ pc[r] = "setup"
  /\ Go(r, IF right THEN "enabling" ELSE "failing")
  /\ UNCHANGED <<tables, history, desk>>

------------------------------------------------------------------------------
(* Mutant: the SELECT takes no lock.                                       *)
ReadCode(r) ==
  LET c == typed[r] IN
  /\ pc[r] = "recover"
  /\ Go(r, IF c # None /\ code[c] = "live" THEN "burning" ELSE "failing")
  /\ UNCHANGED <<tables, history, desk>>

(* verifyAndConsumeRecoveryCode: SELECT ... FOR UPDATE of an unused code.  *)
LockCode(r) ==
  LET c == typed[r] IN
  /\ pc[r] = "recover"
  /\ IF c # None /\ code[c] \in Present
       THEN /\ lock[c] = None
            /\ IF code[c] = "live"
                 THEN lock' = [lock EXCEPT ![c] = r] /\ Go(r, "burning")
                 ELSE UNCHANGED lock /\ Go(r, "failing")
       ELSE UNCHANGED lock /\ Go(r, "failing")
  /\ UNCHANGED <<enabled, code, wanted, kind, attempts, lapsed, history, desk>>

(* The UPDATE and the commit, which releases the row.                      *)
BurnCode(r) ==
  /\ pc[r] = "burning"
  /\ code' = [code EXCEPT ![typed[r]] = "burnt"]
  /\ lock' = [lock EXCEPT ![typed[r]] = None]
  /\ Go(r, "consuming")
  /\ UNCHANGED <<enabled, wanted, kind, attempts, lapsed, history, desk>>

(* storeRecoveryCodes: DELETE, which waits for rows that are locked, then  *)
(* INSERT; other connections see both at the commit.                       *)
Stored(c) ==
  [d \in Codes |-> CASE d = c -> "live"
                     [] d # c /\ code[d] \in Present -> "deleted"
                     [] OTHER -> code[d]]

StoreCodes(c) ==
  /\ code[c] = "unissued"
  /\ \A d \in Codes : lock[d] = None
  /\ code' = Stored(c)

(* Mutant: the new codes are stored after the commit, or not at all.       *)
StoreNoCodes(r, c) ==
  /\ pc[r] = "enabling"
  /\ enabled' = TRUE
  /\ Go(r, "consuming")
  /\ UNCHANGED <<code, wanted, kind, attempts, lapsed, lock, history, desk>>

(* enableAdmin2FA, one transaction.                                        *)
Enable(r, c) ==
  /\ pc[r] = "enabling"
  /\ enabled' = TRUE
  /\ StoreCodes(c)
  /\ Go(r, "consuming")
  /\ UNCHANGED <<wanted, kind, attempts, lapsed, lock, history, desk>>

------------------------------------------------------------------------------
Tell(v, late) ==
  /\ told' = [told EXCEPT ![v] = @ + 1]
  /\ crossed' = [crossed EXCEPT ![v] = IF late THEN @ + 1 ELSE @]

(* recordChallengeFailure: SELECT, then DELETE or UPDATE; a challenge that *)
(* is gone counts as invalidated.                                          *)
ReadAttempts(r) ==
  LET v == visit[r] IN
  /\ pc[r] = "failing"
  /\ IF kind[v] = "none"
       THEN Tell(v, TRUE) /\ End(r)
       ELSE /\ seen' = [seen EXCEPT ![r] = attempts[v]]
            /\ Goto(r, "counting")
            /\ UNCHANGED <<visit, typed, history>>
  /\ UNCHANGED <<tables, desk>>

Stale(r) == kind[visit[r]] = "none" \/ attempts[visit[r]] # seen[r]

(* Mutant: the last attempt is allowed once more.                          *)
CountLeniently(r) ==
  LET v == visit[r] n == seen[r] + 1 IN
  /\ pc[r] = "counting"
  /\ Tell(v, Stale(r))
  /\ IF n > MaxAttempts
       THEN kind' = Gone(v) /\ UNCHANGED attempts
       ELSE /\ attempts' = [attempts EXCEPT ![v] = IF kind[v] = "none" THEN @ ELSE n]
            /\ UNCHANGED kind
  /\ End(r)
  /\ UNCHANGED <<enabled, code, wanted, lapsed, lock, desk>>

CountFailure(r) ==
  LET v == visit[r] n == seen[r] + 1 IN
  /\ pc[r] = "counting"
  /\ Tell(v, Stale(r))
  /\ IF n >= MaxAttempts
       THEN kind' = Gone(v) /\ UNCHANGED attempts
       ELSE /\ attempts' = [attempts EXCEPT ![v] = IF kind[v] = "none" THEN @ ELSE n]
            /\ UNCHANGED kind
  /\ End(r)
  /\ UNCHANGED <<enabled, code, wanted, lapsed, lock, desk>>

(* deleteChallenge, after updateLastUsedTimeStep, the burn or the enabling. *)
Consume(r) ==
  /\ pc[r] = "consuming"
  /\ kind' = Gone(visit[r])
  /\ Go(r, "admitting")
  /\ UNCHANGED <<enabled, code, wanted, attempts, lapsed, lock, history, desk>>

(* findUserById and issueTokens; the account may no longer be an active    *)
(* administrator.                                                          *)
Admit(r, active) ==
  /\ pc[r] = "admitting"
  /\ IF active THEN Go(r, "in") ELSE End(r)
  /\ UNCHANGED <<tables, history, desk>>

(* A statement fails, or the answer is lost: a transaction under way is    *)
(* rolled back, and the page may try again.                                *)
Fail(r) ==
  /\ pc[r] \notin {"idle", "in"}
  /\ lock' = [c \in Codes |-> IF lock[c] = r THEN None ELSE lock[c]]
  /\ End(r)
  /\ UNCHANGED <<enabled, code, wanted, kind, attempts, lapsed, history, desk>>

Lapse(v) ==
  /\ kind[v] # "none"
  /\ lapsed' = lapsed \cup {v}
  /\ UNCHANGED <<enabled, code, wanted, kind, attempts, lock, pc, memory, history, desk>>

------------------------------------------------------------------------------
(* regenerateRecoveryCodes and disable2FA: the record is read, the current *)
(* code (and the password) checked, then one transaction.                  *)
BeginDesk(op) ==
  /\ desk = "idle"
  /\ enabled
  /\ desk' = op
  /\ UNCHANGED <<tables, pc, memory, history>>

Regenerate(c) ==
  /\ desk = "regenerating"
  /\ StoreCodes(c)
  /\ desk' = "idle"
  /\ UNCHANGED <<enabled, wanted, kind, attempts, lapsed, lock, pc, memory, history>>

Disable ==
  /\ desk = "disabling"
  /\ \A c \in Codes : lock[c] = None
  /\ enabled' = FALSE
  /\ code' = [c \in Codes |-> IF code[c] \in Present THEN "deleted" ELSE code[c]]
  /\ kind' = [v \in Visits |-> "none"]
  /\ desk' = "idle"
  /\ UNCHANGED <<wanted, attempts, lapsed, lock, pc, memory, history>>

AbandonDesk ==
  /\ desk # "idle"
  /\ desk' = "idle"
  /\ UNCHANGED <<tables, pc, memory, history>>

Begin(r, v) ==
  \/ Greet(r, v) \/ InitiateSetup(r, v)
  \/ BeginTotp(r, v) \/ BeginSetup(r, v)
  \/ \E c \in Codes \cup {None} : BeginRecovery(r, v, c)

Verify(r) ==
  \/ Purge(r) \/ InsertChallenge(r)
  \/ \E right \in BOOLEAN : CheckTotp(r, right) \/ CheckSetup(r, right)
  \/ LockCode(r) \/ BurnCode(r)
  \/ \E c \in Codes : Enable(r, c)
  \/ ReadAttempts(r) \/ CountFailure(r) \/ Consume(r)
  \/ \E active \in BOOLEAN : Admit(r, active)
  \/ Fail(r)

Next ==
  \/ \E r \in Answers : Verify(r) \/ \E v \in Visits : Begin(r, v)
  \/ \E v \in Visits : Lapse(v)
  \/ \E op \in {"regenerating", "disabling"} : BeginDesk(op)
  \/ \E c \in Codes : Regenerate(c)
  \/ Disable \/ AbandonDesk

Spec == Init /\ [][Next]_vars

------------------------------------------------------------------------------
(* A recovery code signs in once, however many answers carry it at the     *)
(* same time, of one visit or of several, and whatever is issued,          *)
(* regenerated or disabled meanwhile: verifyAndConsumeRecoveryCode,        *)
(* "verifies and burns a single-use code".                                 *)
Redeemed(r, c) == typed[r] = c /\ pc[r] \in {"consuming", "admitting", "in"}

RecoveryCodeOnce ==
  \A r, s \in Answers : \A c \in Codes : Redeemed(r, c) /\ Redeemed(s, c) => r = s

(* Whoever must answer a second step has codes to recover with: an         *)
(* administrator with two-step sign-in enabled has the codes of an issue,  *)
(* used or not, through enrolments, regenerations and disabling that       *)
(* overlap (enableAdmin2FA, regenerateRecoveryCodes, disableAdmin2FA).     *)
EnabledHasCodes == enabled => \E c \in Codes : code[c] \in Present

(* The attempts of a challenge are read by a SELECT and written by an      *)
(* UPDATE with no lock between (recordChallengeFailure), so they do not    *)
(* bound the wrong codes it answers: answers that cross are counted once,  *)
(* and a late UPDATE sets the count back.  What does hold: while none      *)
(* crossed it answers MAX_CHALLENGE_ATTEMPTS at most, and each that did    *)
(* buys so many more at most.                                              *)
AttemptLimit == \A v \in Visits : told[v] <= MaxAttempts * (1 + crossed[v])
==============================================================================
