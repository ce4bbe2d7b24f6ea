----------------------------- MODULE MCAccounts -----------------------------
(***************************************************************************)
(* The parts of the server that decide who is signed in.  They share no    *)
(* state, so one run takes them one at a time: the initial state chooses   *)
(* the part that runs, and the others stay where they begin.               *)
(***************************************************************************)
EXTENDS Naturals, TLC

CONSTANTS
  Visits, Answers, Codes, Emails, Addresses, Logins, Tokens, Handlers, Askers, None,
  MaxAttempts, Window, Life, Held, Horizon

VARIABLES
  part,
  enabled, code, wanted, kind, attempts, lapsed, lock, pc, visit, seen, typed,
  told, crossed, desk,
  now, record, login, streak,
  clock, expiry, memory, table, loading, request, signedOut, late,
  user, asked, mailed, proven

SecondStep == INSTANCE TwoFactor
Lockout    == INSTANCE AccountLockout
Blacklist  == INSTANCE TokenBlacklist WITH now <- clock, Requests <- Handlers
Account    == INSTANCE EmailAccounts WITH request <- asked, Requests <- Askers

ASSUME AccountsAssumption ==
  /\ SecondStep!TwoFactorAssumption
  /\ Lockout!LockoutAssumption
  /\ Blacklist!BlacklistAssumption
  /\ Account!AccountAssumption

Parts == {"second step", "lockout", "blacklist", "account"}

TypeOK ==
  /\ part \in Parts
  /\ SecondStep!TypeOK
  /\ Lockout!TypeOK
  /\ Blacklist!TypeOK
  /\ Account!TypeOK

Init ==
  /\ part \in Parts
  /\ SecondStep!Init
  /\ Lockout!Init
  /\ Blacklist!Init
  /\ Account!Init

secondStepVars == <<enabled, code, wanted, kind, attempts, lapsed, lock, pc, visit, seen,
                    typed, told, crossed, desk>>
lockoutVars    == <<now, record, login, streak>>
blacklistVars  == <<clock, expiry, memory, table, loading, request, signedOut, late>>
accountVars    == <<user, asked, mailed, proven>>

vars == <<part, secondStepVars, lockoutVars, blacklistVars, accountVars>>

Next ==
  \/ /\ part = "second step"
     /\ SecondStep!Next
     /\ UNCHANGED <<part, lockoutVars, blacklistVars, accountVars>>
  \/ /\ part = "lockout"
     /\ Lockout!Next
     /\ UNCHANGED <<part, secondStepVars, blacklistVars, accountVars>>
  \/ /\ part = "blacklist"
     /\ Blacklist!Next
     /\ UNCHANGED <<part, secondStepVars, lockoutVars, accountVars>>
  \/ /\ part = "account"
     /\ Account!Next
     /\ UNCHANGED <<part, secondStepVars, lockoutVars, blacklistVars>>

Spec == Init /\ [][Next]_vars

(* TwoFactor: a recovery code signs in once.                               *)
RecoveryCodeOnce == SecondStep!RecoveryCodeOnce

(* TwoFactor: whoever must answer a second step has codes to recover with. *)
EnabledHasCodes == SecondStep!EnabledHasCodes

(* TwoFactor: a challenge answers so many wrong codes, and so many more    *)
(* for each that crossed another.                                          *)
AttemptLimit == SecondStep!AttemptLimit

(* AccountLockout: nobody is locked out who has not failed so often.       *)
LocksAreEarned == Lockout!LocksAreEarned

(* TokenBlacklist: a token that was signed out is refused.                 *)
SignedOutIsRefused == Blacklist!SignedOutIsRefused

(* EmailAccounts: Google leaves no password the owner has not approved.    *)
LinkedPasswordIsOwned == Account!LinkedPasswordIsOwned

Symmetry == Permutations(Visits) \cup Permutations(Codes) \cup Permutations(Answers)
=============================================================================
