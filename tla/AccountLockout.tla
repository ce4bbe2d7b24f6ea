---------------------------- MODULE AccountLockout ----------------------------
(***************************************************************************)
(* The failed sign-ins of e-mail addresses and network addresses, kept in  *)
(* memory (backend/security/accountLockout.js), under login of             *)
(* authController.js and adminLogin of adminController.js: the lock is     *)
(* asked for before the user is read and the password compared, and the    *)
(* outcome recorded after.  Time is counted in parts of the window.        *)
(***************************************************************************)
EXTENDS Naturals, FiniteSets

CONSTANTS
  Emails, Addresses,
  Logins,       \* sign-in requests that can be at work at once
  MaxAttempts,  \* maxAttempts
  Window,       \* windowDurationMs
  Horizon       \* bound: the last instant

LockoutAssumption ==
  /\ Emails \cap Addresses = {}
  /\ MaxAttempts \in Nat \ {0} /\ Window \in Nat \ {0} /\ Horizon \in Nat \ {0}

VARIABLES
  now,     \* the clock
  record,  \* emailAttempts and ipAttempts
  login,   \* each request: nothing, or whose password it is comparing
  streak   \* history: the failures of each key within the last window, since it
           \* succeeded or was cleared, as pairs of an instant and a number

vars == <<now, record, login, streak>>

Keys    == Emails \cup Addresses
Times   == 0..Horizon
Never   == 0   \* no lockedUntil; the clock starts at 1
Absent  == [count |-> 0, first |-> 0, until |-> Never]
Away    == [at |-> "away"]
Checks  == [at : {"comparing"}, email : Emails, from : Addresses]

TypeOK ==
  /\ now \in Times
  /\ \A k \in Keys : /\ record[k].count \in Nat
                     /\ record[k].first \in Times
                     /\ record[k].until \in Nat
                     /\ (record[k].count = 0) = (record[k] = Absent)
  /\ login \in [Logins -> Checks \cup {Away}]

Init ==
  /\ now = 1
  /\ record = [k \in Keys |-> Absent]
  /\ login = [r \in Logins |-> Away]
  /\ streak = [k \in Keys |-> {}]

------------------------------------------------------------------------------
(* isLocked, of one key.                                                   *)
Locked(k) == now < record[k].until

(* getLockoutDurationMs: 15, 30 and 60 minutes, the window being 15.       *)
Duration(count) ==
  CASE count >= 3 * MaxAttempts -> 4 * Window
    [] count < 3 * MaxAttempts /\ count >= 2 * MaxAttempts -> 2 * Window
    [] OTHER -> Window

(* A record past its window.                                               *)
Stale(r) == r.count = 0 \/ now - r.first > Window

(* Mutant: the window never starts afresh.                                 *)
FailedForever(r) ==
  LET counted == IF r.count = 0 THEN [count |-> 1, first |-> now, until |-> Never]
                                ELSE [r EXCEPT !.count = @ + 1]
  IN  IF counted.count >= MaxAttempts
        THEN [counted EXCEPT !.until = now + Duration(counted.count)]
        ELSE counted

(* recordFailure, of one key: such a record starts afresh.                 *)
Failed(r) ==
  LET counted == IF Stale(r) THEN [count |-> 1, first |-> now, until |-> Never]
                             ELSE [r EXCEPT !.count = @ + 1]
  IN  IF counted.count >= MaxAttempts
        THEN [counted EXCEPT !.until = now + Duration(counted.count)]
        ELSE counted

------------------------------------------------------------------------------
(* login up to comparePassword: refused at once when either key is locked. *)
Ask(r, e, a) ==
  /\ login[r] = Away
  /\ ~Locked(e) /\ ~Locked(a)
  /\ login' = [login EXCEPT ![r] = [at |-> "comparing", email |-> e, from |-> a]]
  /\ UNCHANGED <<now, record, streak>>

NextFailure(k) == <<now, Cardinality({f \in streak[k] : f[1] = now})>>

(* An unknown user or a wrong password.                                    *)
RecordFailure(r) ==
  LET keys == {login[r].email, login[r].from} IN
  /\ login[r] # Away
  /\ record' = [k \in Keys |-> IF k \in keys THEN Failed(record[k]) ELSE record[k]]
  /\ streak' = [k \in Keys |-> IF k \in keys THEN streak[k] \cup {NextFailure(k)} ELSE streak[k]]
  /\ login' = [login EXCEPT ![r] = Away]
  /\ UNCHANGED now

Drop(keys) ==
  /\ record' = [k \in Keys |-> IF k \in keys THEN Absent ELSE record[k]]
  /\ streak' = [k \in Keys |-> IF k \in keys THEN {} ELSE streak[k]]

(* The right password of an active, verified account.                      *)
RecordSuccess(r) ==
  /\ login[r] # Away
  /\ Drop({login[r].email, login[r].from})
  /\ login' = [login EXCEPT ![r] = Away]
  /\ UNCHANGED now

(* The right password of an account that is blocked or not verified, or an *)
(* error: neither outcome is recorded.                                     *)
LeaveUnrecorded(r) ==
  /\ login[r] # Away
  /\ login' = [login EXCEPT ![r] = Away]
  /\ UNCHANGED <<now, record, streak>>

(* clearLockout, by an administrator (backend/routes/securityRoutes.js).   *)
ClearLockout(k) ==
  /\ record[k] # Absent
  /\ Drop({k})
  /\ UNCHANGED <<now, login>>

(* cleanupExpired, every five minutes.                                     *)
Expired(r) ==
  \/ r.until # Never /\ now >= r.until
  \/ r.until = Never /\ now - r.first > Window

CleanupExpired ==
  /\ record' = [k \in Keys |-> IF Expired(record[k]) THEN Absent ELSE record[k]]
  /\ record' # record
  /\ UNCHANGED <<now, login, streak>>

(* The process starts again: nothing is kept, and its requests are gone.   *)
Restart ==
  /\ Drop(Keys)
  /\ login' = [r \in Logins |-> Away]
  /\ UNCHANGED now

Tick ==
  /\ now < Horizon
  /\ now' = now + 1
  /\ streak' = [k \in Keys |-> {f \in streak[k] : now' - f[1] <= Window}]
  /\ UNCHANGED <<record, login>>

Next ==
  \/ \E r \in Logins : \/ \E e \in Emails, a \in Addresses : Ask(r, e, a)
                       \/ RecordFailure(r) \/ RecordSuccess(r) \/ LeaveUnrecorded(r)
  \/ \E k \in Keys : ClearLockout(k)
  \/ CleanupExpired \/ Restart \/ Tick

Spec == Init /\ [][Next]_vars

------------------------------------------------------------------------------
(* Nobody is locked out who has not failed MaxAttempts times within one    *)
(* window since the last success, after any order of failures, successes,  *)
(* clean-ups and requests that overlap (recordFailure starts a record      *)
(* afresh past its window, recordSuccess drops it).                        *)
LocksAreEarned ==
  [][\A k \in Keys : record'[k].until > record[k].until
                       => Cardinality(streak'[k]) >= MaxAttempts]_vars
==============================================================================
