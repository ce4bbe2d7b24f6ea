---------------------------- MODULE TokenBlacklist ----------------------------
(***************************************************************************)
(* Access tokens that were signed out (backend/security/tokenBlacklist.js):*)
(* a map in memory and the table token_blacklist behind it, as the         *)
(* authenticate middleware and the logout handler use them.  The table may *)
(* fail to answer; the process may start again.                            *)
(***************************************************************************)
EXTENDS Naturals

CONSTANTS
  Tokens,    \* access tokens that can be issued
  Requests,  \* requests that can be at work at once
  None,      \* no token
  Life,      \* env.jwt.accessExpiresIn
  Held,      \* the 24 hours logout blacklists a token for
  Horizon    \* bound: the last instant

BlacklistAssumption ==
  /\ None \notin Tokens
  /\ Life \in Nat \ {0} /\ Held \in Nat /\ Held >= Life /\ Horizon \in Nat \ {0}

VARIABLES
  now,       \* the clock
  expiry,    \* each token: when it expires, Absent before it is issued
  memory,    \* blacklistedTokens
  table,     \* token_blacklist: expires_at of each row
  loading,   \* init has yet to read the table
  request,   \* each request: where authenticate stands, and with which token
  signedOut, \* history: tokens whose logout was answered and whose row was stored
  late       \* history: requests of a token that began after that, and whose
             \* question to the table was answered

vars == <<now, expiry, memory, table, loading, request, signedOut, late>>

Absent   == 0   \* the clock starts at 1
Times    == 0..Horizon + Held
Steps    == {"idle", "memory", "table", "verify", "accepted", "refused", "storing"}
Quiet    == [pc |-> "idle", token |-> None]

TypeOK ==
  /\ now \in 1..Horizon
  /\ expiry \in [Tokens -> Times]
  /\ memory \in [Tokens -> Times]
  /\ table \in [Tokens -> Times]
  /\ loading \in BOOLEAN
  /\ request \in [Requests -> [pc : Steps, token : Tokens \cup {None}]]
  /\ signedOut \subseteq Tokens
  /\ late \subseteq Requests

Init ==
  /\ now = 1
  /\ expiry = [t \in Tokens |-> Absent]
  /\ memory = [t \in Tokens |-> Absent]
  /\ table = [t \in Tokens |-> Absent]
  /\ loading = TRUE
  /\ request = [r \in Requests |-> Quiet]
  /\ signedOut = {}
  /\ late = {}

Goto(r, step) == request' = [request EXCEPT ![r].pc = step]

------------------------------------------------------------------------------
(* signAccessToken.                                                        *)
Issue(t) ==
  /\ expiry[t] = Absent
  /\ expiry' = [expiry EXCEPT ![t] = now + Life]
  /\ UNCHANGED <<now, memory, table, loading, request, signedOut, late>>

Send(r, t) ==
  /\ request[r].pc = "idle"
  /\ expiry[t] # Absent
  /\ request' = [request EXCEPT ![r] = [pc |-> "memory", token |-> t]]
  /\ late' = IF t \in signedOut THEN late \cup {r} ELSE late
  /\ UNCHANGED <<now, expiry, memory, table, loading, signedOut>>

(* isBlacklisted: an entry past its expiry is dropped and does not count.  *)
AskMemory(r) ==
  LET t == request[r].token
      past == memory[t] # Absent /\ now > memory[t] IN
  /\ request[r].pc = "memory"
  /\ memory' = IF past THEN [memory EXCEPT ![t] = Absent] ELSE memory
  /\ Goto(r, IF memory[t] # Absent /\ ~past THEN "refused" ELSE "table")
  /\ UNCHANGED <<now, expiry, table, loading, signedOut, late>>

(* isBlacklistedAsync: the row, unless it has expired, is copied.          *)
AskTable(r) ==
  LET t == request[r].token IN
  /\ request[r].pc = "table"
  /\ IF table[t] > now
       THEN memory' = [memory EXCEPT ![t] = table[t]] /\ Goto(r, "refused")
       ELSE UNCHANGED memory /\ Goto(r, "verify")
  /\ UNCHANGED <<now, expiry, table, loading, signedOut, late>>

(* verifyAccessToken and the user's row.                                   *)
Verify(r) ==
  /\ request[r].pc = "verify"
  /\ Goto(r, IF now < expiry[request[r].token] THEN "accepted" ELSE "refused")
  /\ UNCHANGED <<now, expiry, memory, table, loading, signedOut, late>>

(* The SELECT fails: isBlacklistedAsync goes on without its answer.        *)
TableFails(r) ==
  /\ request[r].pc = "table"
  /\ Goto(r, "verify")
  /\ late' = late \ {r}
  /\ UNCHANGED <<now, expiry, memory, table, loading, signedOut>>

(* The token is no good, the SELECT of the user fails, or the user is not  *)
(* active or has another token_version.                                    *)
Deny(r) ==
  /\ request[r].pc = "verify"
  /\ Goto(r, "refused")
  /\ UNCHANGED <<now, expiry, memory, table, loading, signedOut, late>>

(* The handler behind authenticate ends.                                   *)
Finish(r) ==
  /\ request[r].pc \in {"accepted", "refused"}
  /\ request' = [request EXCEPT ![r] = Quiet]
  /\ late' = late \ {r}
  /\ UNCHANGED <<now, expiry, memory, table, loading, signedOut>>

------------------------------------------------------------------------------
(* logout: blacklist() writes the map, then inserts the row.               *)
Logout(r) ==
  /\ request[r].pc = "accepted"
  /\ memory' = [memory EXCEPT ![request[r].token] = now + Held]
  /\ Goto(r, "storing")
  /\ UNCHANGED <<now, expiry, table, loading, signedOut, late>>

(* ON DUPLICATE KEY UPDATE; a failure is logged and the answer the same.   *)
Store(r, stored) ==
  LET t == request[r].token IN
  /\ request[r].pc = "storing"
  /\ table' = IF stored THEN [table EXCEPT ![t] = now + Held] ELSE table
  /\ signedOut' = IF stored THEN signedOut \cup {t} ELSE signedOut
  /\ request' = [request EXCEPT ![r] = Quiet]
  /\ late' = late \ {r}
  /\ UNCHANGED <<now, expiry, memory, loading>>

------------------------------------------------------------------------------
(* init reads the unexpired rows once, or fails and is not tried again.    *)
Load(read) ==
  /\ loading
  /\ memory' = IF read THEN [t \in Tokens |-> IF table[t] > now THEN table[t] ELSE memory[t]]
                       ELSE memory
  /\ loading' = FALSE
  /\ UNCHANGED <<now, expiry, table, request, signedOut, late>>

(* cleanup: the map at once, the table by a DELETE.                        *)
CleanupMemory ==
  /\ memory' = [t \in Tokens |-> IF now > memory[t] THEN Absent ELSE memory[t]]
  /\ UNCHANGED <<now, expiry, table, loading, request, signedOut, late>>

(* Mutant: the DELETE takes rows that were stored a while ago.             *)
CleanupEarly ==
  /\ table' = [t \in Tokens |-> IF table[t] < now + Held THEN Absent ELSE table[t]]
  /\ UNCHANGED <<now, expiry, memory, loading, request, signedOut, late>>

CleanupTable ==
  /\ table' = [t \in Tokens |-> IF table[t] <= now THEN Absent ELSE table[t]]
  /\ UNCHANGED <<now, expiry, memory, loading, request, signedOut, late>>

Restart ==
  /\ memory' = [t \in Tokens |-> Absent]
  /\ loading' = TRUE
  /\ request' = [r \in Requests |-> Quiet]
  /\ late' = {}
  /\ UNCHANGED <<now, expiry, table, signedOut>>

Tick ==
  /\ now < Horizon
  /\ now' = now + 1
  /\ UNCHANGED <<expiry, memory, table, loading, request, signedOut, late>>

Next ==
  \/ \E t \in Tokens : Issue(t)
  \/ \E r \in Requests : \/ \E t \in Tokens : Send(r, t)
                         \/ AskMemory(r) \/ AskTable(r) \/ Verify(r)
                         \/ TableFails(r) \/ Deny(r) \/ Finish(r) \/ Logout(r)
                         \/ \E stored \in BOOLEAN : Store(r, stored)
  \/ \E read \in BOOLEAN : Load(read)
  \/ CleanupMemory \/ CleanupTable \/ Restart \/ Tick

Spec == Init /\ [][Next]_vars

------------------------------------------------------------------------------
(* A token that was signed out opens nothing any more: no request that     *)
(* begins after its logout was answered (and its row stored) is accepted,  *)
(* whatever was cleaned up, loaded or restarted since; a request whose     *)
(* SELECT fails is left out, since isBlacklistedAsync then trusts the map. *)
SignedOutIsRefused ==
  \A r \in late : request[r].pc \notin {"accepted", "storing"}
==============================================================================
