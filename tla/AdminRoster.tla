----------------------------- MODULE AdminRoster -----------------------------
(***************************************************************************)
(* The status of users, set by administrators (blockUser of                *)
(* backend/controllers/adminController.js behind authenticate of           *)
(* middleware/authMiddleware.js): four statements that other requests run  *)
(* between.                                                                *)
(***************************************************************************)
EXTENDS Naturals, FiniteSets

CONSTANTS
  Admins, Customers,
  Requests,  \* handlers that can be at work at once
  None       \* no user

Users == Admins \cup Customers

RosterAssumption == Admins \cap Customers = {} /\ None \notin Users

VARIABLES
  active,  \* users whose status is 'active'
  request  \* each handler: where it stands, who asks, of whom, for what

vars == <<active, request>>

Statuses == {"active", "blocked"}
Steps    == {"idle", "reading", "counting", "writing"}
Work     == [pc : Steps, by : Admins \cup {None}, of : Users \cup {None}, status : Statuses]
Idle     == [pc |-> "idle", by |-> None, of |-> None, status |-> "active"]

TypeOK ==
  /\ active \subseteq Users
  /\ request \in [Requests -> Work]

Init ==
  /\ active = Users
  /\ request = [r \in Requests |-> Idle]

Goto(r, step) == request' = [request EXCEPT ![r].pc = step]

End(r) == request' = [request EXCEPT ![r] = Idle]

(* authenticate and authorize, then the test that it is somebody else.     *)
Ask(r, a, u, s) ==
  /\ request[r] = Idle
  /\ a \in active
  /\ u # a
  /\ request' = [request EXCEPT ![r] = [pc |-> "reading", by |-> a, of |-> u, status |-> s]]
  /\ UNCHANGED active

(* Only an active administrator who is to lose that status is counted.     *)
ReadTarget(r) ==
  LET w == request[r] IN
  /\ w.pc = "reading"
  /\ Goto(r, IF w.of \in Admins \cap active /\ w.status # "active" THEN "counting"
                                                                    ELSE "writing")
  /\ UNCHANGED active

CountActive(r) ==
  /\ request[r].pc = "counting"
  /\ IF Cardinality(Admins \cap active) <= 1 THEN End(r) ELSE Goto(r, "writing")
  /\ UNCHANGED active

SetStatus(r) ==
  LET w == request[r] IN
  /\ w.pc = "writing"
  /\ active' = IF w.status = "active" THEN active \cup {w.of} ELSE active \ {w.of}
  /\ End(r)

Fail(r) ==
  /\ request[r] # Idle
  /\ End(r)
  /\ UNCHANGED active

Next == \E r \in Requests :
  \/ \E a \in Admins, u \in Users, s \in Statuses : Ask(r, a, u, s)
  \/ ReadTarget(r) \/ CountActive(r) \/ SetStatus(r) \/ Fail(r)

Spec == Init /\ [][Next]_vars

------------------------------------------------------------------------------
(* "Prevent blocking or demoting the last active administrator"            *)
(* (adminController.js): there is always one to undo what was done.        *)
SomeAdminIsActive == Admins \cap active # {}
==============================================================================
