------------------------------ MODULE Migrations ------------------------------
(***************************************************************************)
(* The migration runner (backend/scripts/migrate.js) over the files of     *)
(* backend/migrations.  It executes the files schema_migrations does not   *)
(* name, statement by statement, and records each after its last one.      *)
(* MySQL commits every schema change at once, so a runner that stops half  *)
(* way leaves what it has done; several operators may run it.  Columns,    *)
(* indexes and tables a file treats alike are one object here; --dry-run   *)
(* changes nothing and is left out.                                        *)
(***************************************************************************)
EXTENDS Naturals, Sequences, FiniteSets

CONSTANTS
  Runners,   \* node processes running migrate.js
  MaxRuns    \* bound: how often it is started

VARIABLES
  present,   \* which objects the schema has
  applied,   \* table schema_migrations: numbers of files
  runner,    \* each runner: the files and the statements it has left, and its last look
  outcome,   \* how the last run of each ended
  crossed,   \* history: runners that were not alone while they ran
  torn,      \* history: files some runner left between dropping and adding
  runs

------------------------------------------------------------------------------
(* Statements: a change that looks whether the object is there and is made *)
(* accordingly, one MySQL itself makes only once, one that just adds.      *)
AddIf(x)    == [op |-> "addIf", on |-> x]
DropIf(x)   == [op |-> "dropIf", on |-> x]
Ensure(x)   == [op |-> "ensure", on |-> x]
Add(x)      == [op |-> "add", on |-> x]

RemovePayments     == <<DropIf("payments")>>
DroppedBlindly     == <<Add("price_check"), Add("stock_check")>>   \* mutant: constraints added, none dropped
ProductConstraints == <<DropIf("price_check"), DropIf("stock_check"),
                        Add("price_check"), Add("stock_check")>>
AuthTokens         == <<AddIf("token_version"), Ensure("refresh_tokens")>>
PerformanceIndexes == <<Ensure("status_deleted"), AddIf("idx_products")>>
TokenBlacklist     == <<Ensure("token_blacklist")>>
Admin2fa           == <<Ensure("admin_2fa")>>
ReportsLocations   == <<AddIf("state"), Ensure("admin_report_archives")>>
DeleteAudit        == <<AddIf("deleted_by"), AddIf("fk_deleted_by")>>

(* readdirSync and sort: the files in the order of their names.            *)
Script == <<RemovePayments, ProductConstraints, AuthTokens, PerformanceIndexes,
            TokenBlacklist, Admin2fa, ReportsLocations, DeleteAudit>>

Files      == DOMAIN Script
Touched(f) == {Script[f][i].on : i \in DOMAIN Script[f]}
Objects    == UNION {Touched(f) : f \in Files}
Drops(f) == {i \in DOMAIN Script[f] : Script[f][i].op = "dropIf"}

(* What file f leaves: each of its objects as its last statement wants it. *)
Wanted(f, x) ==
  \E i \in DOMAIN Script[f] :
    /\ Script[f][i].on = x
    /\ Script[f][i].op # "dropIf"
InPlace(f)  == \A x \in Touched(f) : (x \in present) = Wanted(f, x)

Off      == [pc |-> "off", todo |-> {}, at |-> 1, saw |-> FALSE]
Running  == {r \in Runners : runner[r].pc # "off"}
File(r)  == CHOOSE f \in runner[r].todo : \A g \in runner[r].todo : f <= g
Here(r)  == Script[File(r)][runner[r].at]
AtEnd(r) == runner[r].at > Len(Script[File(r)])

TypeOK ==
  /\ present \subseteq Objects
  /\ applied \subseteq Files
  /\ runner \in [Runners -> [pc : {"off", "at_statement", "looked"},
                             todo : SUBSET Files, at : 1..5, saw : BOOLEAN]]
  /\ outcome \in [Runners -> {"none", "exit0", "exit1", "killed"}]
  /\ crossed \subseteq Runners
  /\ torn \subseteq Files
  /\ runs \in 0..MaxRuns
  /\ \A r \in Running : runner[r].todo # {}

(* A database from before the first migration, or one of today's           *)
(* schema.sql (whose tables have no name for the payments).                *)
Init ==
  /\ present \in {{"payments"}, Objects \ {"payments"}}
  /\ applied = {}
  /\ runner = [r \in Runners |-> Off]
  /\ outcome = [r \in Runners |-> "none"]
  /\ crossed = {}
  /\ torn = {}
  /\ runs = 0

------------------------------------------------------------------------------
(* A runner starts: what schema_migrations names is left out.              *)
Start(r) ==
  /\ r \notin Running
  /\ runs < MaxRuns
  /\ runs' = runs + 1
  /\ runner' = [runner EXCEPT ![r] = IF Files \ applied = {} THEN Off ELSE
                  [Off EXCEPT !.pc = "at_statement", !.todo = Files \ applied]]
  /\ outcome' = [outcome EXCEPT ![r] = IF Files \ applied = {} THEN "exit0" ELSE "none"]
  /\ crossed' = (crossed \ {r}) \cup (IF Running = {} THEN {} ELSE Running \cup {r})
  /\ UNCHANGED <<present, applied, torn>>

(* The files a runner of R that stops now leaves between DROP and ADD.     *)
CutShort(R) ==
  {File(r) : r \in {q \in R : \E x \in Touched(File(q)) : Wanted(File(q), x) /\ x \notin present
                                /\ \E i \in Drops(File(q)) : i < runner[q].at /\ Script[File(q)][i].on = x}}

Stop(r, how) ==
  /\ torn' = torn \cup CutShort({r})
  /\ runner' = [runner EXCEPT ![r] = Off]
  /\ outcome' = [outcome EXCEPT ![r] = how]
  /\ UNCHANGED <<present, applied, crossed, runs>>

(* SELECT COUNT INTO @x FROM information_schema...                            *)
Look(r) ==
  /\ runner[r].pc = "at_statement"
  /\ ~AtEnd(r)
  /\ Here(r).op \in {"addIf", "dropIf"}
  /\ runner' = [runner EXCEPT ![r].pc = "looked", ![r].saw = Here(r).on \in present]
  /\ UNCHANGED <<present, applied, outcome, crossed, torn, runs>>

Due(r) == runner[r].pc = (IF Here(r).op \in {"addIf", "dropIf"} THEN "looked" ELSE "at_statement")

(* Does the statement change the schema, and does MySQL refuse it?         *)
Adds(r)    == \/ Here(r).op \in {"add", "ensure"}
              \/ Here(r).op = "addIf" /\ ~runner[r].saw
Removes(r) == Here(r).op = "dropIf" /\ runner[r].saw
Refused(r) == \/ Adds(r) /\ Here(r).op # "ensure" /\ Here(r).on \in present
              \/ Removes(r) /\ Here(r).on \notin present

Execute(r) ==
  /\ r \in Running
  /\ ~AtEnd(r)
  /\ Due(r)
  /\ ~Refused(r)
  /\ present' = (present \cup {x \in {Here(r).on} : Adds(r)}) \ {x \in {Here(r).on} : Removes(r)}
  /\ runner' = [runner EXCEPT ![r].pc = "at_statement", ![r].at = @ + 1, ![r].saw = FALSE]
  /\ UNCHANGED <<applied, outcome, crossed, torn, runs>>

StatementFails(r) ==
  /\ r \in Running
  /\ ~AtEnd(r)
  /\ Due(r)
  /\ Refused(r)
  /\ Stop(r, "exit1")

(* INSERT INTO schema_migrations; on to the next file.                     *)
Record(r) ==
  /\ r \in Running
  /\ AtEnd(r)
  /\ File(r) \notin applied
  /\ applied' = applied \cup {File(r)}
  /\ LET left == runner[r].todo \ {File(r)} IN
       /\ runner' = [runner EXCEPT ![r] = IF left = {} THEN Off
                                          ELSE [Off EXCEPT !.pc = "at_statement", !.todo = left]]
       /\ outcome' = [outcome EXCEPT ![r] = IF left = {} THEN "exit0" ELSE @]
  /\ UNCHANGED <<present, crossed, torn, runs>>

(* filename is UNIQUE: somebody has recorded the file in the meantime.     *)
RecordFails(r) ==
  /\ r \in Running
  /\ AtEnd(r)
  /\ File(r) \in applied
  /\ Stop(r, "exit1")

(* The process is killed or loses its connection, at any statement.        *)
Killed(r) ==
  /\ r \in Running
  /\ Stop(r, "killed")

Next ==
  \E r \in Runners :
    \/ Start(r) \/ Look(r) \/ Execute(r) \/ StatementFails(r)
    \/ Record(r) \/ RecordFails(r) \/ Killed(r)

------------------------------------------------------------------------------
(***************************************************************************)
(* "Safe to re-run on existing databases" (0002_product_constraints.sql:2) *)
(* and "Safe, trackable" (migrate.js:3): wherever earlier runs stopped, a  *)
(* run nobody crosses is never refused by MySQL; and a recorded file has   *)
(* all its changes in place, unless another runner that had begun the same *)
(* file is, or was cut short, between its DROP and its ADD.                *)
(***************************************************************************)
RerunIsSafe ==
  /\ \A r \in Runners : outcome[r] = "exit1" => r \in crossed
  /\ \A f \in applied : InPlace(f) \/ f \in torn \/ f \in CutShort(Running)
=============================================================================
