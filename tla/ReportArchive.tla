----------------------------- MODULE ReportArchive -----------------------------
(***************************************************************************)
(* Evidence reports (backend/services/reportArchiveService.js): a request  *)
(* inserts a row and starts a job; the job stages plaintext, encrypts it   *)
(* into the file of the report, records the key in the row and removes the *)
(* plaintext.  Administrators and the retention sweep delete the file and  *)
(* then the key.  Rows are in MySQL and files on disk; jobs and handlers   *)
(* die with the process.                                                   *)
(* The set activeGenerationLocks is left out: it holds report ids, a fresh *)
(* id for each request, so its test (line 828) never refuses one.          *)
(***************************************************************************)
EXTENDS Integers, FiniteSets

CONSTANTS
  Reports,   \* the rows there can be
  Periods,
  Handlers,  \* admin requests that can be at work at once
  Nothing

ArchiveAssumption == Nothing \notin Reports \cup Periods

VARIABLES
  row,      \* table admin_report_archives
  file,     \* <report_id>.zip.enc
  plain,    \* is there plaintext of the report on disk?
  job,      \* where the job of a report stands
  handler,  \* each handler: where it stands, the period or report it is on,
            \* the reports it still has to delete and those whose path it read
  torn,     \* history: reports whose deletion was cut short
  dead      \* history: reports whose job died with the process

vars == <<row, file, plain, job, handler, torn, dead>>

Status == {"none", "PENDING", "GENERATING", "READY", "FAILED", "DELETED"}
Active == {"PENDING", "GENERATING"}
Row == [status : Status, period : Periods \cup {Nothing}, path : BOOLEAN,
        key : BOOLEAN]
NoRow == [status |-> "none", period |-> Nothing, path |-> FALSE,
          key |-> FALSE]
JobStep == {"none", "queued", "staging", "encrypting", "recording", "failing", "cleaning"}
Handler == [pc : {"idle", "inserting", "unlinking", "marking"},
            on : Periods \cup Reports \cup {Nothing},
            todo : SUBSET Reports, seen : SUBSET Reports]
Idle == [pc |-> "idle", on |-> Nothing, todo |-> {}, seen |-> {}]

TypeOK ==
  /\ row \in [Reports -> Row]
  /\ file \in [Reports -> {"absent", "partial", "whole"}]
  /\ plain \in [Reports -> BOOLEAN]
  /\ job \in [Reports -> JobStep]
  /\ handler \in [Handlers -> Handler]
  /\ torn \subseteq Reports
  /\ dead \subseteq Reports
  /\ \A h \in Handlers :
       /\ handler[h].pc = "unlinking" => handler[h].todo # {}
       /\ handler[h].pc = "marking" => handler[h].on \in Reports

Init ==
  /\ row = [r \in Reports |-> NoRow]
  /\ file = [r \in Reports |-> "absent"]
  /\ plain = [r \in Reports |-> FALSE]
  /\ job = [r \in Reports |-> "none"]
  /\ handler = [h \in Handlers |-> Idle]
  /\ torn = {}
  /\ dead = {}

------------------------------------------------------------------------------
(* initiateReportGeneration: look for an active row of the period, then    *)
(* insert one and start its job.                                           *)
ActiveRows(p) == {r \in Reports : row[r].period = p /\ row[r].status \in Active}

Ask(h, p) ==
  /\ handler[h] = Idle
  /\ ActiveRows(p) = {}
  /\ handler' = [handler EXCEPT ![h] = [Idle EXCEPT !.pc = "inserting", !.on = p]]
  /\ UNCHANGED <<row, file, plain, job, torn, dead>>

ForgetJob(h, r) ==   \* mutant: the row is there, the job never starts
  /\ handler[h].pc = "inserting"
  /\ row[r] = NoRow
  /\ row' = [row EXCEPT ![r].status = "PENDING", ![r].period = handler[h].on]
  /\ handler' = [handler EXCEPT ![h] = Idle]
  /\ UNCHANGED <<file, plain, job, torn, dead>>

Insert(h, r) ==
  /\ handler[h].pc = "inserting"
  /\ row[r] = NoRow
  /\ row' = [row EXCEPT ![r].status = "PENDING", ![r].period = handler[h].on]
  /\ job' = [job EXCEPT ![r] = "queued"]
  /\ handler' = [handler EXCEPT ![h] = Idle]
  /\ UNCHANGED <<file, plain, torn, dead>>

------------------------------------------------------------------------------
(* executeReportGenerationJob                                              *)
Start(r) ==
  /\ job[r] = "queued"
  /\ row' = [row EXCEPT ![r].status = "GENERATING"]
  /\ job' = [job EXCEPT ![r] = "staging"]
  /\ UNCHANGED <<file, plain, handler, torn, dead>>

Stage(r) ==
  /\ job[r] = "staging"
  /\ plain' = [plain EXCEPT ![r] = TRUE]
  /\ job' = [job EXCEPT ![r] = "encrypting"]
  /\ UNCHANGED <<row, file, handler, torn, dead>>

ReadyEarly(r) ==   \* mutant: the row is READY while the file is being written
  /\ job[r] = "encrypting"
  /\ file' = [file EXCEPT ![r] = "partial"]
  /\ row' = [row EXCEPT ![r].status = "READY", ![r].path = TRUE, ![r].key = TRUE]
  /\ job' = [job EXCEPT ![r] = "recording"]
  /\ UNCHANGED <<plain, handler, torn, dead>>

Encrypt(r) ==
  /\ job[r] = "encrypting"
  /\ file' = [file EXCEPT ![r] = "whole"]
  /\ job' = [job EXCEPT ![r] = "recording"]
  /\ UNCHANGED <<row, plain, handler, torn, dead>>

Record(r) ==
  /\ job[r] = "recording"
  /\ row' = [row EXCEPT ![r].status = "READY", ![r].path = TRUE, ![r].key = TRUE]
  /\ job' = [job EXCEPT ![r] = "cleaning"]
  /\ UNCHANGED <<file, plain, handler, torn, dead>>

(* A query, the staging or a stream fails, perhaps half done.              *)
Break(r) ==
  /\ job[r] \in {"queued", "staging", "encrypting", "recording"}
  /\ plain' = [plain EXCEPT ![r] = @ \/ job[r] = "staging"]
  /\ file' = [file EXCEPT ![r] = IF job[r] = "encrypting" THEN "partial" ELSE @]
  /\ job' = [job EXCEPT ![r] = "failing"]
  /\ UNCHANGED <<row, handler, torn, dead>>

SwallowError(r) ==   \* mutant: no FAILED
  /\ job[r] = "failing"
  /\ job' = [job EXCEPT ![r] = "cleaning"]
  /\ UNCHANGED <<row, file, plain, handler, torn, dead>>

Catch(r) ==
  /\ job[r] = "failing"
  /\ row' = [row EXCEPT ![r].status = "FAILED"]
  /\ job' = [job EXCEPT ![r] = "cleaning"]
  /\ UNCHANGED <<file, plain, handler, torn, dead>>

CleanOnSuccess(r) ==   \* mutant: at the end of the try block only
  /\ job[r] = "cleaning"
  /\ plain' = [plain EXCEPT ![r] = @ /\ row[r].status = "FAILED"]
  /\ job' = [job EXCEPT ![r] = "none"]
  /\ UNCHANGED <<row, file, handler, torn, dead>>

CleanUp(r) ==
  /\ job[r] = "cleaning"
  /\ plain' = [plain EXCEPT ![r] = FALSE]
  /\ job' = [job EXCEPT ![r] = "none"]
  /\ UNCHANGED <<row, file, handler, torn, dead>>

------------------------------------------------------------------------------
(* deleteReportArchive and cleanExpiredArchives: read the rows, then for   *)
(* each unlink the file the row named and mark the row.                    *)
Deleting(h, S) ==
  handler' = [handler EXCEPT ![h] =
    [Idle EXCEPT !.pc = "unlinking", !.todo = S, !.seen = {r \in S : row[r].path}]]

FindReport(h, r) ==
  /\ handler[h] = Idle
  /\ row[r] # NoRow
  /\ Deleting(h, {r})
  /\ UNCHANGED <<row, file, plain, job, torn, dead>>

(* expires_at of any of them may have passed: it is days after the job's   *)
(* end (env.js:146).                                                       *)
Expirable == {r \in Reports : row[r] # NoRow /\ job[r] = "none" /\ row[r].status # "DELETED"}

SelectExpired(h) ==
  /\ handler[h] = Idle
  /\ \E S \in (SUBSET Expirable) \ {{}} : Deleting(h, S)
  /\ UNCHANGED <<row, file, plain, job, torn, dead>>

Unlink(h) ==
  /\ handler[h].pc = "unlinking"
  /\ \E r \in handler[h].todo :
       /\ file' = [file EXCEPT ![r] = IF r \in handler[h].seen THEN "absent" ELSE @]
       /\ handler' = [handler EXCEPT ![h].pc = "marking", ![h].on = r,
                                       ![h].todo = @ \ {r}, ![h].seen = @ \ {r}]
  /\ UNCHANGED <<row, plain, job, torn, dead>>

Mark(h) ==
  LET r == handler[h].on IN
  /\ handler[h].pc = "marking"
  /\ row' = [row EXCEPT ![r].status = "DELETED", ![r].path = FALSE, ![r].key = FALSE]
  /\ handler' = [handler EXCEPT ![h] =
       IF @.todo = {} THEN Idle ELSE [@ EXCEPT !.pc = "unlinking", !.on = Nothing]]
  /\ UNCHANGED <<file, plain, job, torn, dead>>

CutShort(H) == {r \in Reports : \E h \in H : handler[h].pc = "marking" /\ handler[h].on = r}

(* A query of the handler fails.                                           *)
HandlerFails(h) ==
  /\ handler[h] # Idle
  /\ torn' = torn \cup CutShort({h})
  /\ handler' = [handler EXCEPT ![h] = Idle]
  /\ UNCHANGED <<row, file, plain, job, dead>>

------------------------------------------------------------------------------
(* The process dies and comes back; nothing looks for what it left.        *)
Crash ==
  /\ file' = [r \in Reports |-> IF job[r] = "encrypting" THEN "partial" ELSE file[r]]
  /\ plain' = [r \in Reports |-> plain[r] \/ job[r] = "staging"]
  /\ job' = [r \in Reports |-> "none"]
  /\ torn' = torn \cup CutShort(Handlers)
  /\ dead' = dead \cup {r \in Reports : job[r] # "none"}
  /\ handler' = [h \in Handlers |-> Idle]
  /\ UNCHANGED row

JobStepOf(r) ==
  \/ Start(r) \/ Stage(r) \/ Encrypt(r) \/ Record(r) \/ Catch(r) \/ CleanUp(r)

Next ==
  \/ \E h \in Handlers :
       \/ \E p \in Periods : Ask(h, p)
       \/ \E r \in Reports : Insert(h, r) \/ FindReport(h, r)
       \/ SelectExpired(h) \/ Unlink(h) \/ Mark(h) \/ HandlerFails(h)
  \/ \E r \in Reports : JobStepOf(r) \/ Break(r)
  \/ Crash

Spec == Init /\ [][Next]_vars

(* Queries and streams come back, with a result or an error.               *)
FairSpec == Spec /\ \A r \in Reports : WF_vars(JobStepOf(r) \/ Break(r))

------------------------------------------------------------------------------
(***************************************************************************)
(* A report offered for download can be decrypted: its file is complete    *)
(* and its key is there, whatever other jobs, deletions and sweeps do,     *)
(* unless a deletion stands, or was cut short, between unlink and UPDATE.  *)
(***************************************************************************)
ReadyCanBeRead ==
  \A r \in Reports :
    (row[r].status = "READY" /\ r \notin torn \cup CutShort(Handlers))
      => file[r] = "whole" /\ row[r].path /\ row[r].key

(***************************************************************************)
(* "Strict cleanup: delete all temporary unencrypted files" (line 794):    *)
(* every end of a job, failures at any step included, takes the plaintext  *)
(* with it.  Only a job that dies with the process leaves some.            *)
(***************************************************************************)
PlaintextGoes ==
  \A r \in Reports : plain[r] => job[r] # "none" \/ r \in dead

(***************************************************************************)
(* "A report for period ... is already being generated" (line 840): a row  *)
(* that refuses new requests for its period has a job at work, or is what  *)
(* a dead process left (nothing resets such a row).                        *)
(***************************************************************************)
RefusalIsTrue ==
  \A r \in Reports : row[r].status \in Active => job[r] # "none" \/ r \in dead

(***************************************************************************)
(* Every report asked for becomes READY, FAILED or DELETED, and its period *)
(* can be asked for again, unless its job dies with the process.           *)
(***************************************************************************)
EveryReportSettles ==
  \A r \in Reports :
    row[r].status \in Active ~> row[r].status \notin Active \/ r \in dead
=============================================================================
