------------------------------- MODULE MCServer -------------------------------
(***************************************************************************)
(* Parts of the server that share no state these modules keep: evidence    *)
(* reports, the connection pool, the migration runner.  One run takes them *)
(* one at a time: the initial state chooses the part, the others stay      *)
(* where they begin.                                                       *)
(***************************************************************************)
EXTENDS Integers, Sequences, FiniteSets, TLC

CONSTANTS
  Reports, Periods, Nothing,
  Conns, Requests, Readers, QueueLimit,
  Runners, MaxRuns,
  Handlers

VARIABLES
  part,
  row, file, plain, job, handler, torn, dead,
  owner, queue, pc,
  present, applied, runner, outcome, crossed, halfway, runs

Archive    == INSTANCE ReportArchive
Pool       == INSTANCE ConnPool WITH Handlers <- Requests, Nobody <- Nothing
Migrations == INSTANCE Migrations WITH torn <- halfway

ASSUME ServerAssumption ==
  /\ Archive!ArchiveAssumption
  /\ Pool!PoolAssumption

Parts == {"archive", "pool", "migrations"}

TypeOK ==
  /\ part \in Parts
  /\ Archive!TypeOK
  /\ Pool!TypeOK
  /\ Migrations!TypeOK

archiveVars   == <<row, file, plain, job, handler, torn, dead>>
poolVars      == <<owner, queue, pc>>
migrationVars == <<present, applied, runner, outcome, crossed, halfway, runs>>

vars == <<part, archiveVars, poolVars, migrationVars>>

(* The parts that do not run begin in one way, whichever it is.            *)
Init ==
  /\ part \in Parts
  /\ Archive!Init
  /\ Pool!Init
  /\ Migrations!Init /\ (part # "migrations" => present = {"payments"})

Next ==
  \/ /\ part = "archive"
     /\ Archive!Next
     /\ UNCHANGED <<part, poolVars, migrationVars>>
  \/ /\ part = "pool"
     /\ Pool!Next
     /\ UNCHANGED <<part, archiveVars, migrationVars>>
  \/ /\ part = "migrations"
     /\ Migrations!Next
     /\ UNCHANGED <<part, archiveVars, poolVars>>

Spec == Init /\ [][Next]_vars

(* Queries and streams come back, with a result or an error.               *)
JobMoves(r) ==
  /\ part = "archive"
  /\ Archive!JobStepOf(r) \/ Archive!Break(r)
  /\ UNCHANGED <<part, poolVars, migrationVars>>

RequestMoves(h) ==
  /\ part = "pool"
  /\ Pool!Step(h)
  /\ UNCHANGED <<part, archiveVars, migrationVars>>

FairSpec ==
  /\ Spec
  /\ \A r \in Reports : WF_vars(JobMoves(r))
  /\ \A h \in Requests : WF_vars(RequestMoves(h))

(* ReportArchive: what is offered for download can be decrypted.           *)
ReadyCanBeRead == Archive!ReadyCanBeRead

(* ReportArchive: no plaintext outlives its job.                           *)
PlaintextGoes == Archive!PlaintextGoes

(* ReportArchive: a period that is refused is really being reported on.    *)
RefusalIsTrue == Archive!RefusalIsTrue

(* ReportArchive: every report asked for ends one way or the other.        *)
EveryReportSettles ==
  \A r \in Reports :
    row[r].status \in Archive!Active ~> row[r].status \notin Archive!Active \/ r \in dead

(* ConnPool: connections and waiters agree with where the requests stand.  *)
PoolAccounted == Pool!PoolAccounted

(* ConnPool: every request for a connection is answered, unless every      *)
(* connection is with a handler that waits for a second one.               *)
RequestsEndOrExhaust == \A h \in Requests : pc[h] # "idle" ~> pc[h] = "idle" \/ Pool!Exhausted

(* Migrations: an undisturbed run goes through, a recorded file is in.     *)
RerunIsSafe == Migrations!RerunIsSafe
=============================================================================
