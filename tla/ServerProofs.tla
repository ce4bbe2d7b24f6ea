----------------------------- MODULE ServerProofs -----------------------------
(***************************************************************************)
(* Theorems about the parts of MCServer, for every number of reports,      *)
(* handlers, connections, places in the queue and migration runners.  A    *)
(* part moves by its own steps or not at all, so each has its inductive    *)
(* invariant, and each is proved from that part's module.                  *)
(***************************************************************************)
EXTENDS MCServer, FiniteSetTheorems, SequenceTheorems, TLAPS

------------------------------------------------------------------------------
(***************************************************************************)
(* Evidence reports.  A deletion unlinks a file only if it saw its path in *)
(* the row, which the job writes in its last step but one: so a file that  *)
(* is still being written is never unlinked.                               *)
(***************************************************************************)
Finished(r) == job[r] \in {"cleaning", "none"}

ReportInv(r) ==
  /\ row[r].status = "none" => row[r] = Archive!NoRow
  /\ job[r] # "none" => row[r].status # "none"
  /\ job[r] = "recording" => file[r] = "whole"
  /\ job[r] = "cleaning" => row[r].status \notin Archive!Active
  /\ row[r].path \/ row[r].status = "READY" =>
       Finished(r) /\ row[r].status # "none"
  /\ row[r].status = "READY" => row[r].path /\ row[r].key

DeletionInv(h) ==
  /\ handler[h].pc = "inserting" => handler[h].on \in Periods
  /\ \A r \in handler[h].seen : Finished(r) /\ row[r].status # "none"

ArchiveInv ==
  /\ Archive!TypeOK
  /\ \A r \in Reports : ReportInv(r)
  /\ \A h \in Handlers : DeletionInv(h)
  /\ Archive!ReadyCanBeRead /\ Archive!PlaintextGoes /\ Archive!RefusalIsTrue

(* A row that was never inserted, and a handler that does nothing.         *)
LEMMA ArchiveRest ==
  /\ Archive!NoRow \in Archive!Row
  /\ Archive!NoRow.status = "none" /\ ~Archive!NoRow.path
  /\ Archive!Idle \in Archive!Handler
  /\ Archive!Idle.pc = "idle" /\ Archive!Idle.seen = {}
BY DEF Archive!NoRow, Archive!Row, Archive!Status, Archive!Idle, Archive!Handler

LEMMA ArchiveInit == Archive!Init => ArchiveInv
BY ArchiveRest
   DEF Archive!Init, ArchiveInv, Archive!TypeOK, ReportInv, DeletionInv, Finished,
       Archive!ReadyCanBeRead, Archive!PlaintextGoes, Archive!RefusalIsTrue,
       Archive!Active, Archive!JobStep

(* A step of a job changes nothing but its own report.                     *)
LEMMA JobKeeps ==
  ASSUME ArchiveInv, NEW r \in Reports, Archive!JobStepOf(r) \/ Archive!Break(r)
  PROVE  ArchiveInv'
<1>. USE DEF ArchiveInv, Archive!TypeOK
<1>1. UNCHANGED <<handler, torn, dead>>
  BY DEF Archive!JobStepOf, Archive!Start, Archive!Stage, Archive!Encrypt,
         Archive!Record, Archive!Catch, Archive!CleanUp, Archive!Break
<1>2. /\ row' \in [Reports -> Archive!Row]
      /\ file' \in [Reports -> {"absent", "partial", "whole"}]
      /\ plain' \in [Reports -> BOOLEAN]
      /\ job' \in [Reports -> Archive!JobStep]
      /\ \A q \in Reports \ {r} : /\ row'[q] = row[q] /\ file'[q] = file[q]
                                  /\ plain'[q] = plain[q] /\ job'[q] = job[q]
  <2>. USE DEF Archive!Row, Archive!Status, Archive!JobStep
  <2>1. CASE Archive!Start(r)
    BY <2>1 DEF Archive!Start
  <2>2. CASE Archive!Stage(r)
    BY <2>2 DEF Archive!Stage
  <2>3. CASE Archive!Encrypt(r)
    BY <2>3 DEF Archive!Encrypt
  <2>4. CASE Archive!Record(r)
    <3>. DEFINE ready == [row[r] EXCEPT !.status = "READY", !.path = TRUE, !.key = TRUE]
    <3>1. ready \in Archive!Row
      OBVIOUS
    <3>2. row' = [row EXCEPT ![r] = ready]
      BY <2>4 DEF Archive!Record
    <3>3. row' \in [Reports -> Archive!Row]
      BY ONLY <3>1, <3>2, row \in [Reports -> Archive!Row]
    <3>. QED
      BY <2>4, <3>3 DEF Archive!Record
  <2>5. CASE Archive!Catch(r)
    BY <2>5 DEF Archive!Catch
  <2>6. CASE Archive!CleanUp(r)
    BY <2>6 DEF Archive!CleanUp
  <2>7. CASE Archive!Break(r)
    BY <2>7 DEF Archive!Break
  <2>. QED
    BY <2>1, <2>2, <2>3, <2>4, <2>5, <2>6, <2>7 DEF Archive!JobStepOf
<1>3. /\ ReportInv(r)'
      /\ job[r] # "none"
      /\ Finished(r) => Finished(r)'
      /\ row'[r].status # "none"
      /\ row'[r].status = "READY" =>
           (row[r].status = "READY" /\ file'[r] = file[r]) \/ file'[r] = "whole"
      /\ plain'[r] => job'[r] # "none"
      /\ row'[r].status \in Archive!Active => job'[r] # "none"
  <2>. USE DEF ReportInv, Finished, Archive!Active, Archive!Row, Archive!Status
  <2>1. CASE Archive!Start(r)
    BY <2>1 DEF Archive!Start
  <2>2. CASE Archive!Stage(r)
    BY <2>2 DEF Archive!Stage
  <2>3. CASE Archive!Encrypt(r)
    BY <2>3 DEF Archive!Encrypt
  <2>4. CASE Archive!Record(r)
    BY <2>4 DEF Archive!Record
  <2>5. CASE Archive!Catch(r)
    BY <2>5 DEF Archive!Catch
  <2>6. CASE Archive!CleanUp(r)
    BY <2>6 DEF Archive!CleanUp
  <2>7. CASE Archive!Break(r)
    BY <2>7 DEF Archive!Break
  <2>. QED
    BY <2>1, <2>2, <2>3, <2>4, <2>5, <2>6, <2>7 DEF Archive!JobStepOf
<1>4. Archive!TypeOK'
  BY <1>1, <1>2
<1>5. \A q \in Reports : ReportInv(q)'
  BY <1>2, <1>3 DEF ReportInv, Finished
<1>6. \A h \in Handlers : DeletionInv(h)'
  BY <1>1, <1>2, <1>3 DEF DeletionInv, Finished, Archive!Handler
<1>7. Archive!ReadyCanBeRead'
  BY <1>1, <1>2, <1>3, <1>5 DEF Archive!ReadyCanBeRead, Archive!CutShort, ReportInv
<1>8. Archive!PlaintextGoes' /\ Archive!RefusalIsTrue'
  BY <1>1, <1>2, <1>3 DEF Archive!PlaintextGoes, Archive!RefusalIsTrue
<1>. QED
  BY <1>4, <1>5, <1>6, <1>7, <1>8

(* What the handlers do: ask, insert, delete, sweep, fail.                 *)
HandlerMoves(h) ==
  \/ \E p \in Periods : Archive!Ask(h, p)
  \/ \E r \in Reports : Archive!FindReport(h, r)
  \/ Archive!SelectExpired(h)
  \/ Archive!HandlerFails(h)

Moved(h) ==
  /\ handler' \in [Handlers -> Archive!Handler]
  /\ \A g \in Handlers \ {h} : handler'[g] = handler[g]
  /\ handler'[h].pc # "marking"
  /\ handler'[h].pc = "unlinking" => handler'[h].todo # {}
  /\ DeletionInv(h)'
  /\ handler[h].pc = "marking" => handler[h].on \in torn'

LEMMA HandlerKeeps ==
  ASSUME ArchiveInv, NEW h \in Handlers, HandlerMoves(h)
  PROVE  ArchiveInv'
<1>. USE ArchiveRest DEF ArchiveInv, Archive!TypeOK
<1>1. UNCHANGED <<row, file, plain, job, dead>> /\ torn \subseteq torn' /\ torn' \subseteq Reports
  BY DEF HandlerMoves, Archive!Ask, Archive!FindReport, Archive!SelectExpired,
         Archive!HandlerFails, Archive!CutShort
<1>2. Moved(h)
  <2>. USE DEF Moved
  <2>1. ASSUME NEW p \in Periods, Archive!Ask(h, p)
        PROVE  Moved(h)
    <3>. DEFINE asked == [Archive!Idle EXCEPT !.pc = "inserting", !.on = p]
    <3>1. asked \in Archive!Handler /\ asked.pc = "inserting" /\ asked.on = p /\ asked.seen = {}
      BY DEF Archive!Handler
    <3>. QED
      BY <1>1, <2>1, <3>1 DEF Archive!Ask, DeletionInv
  <2>2. ASSUME NEW S \in (SUBSET Reports) \ {{}}, Archive!Deleting(h, S),
               handler[h] = Archive!Idle, \A r \in S : row[r].status # "none"
        PROVE  Moved(h)
    <3>. DEFINE doing == [Archive!Idle EXCEPT !.pc = "unlinking", !.todo = S,
                                             !.seen = {r \in S : row[r].path}]
    <3>1. /\ doing \in Archive!Handler /\ doing.pc = "unlinking" /\ doing.todo = S
          /\ doing.seen = {r \in S : row[r].path}
      BY DEF Archive!Handler
    <3>2. handler' = [handler EXCEPT ![h] = doing]
      BY <2>2 DEF Archive!Deleting
    <3>3. \A r \in doing.seen : Finished(r)' /\ row'[r].status # "none"
      BY <1>1, <2>2, <3>1 DEF ReportInv, Finished
    <3>. HIDE DEF doing
    <3>. QED
      BY <2>2, <3>1, <3>2, <3>3 DEF DeletionInv
  <2>3. CASE Archive!HandlerFails(h)
    BY <2>3 DEF Archive!HandlerFails, Archive!CutShort, DeletionInv
  <2>4. ASSUME NEW r \in Reports, Archive!FindReport(h, r)
        PROVE  Moved(h)
    <3>1. row[r].status # "none" /\ {r} \in (SUBSET Reports) \ {{}}
      BY <2>4 DEF Archive!FindReport, ReportInv
    <3>. QED
      BY <2>4, <2>2, <3>1 DEF Archive!FindReport
  <2>5. CASE Archive!SelectExpired(h)
    <3>1. PICK S \in (SUBSET Archive!Expirable) \ {{}} :
            Archive!Deleting(h, S) /\ handler[h] = Archive!Idle
      BY <2>5 DEF Archive!SelectExpired
    <3>2. \A r \in S : r \in Reports /\ row[r].status # "none"
      BY <3>1 DEF Archive!Expirable, ReportInv
    <3>3. S \in (SUBSET Reports) \ {{}}
      BY <3>1, <3>2
    <3>. QED
      BY <2>2, <3>1, <3>2, <3>3
  <2>. QED
    BY <2>1, <2>3, <2>4, <2>5 DEF HandlerMoves
<1>3. Archive!TypeOK'
  BY <1>1, <1>2 DEF Moved
<1>4. \A r \in Reports : ReportInv(r)'
  BY <1>1 DEF ReportInv, Finished
<1>5. \A g \in Handlers : DeletionInv(g)'
  BY <1>1, <1>2 DEF Moved, DeletionInv, Finished
<1>6. Archive!ReadyCanBeRead'
  BY <1>1, <1>2 DEF Moved, Archive!ReadyCanBeRead, Archive!CutShort
<1>7. Archive!PlaintextGoes' /\ Archive!RefusalIsTrue'
  BY <1>1 DEF Archive!PlaintextGoes, Archive!RefusalIsTrue
<1>. QED
  BY <1>3, <1>4, <1>5, <1>6, <1>7

(* A row and a job for each report asked for.                              *)
LEMMA InsertKeeps ==
  ASSUME ArchiveInv, NEW h \in Handlers, NEW r \in Reports, Archive!Insert(h, r)
  PROVE  ArchiveInv'
<1>. USE ArchiveRest DEF ArchiveInv, Archive!TypeOK
<1>1. UNCHANGED <<file, plain, torn, dead>>
  BY DEF Archive!Insert
<1>2. /\ handler' \in [Handlers -> Archive!Handler]
      /\ \A g \in Handlers \ {h} : handler'[g] = handler[g]
      /\ handler'[h] = Archive!Idle
      /\ handler[h].pc = "inserting" /\ handler[h].on \in Periods
  BY DEF Archive!Insert, DeletionInv
<1>3. /\ row' \in [Reports -> Archive!Row]
      /\ row'[r].status = "PENDING" /\ row'[r].path = FALSE
      /\ row[r].status = "none" /\ job[r] = "none"
      /\ \A q \in Reports \ {r} : row'[q] = row[q]
  BY <1>2 DEF Archive!Insert, Archive!Row, Archive!Status, ReportInv
<1>4. /\ job' \in [Reports -> Archive!JobStep]
      /\ job'[r] = "queued"
      /\ \A q \in Reports \ {r} : job'[q] = job[q]
  BY DEF Archive!Insert, Archive!JobStep
<1>5. Archive!TypeOK'
  BY <1>1, <1>2, <1>3, <1>4
<1>6. \A q \in Reports : ReportInv(q)'
  BY <1>1, <1>3, <1>4 DEF ReportInv, Finished, Archive!Active
<1>7. \A g \in Handlers : DeletionInv(g)'
  BY <1>2, <1>3, <1>4 DEF DeletionInv, Finished, Archive!Handler
<1>8. Archive!ReadyCanBeRead'
  BY <1>1, <1>2, <1>3 DEF Archive!ReadyCanBeRead, Archive!CutShort
<1>9. Archive!PlaintextGoes' /\ Archive!RefusalIsTrue'
  BY <1>1, <1>3, <1>4 DEF Archive!PlaintextGoes, Archive!RefusalIsTrue
<1>. QED
  BY <1>5, <1>6, <1>7, <1>8, <1>9

(* The file goes first, then the key.                                      *)
LEMMA UnlinkKeeps ==
  ASSUME ArchiveInv, NEW h \in Handlers, Archive!Unlink(h)
  PROVE  ArchiveInv'
<1>. USE DEF ArchiveInv, Archive!TypeOK
<1>1. UNCHANGED <<row, plain, job, torn, dead>> /\ handler[h].pc = "unlinking"
  BY DEF Archive!Unlink
<1>2. PICK r \in handler[h].todo :
        /\ file' = [file EXCEPT ![r] = IF r \in handler[h].seen THEN "absent" ELSE @]
        /\ handler' = [handler EXCEPT ![h].pc = "marking", ![h].on = r,
                                        ![h].todo = @ \ {r}, ![h].seen = @ \ {r}]
  BY DEF Archive!Unlink
<1>3. r \in Reports
  BY <1>2 DEF Archive!Handler
<1>4. /\ handler' \in [Handlers -> Archive!Handler]
      /\ \A g \in Handlers \ {h} : handler'[g] = handler[g]
      /\ handler'[h].pc = "marking" /\ handler'[h].on = r
      /\ handler'[h].seen \subseteq handler[h].seen
  BY <1>2, <1>3 DEF Archive!Handler
<1>5. /\ file' \in [Reports -> {"absent", "partial", "whole"}]
      /\ \A q \in Reports \ {r} : file'[q] = file[q]
      /\ job[r] = "recording" => file'[r] = file[r]
  BY <1>2, <1>3 DEF DeletionInv, Finished
<1>6. Archive!TypeOK'
  BY <1>1, <1>3, <1>4, <1>5
<1>7. \A q \in Reports : ReportInv(q)'
  BY <1>1, <1>5 DEF ReportInv, Finished
<1>8. \A g \in Handlers : DeletionInv(g)'
  BY <1>1, <1>4 DEF DeletionInv, Finished
<1>9. Archive!ReadyCanBeRead'
  BY <1>1, <1>3, <1>4, <1>5 DEF Archive!ReadyCanBeRead, Archive!CutShort
<1>10. Archive!PlaintextGoes' /\ Archive!RefusalIsTrue'
  BY <1>1 DEF Archive!PlaintextGoes, Archive!RefusalIsTrue
<1>. QED
  BY <1>6, <1>7, <1>8, <1>9, <1>10

LEMMA MarkKeeps ==
  ASSUME ArchiveInv, NEW h \in Handlers, Archive!Mark(h)
  PROVE  ArchiveInv'
<1>. USE ArchiveRest DEF ArchiveInv, Archive!TypeOK
<1>. DEFINE r == handler[h].on
<1>1. /\ UNCHANGED <<file, plain, job, torn, dead>>
      /\ handler[h].pc = "marking" /\ r \in Reports
  BY DEF Archive!Mark
<1>2. /\ row' \in [Reports -> Archive!Row]
      /\ row'[r].status = "DELETED" /\ row'[r].path = FALSE
      /\ \A q \in Reports \ {r} : row'[q] = row[q]
  BY <1>1 DEF Archive!Mark, Archive!Row, Archive!Status
<1>3. /\ handler' \in [Handlers -> Archive!Handler]
      /\ \A g \in Handlers \ {h} : handler'[g] = handler[g]
      /\ handler'[h].pc \in {"idle", "unlinking"}
      /\ handler'[h].pc = "unlinking" => handler'[h].todo # {}
      /\ handler'[h].seen \subseteq handler[h].seen
  BY DEF Archive!Mark, Archive!Handler
<1>4. Archive!TypeOK'
  BY <1>1, <1>2, <1>3
<1>5. \A q \in Reports : ReportInv(q)'
  BY <1>1, <1>2 DEF ReportInv, Finished, Archive!Active
<1>6. \A g \in Handlers : DeletionInv(g)'
  <2>1. \A q \in Reports : /\ row[q].status # "none" => row'[q].status # "none"
                           /\ Finished(q) => Finished(q)'
    BY <1>1, <1>2 DEF Finished
  <2>2. handler[h].seen \subseteq Reports
    BY DEF Archive!Handler
  <2>3. DeletionInv(h)'
    BY <1>3, <2>1, <2>2 DEF DeletionInv
  <2>4. ASSUME NEW g \in Handlers \ {h}
        PROVE  DeletionInv(g)'
    <3>1. handler'[g] = handler[g] /\ handler[g].seen \subseteq Reports
      BY <1>3 DEF Archive!Handler
    <3>. QED
      BY <2>1, <3>1 DEF DeletionInv
  <2>. QED
    BY <2>3, <2>4
<1>7. Archive!ReadyCanBeRead'
  BY <1>1, <1>2, <1>3 DEF Archive!ReadyCanBeRead, Archive!CutShort
<1>8. Archive!PlaintextGoes' /\ Archive!RefusalIsTrue'
  BY <1>1, <1>2 DEF Archive!PlaintextGoes, Archive!RefusalIsTrue, Archive!Active
<1>. QED
  BY <1>4, <1>5, <1>6, <1>7, <1>8

(* The process dies: jobs and handlers go, rows and files stay.            *)
LEMMA CrashKeeps ==
  ASSUME ArchiveInv, Archive!Crash
  PROVE  ArchiveInv'
<1>. USE ArchiveRest DEF ArchiveInv, Archive!TypeOK, Archive!Crash
<1>1. Archive!TypeOK'
  BY DEF Archive!JobStep, Archive!CutShort
<1>2. \A r \in Reports : ReportInv(r)'
  BY DEF ReportInv, Finished
<1>3. \A h \in Handlers : DeletionInv(h)'
  BY DEF DeletionInv
<1>4. Archive!ReadyCanBeRead'
  BY DEF Archive!ReadyCanBeRead, Archive!CutShort, ReportInv, Finished
<1>5. Archive!PlaintextGoes' /\ Archive!RefusalIsTrue'
  BY DEF Archive!PlaintextGoes, Archive!RefusalIsTrue
<1>. QED
  BY <1>1, <1>2, <1>3, <1>4, <1>5

LEMMA ArchiveStep ==
  ASSUME ArchiveInv, Archive!Next \/ UNCHANGED archiveVars
  PROVE  ArchiveInv'
<1>1. CASE Archive!Next
  BY <1>1, JobKeeps, HandlerKeeps, InsertKeeps, UnlinkKeeps, MarkKeeps, CrashKeeps
     DEF Archive!Next, HandlerMoves
<1>2. CASE UNCHANGED archiveVars
  BY <1>2
     DEF archiveVars, ArchiveInv, Archive!TypeOK, ReportInv, DeletionInv, Finished,
         Archive!ReadyCanBeRead, Archive!CutShort, Archive!PlaintextGoes,
         Archive!RefusalIsTrue
<1>. QED
  BY <1>1, <1>2

------------------------------------------------------------------------------
(***************************************************************************)
(* The connection pool.  Nobody is in the queue twice, so a release that   *)
(* hands a connection to the first of it takes exactly one waiter away.    *)
(***************************************************************************)
Waits == {"waiting", "waitingAgain"}

Count(step) == CASE step \in {"idle", "waiting"}                   -> 0
                 [] step \in {"working", "waitingAgain", "ending"} -> 1
                 [] OTHER                                          -> 2

Distinct == \A i, j \in 1..Len(queue) : queue[i] = queue[j] => i = j

(* PoolAccounted, with the connections of a handler counted by its step.   *)
Counted ==
  /\ \A h \in Requests : Cardinality(Pool!Held(h)) = Count(pc[h])
  /\ Pool!InQueue = {h \in Requests : pc[h] \in Waits}
  /\ Cardinality(Pool!InQueue) = Len(queue)
  /\ queue # <<>> => Pool!Free = {}

PoolInv ==
  /\ Pool!TypeOK
  /\ Counted
  /\ Distinct

LEMMA CountedIsAccounted == Counted => PoolAccounted
<1>1. \A h \in Requests : Pool!Owns(h) = Count(pc[h])
  BY DEF Pool!Owns, Count
<1>2. \A S : Pool!Cardinality(S) = Cardinality(S)
  BY DEF Pool!Cardinality, Cardinality
<1>. QED
  BY <1>1, <1>2 DEF Counted, Waits, PoolAccounted, Pool!PoolAccounted

LEMMA HeldFinite ==
  ASSUME PoolInv
  PROVE  /\ \A h : IsFiniteSet(Pool!Held(h))
         /\ IsFiniteSet(Pool!InQueue)
<1>0. IsFiniteSet(Conns) /\ IsFiniteSet(Requests)
  BY ServerAssumption DEF Pool!PoolAssumption, Pool!IsFiniteSet, IsFiniteSet
<1>1. ASSUME NEW h
      PROVE  IsFiniteSet(Pool!Held(h))
  <2>1. Pool!Held(h) \in SUBSET Conns
    BY DEF Pool!Held
  <2>. QED
    BY <1>0, <2>1, FS_Subset
<1>2. Pool!InQueue \in SUBSET Requests
  BY DEF PoolInv, Counted
<1>3. IsFiniteSet(Pool!InQueue)
  BY <1>0, <1>2, FS_Subset
<1>. QED
  BY <1>1, <1>3

LEMMA PoolInit == Pool!Init => PoolInv
<1>. SUFFICES ASSUME Pool!Init
              PROVE  PoolInv
  OBVIOUS
<1>1. Pool!TypeOK /\ Len(queue) = 0
  BY EmptySeq, ServerAssumption DEF Pool!Init, Pool!TypeOK, Pool!Steps, Pool!PoolAssumption
<1>2. \A h \in Requests : Pool!Held(h) = {} /\ Count(pc[h]) = 0 /\ pc[h] \notin Waits
  BY ServerAssumption DEF Pool!Init, Pool!Held, Pool!PoolAssumption, Count, Waits
<1>3. Pool!InQueue = {}
  BY <1>1 DEF Pool!InQueue
<1>4. Counted
  BY <1>1, <1>2, <1>3, FS_EmptySet DEF Pool!Init, Counted
<1>. QED
  BY <1>1, <1>4 DEF PoolInv, Distinct

(* A handler asks: it has one connection more, waits, or is refused.       *)
LEMMA GetKeeps ==
  ASSUME PoolInv, NEW h \in Requests,
         NEW got \in Pool!Steps \ Waits, NEW wait \in Waits, NEW refused \in Pool!Steps \ Waits,
         pc[h] \notin Waits, Count(got) = Count(pc[h]) + 1,
         Count(wait) = Count(pc[h]), Count(refused) = Count(pc[h]),
         Pool!GetConnection(h, got, wait, refused)
  PROVE  PoolInv'
<1>. USE DEF PoolInv, Pool!TypeOK
<1>0. /\ \A g \in Requests : Cardinality(Pool!Held(g)) = Count(pc[g])
      /\ Pool!InQueue = {g \in Requests : pc[g] \in Waits}
      /\ Cardinality(Pool!InQueue) = Len(queue)
      /\ queue # <<>> => Pool!Free = {}
      /\ Len(queue) \in Nat /\ QueueLimit \in Nat /\ Nothing \notin Requests
      /\ wait \in Pool!Steps
  BY LenProperties, ServerAssumption DEF Counted, Pool!PoolAssumption, Waits, Pool!Steps
<1>1. ASSUME NEW c \in Pool!Free,
             owner' = [owner EXCEPT ![c] = h], pc' = [pc EXCEPT ![h] = got], UNCHANGED queue
      PROVE  PoolInv'
  <2>1. Pool!Held(h)' = Pool!Held(h) \cup {c} /\ c \notin Pool!Held(h)
    BY <1>0, <1>1 DEF Pool!Held, Pool!Free
  <2>2. \A g \in Requests \ {h} : Pool!Held(g)' = Pool!Held(g)
    BY <1>0, <1>1 DEF Pool!Held, Pool!Free
  <2>3. Cardinality(Pool!Held(h)') = Count(pc'[h])
    BY <1>0, <1>1, <2>1, HeldFinite, FS_AddElement
  <2>4. Pool!InQueue' = Pool!InQueue /\ queue = <<>>
    BY <1>0, <1>1 DEF Pool!InQueue
  <2>5. Pool!InQueue' = {g \in Requests : pc'[g] \in Waits}
    BY <1>0, <1>1, <2>4
  <2>6. Pool!TypeOK'
    BY <1>1 DEF Pool!Free
  <2>7. Counted'
    BY <1>0, <1>1, <2>2, <2>3, <2>4, <2>5 DEF Counted
  <2>. QED
    BY <1>1, <2>6, <2>7 DEF Distinct
<1>2. ASSUME Pool!Free = {}, Len(queue) < QueueLimit, queue' = Append(queue, h),
             pc' = [pc EXCEPT ![h] = wait], UNCHANGED owner
      PROVE  PoolInv'
  <2>1. /\ queue' \in Seq(Requests) /\ Len(queue') = Len(queue) + 1
        /\ \A i \in 1..Len(queue) : queue'[i] = queue[i]
        /\ queue'[Len(queue) + 1] = h
    BY <1>0, <1>2
  <2>2. h \notin Pool!InQueue
    BY <1>0
  <2>3. Pool!InQueue' = Pool!InQueue \cup {h}
    <3>1. \A i \in 1..Len(queue') : i = Len(queue) + 1 \/ i \in 1..Len(queue)
      BY <1>0, <2>1
    <3>2. 1..Len(queue) \subseteq 1..Len(queue') /\ Len(queue) + 1 \in 1..Len(queue')
      BY <1>0, <2>1
    <3>. QED
      BY <2>1, <3>1, <3>2 DEF Pool!InQueue
  <2>4. Cardinality(Pool!InQueue') = Len(queue')
    BY <1>0, <2>1, <2>2, <2>3, HeldFinite, FS_AddElement
  <2>5. Pool!InQueue' = {g \in Requests : pc'[g] \in Waits}
    BY <1>0, <1>2, <2>3
  <2>6. Distinct'
    <3>1. ASSUME NEW i \in 1..Len(queue'), NEW j \in 1..Len(queue'), queue'[i] = queue'[j]
          PROVE  i = j
      <4>1. \A k \in 1..Len(queue) : queue[k] # h
        BY <2>2 DEF Pool!InQueue
      <4>. QED
        BY <1>0, <2>1, <3>1, <4>1 DEF Distinct
    <3>. QED
      BY <3>1 DEF Distinct
  <2>7. /\ \A g \in Requests : Pool!Held(g)' = Pool!Held(g)
        /\ Pool!Free' = Pool!Free
    BY <1>2 DEF Pool!Held, Pool!Free
  <2>8. \A g \in Requests : Cardinality(Pool!Held(g)') = Count(pc'[g])
    BY <1>0, <1>2, <2>7
  <2>9. Pool!TypeOK'
    BY <1>0, <1>2, <2>1
  <2>10. Counted'
    BY <1>2, <2>4, <2>5, <2>7, <2>8 DEF Counted
  <2>. QED
    BY <2>6, <2>9, <2>10
<1>3. ASSUME pc' = [pc EXCEPT ![h] = refused], UNCHANGED <<owner, queue>>
      PROVE  PoolInv'
  <2>1. /\ \A g \in Requests : Pool!Held(g)' = Pool!Held(g)
        /\ Pool!Free' = Pool!Free /\ Pool!InQueue' = Pool!InQueue
    BY <1>3 DEF Pool!Held, Pool!Free, Pool!InQueue
  <2>2. \A g \in Requests : Cardinality(Pool!Held(g)') = Count(pc'[g])
    BY <1>0, <1>3, <2>1
  <2>3. Pool!InQueue' = {g \in Requests : pc'[g] \in Waits}
    BY <1>0, <1>3, <2>1
  <2>4. Counted'
    BY <1>0, <1>3, <2>1, <2>2, <2>3 DEF Counted
  <2>. QED
    BY <1>3, <2>4 DEF Distinct
<1>. QED
  BY <1>1, <1>2, <1>3 DEF Pool!GetConnection

(* A connection goes back to the pool, or straight to the first waiter.    *)
LEMMA ReleaseKeeps ==
  ASSUME PoolInv, NEW h \in Requests, NEW c \in Conns,
         NEW next \in Pool!Steps \ Waits,
         pc[h] \notin Waits, Count(pc[h]) = Count(next) + 1,
         Pool!Release(h, c, next)
  PROVE  PoolInv'
<1>. USE DEF PoolInv, Pool!TypeOK
<1>0. /\ \A g \in Requests : Cardinality(Pool!Held(g)) = Count(pc[g])
      /\ Pool!InQueue = {g \in Requests : pc[g] \in Waits}
      /\ Cardinality(Pool!InQueue) = Len(queue)
      /\ queue # <<>> => Pool!Free = {}
      /\ Len(queue) \in Nat /\ QueueLimit \in Nat /\ Nothing \notin Requests
      /\ Count(next) \in Nat
  BY LenProperties, ServerAssumption DEF Counted, Pool!PoolAssumption, Count
<1>1. owner[c] = h
  BY DEF Pool!Release
<1>2. ASSUME queue = <<>>, owner' = [owner EXCEPT ![c] = Nothing],
             pc' = [pc EXCEPT ![h] = next], UNCHANGED queue
      PROVE  PoolInv'
  <2>1. Pool!Held(h)' = Pool!Held(h) \ {c} /\ c \in Pool!Held(h)
    BY <1>0, <1>1, <1>2 DEF Pool!Held
  <2>2. \A g \in Requests \ {h} : Pool!Held(g)' = Pool!Held(g)
    BY <1>0, <1>1, <1>2 DEF Pool!Held
  <2>3. Cardinality(Pool!Held(h)') = Count(pc'[h])
    <3>1. Cardinality(Pool!Held(h)') = Cardinality(Pool!Held(h)) - 1
      BY <2>1, HeldFinite, FS_RemoveElement
    <3>. QED
      BY <1>0, <1>2, <3>1
  <2>4. Pool!InQueue' = Pool!InQueue
    BY <1>2 DEF Pool!InQueue
  <2>5. Pool!InQueue' = {g \in Requests : pc'[g] \in Waits}
    BY <1>0, <1>2, <2>4
  <2>6. Counted'
    BY <1>0, <1>2, <2>2, <2>3, <2>4, <2>5 DEF Counted
  <2>. QED
    BY <1>2, <2>6 DEF Distinct
<1>3. ASSUME queue # <<>>, NEW w, w = Head(queue),
             owner' = [owner EXCEPT ![c] = w],
             pc' = [pc EXCEPT ![h] = next, ![w] = Pool!Onward(@)], queue' = Tail(queue)
      PROVE  PoolInv'
  <2>1. /\ queue' \in Seq(Requests) /\ Len(queue') = Len(queue) - 1
        /\ \A i \in 1..Len(queue') : queue'[i] = queue[i + 1]
        /\ w = queue[1] /\ w \in Requests /\ Len(queue) > 0
    BY <1>3, HeadTailProperties, EmptySeq
  <2>2. w \in Pool!InQueue /\ pc[w] \in Waits /\ w # h
    <3>1. 1 \in 1..Len(queue)
      BY <1>0, <2>1
    <3>2. w \in Pool!InQueue
      BY <2>1, <3>1 DEF Pool!InQueue
    <3>. QED
      BY <1>0, <3>2
  <2>3. Pool!InQueue' = Pool!InQueue \ {w}
    <3>1. Pool!InQueue' = {queue'[i] : i \in 1..Len(queue')}
      BY DEF Pool!InQueue
    <3>2. ASSUME NEW i \in 1..Len(queue')
          PROVE  queue'[i] \in Pool!InQueue \ {w}
      <4>1. i + 1 \in 1..Len(queue) /\ 1 \in 1..Len(queue) /\ i + 1 # 1
        BY <1>0, <2>1
      <4>. QED
        BY <2>1, <4>1 DEF Pool!InQueue, Distinct
    <3>3. ASSUME NEW i \in 1..Len(queue), queue[i] # w
          PROVE  queue[i] \in Pool!InQueue'
      <4>1. i - 1 \in 1..Len(queue') /\ queue'[i - 1] = queue[i]
        BY <1>0, <2>1, <3>3
      <4>. QED
        BY <3>1, <4>1
    <3>. QED
      BY <3>1, <3>2, <3>3 DEF Pool!InQueue
  <2>4. Cardinality(Pool!InQueue') = Len(queue')
    <3>1. Cardinality(Pool!InQueue') = Cardinality(Pool!InQueue) - 1
      BY <2>2, <2>3, HeldFinite, FS_RemoveElement
    <3>. QED
      BY <1>0, <2>1, <3>1
  <2>5. /\ pc'[h] = next /\ pc'[w] = Pool!Onward(pc[w])
        /\ \A g \in Requests \ {h, w} : pc'[g] = pc[g]
        /\ pc' \in [Requests -> Pool!Steps]
        /\ pc'[w] \notin Waits /\ Count(pc'[w]) = Count(pc[w]) + 1
    BY <1>3, <2>1, <2>2 DEF Pool!Onward, Pool!Steps, Waits, Count
  <2>6. Pool!InQueue' = {g \in Requests : pc'[g] \in Waits}
    BY <1>0, <2>3, <2>5
  <2>7. /\ Pool!Held(h)' = Pool!Held(h) \ {c} /\ c \in Pool!Held(h)
        /\ Pool!Held(w)' = Pool!Held(w) \cup {c} /\ c \notin Pool!Held(w)
        /\ \A g \in Requests \ {h, w} : Pool!Held(g)' = Pool!Held(g)
    BY <1>1, <1>3, <2>1, <2>2 DEF Pool!Held
  <2>8. Cardinality(Pool!Held(h)') = Count(pc'[h])
    <3>1. Cardinality(Pool!Held(h)') = Cardinality(Pool!Held(h)) - 1
      BY <2>7, HeldFinite, FS_RemoveElement
    <3>. QED
      BY <1>0, <2>5, <3>1
  <2>9. Cardinality(Pool!Held(w)') = Count(pc'[w])
    <3>1. Cardinality(Pool!Held(w)') = Cardinality(Pool!Held(w)) + 1
      BY <2>7, HeldFinite, FS_AddElement
    <3>. QED
      BY <1>0, <2>1, <2>5, <3>1
  <2>10. Pool!Free' = {}
    BY <1>0, <1>1, <1>3, <2>1 DEF Pool!Free
  <2>11. Distinct'
    <3>1. ASSUME NEW i \in 1..Len(queue'), NEW j \in 1..Len(queue'), queue'[i] = queue'[j]
          PROVE  i = j
      BY <1>0, <2>1, <3>1 DEF Distinct
    <3>. QED
      BY <3>1 DEF Distinct
  <2>12. Pool!TypeOK'
    BY <1>0, <1>3, <2>1, <2>5
  <2>13. Counted'
    BY <1>0, <2>4, <2>5, <2>6, <2>7, <2>8, <2>9, <2>10 DEF Counted
  <2>. QED
    BY <2>11, <2>12, <2>13
<1>. QED
  BY <1>2, <1>3 DEF Pool!Release

LEMMA PoolStep ==
  ASSUME PoolInv, Pool!Next \/ UNCHANGED poolVars
  PROVE  PoolInv'
<1>. USE DEF Waits, Pool!Steps, Count
<1>1. ASSUME NEW h \in Requests, Pool!Arrive(h)
      PROVE  PoolInv'
  BY <1>1, GetKeeps DEF Pool!Arrive
<1>2. ASSUME NEW h \in Requests, Pool!ReadBack(h)
      PROVE  PoolInv'
  BY <1>2, GetKeeps DEF Pool!ReadBack
<1>3. ASSUME NEW h \in Requests, Pool!EndRead(h)
      PROVE  PoolInv'
  BY <1>3, ReleaseKeeps DEF Pool!EndRead
<1>4. ASSUME NEW h \in Requests, Pool!Finish(h)
      PROVE  PoolInv'
  BY <1>4, ReleaseKeeps DEF Pool!Finish
<1>5. CASE UNCHANGED poolVars
  <2>1. /\ \A h \in Requests : Pool!Held(h)' = Pool!Held(h)
        /\ Pool!Free' = Pool!Free /\ Pool!InQueue' = Pool!InQueue
        /\ UNCHANGED <<owner, queue, pc>>
    BY <1>5 DEF poolVars, Pool!Held, Pool!Free, Pool!InQueue
  <2>. QED
    BY <2>1 DEF PoolInv, Pool!TypeOK, Counted, Distinct
<1>. QED
  BY <1>1, <1>2, <1>3, <1>4, <1>5 DEF Pool!Next

------------------------------------------------------------------------------
(***************************************************************************)
(* The migration runner.  What files 1 and 3 to 8 do is lasting: nothing   *)
(* adds the payments again or removes what those files add, so a statement *)
(* that has taken is never undone.  File 2 drops its two constraints and   *)
(* adds them again: where one is missing after its ADD, another runner     *)
(* stands, or was cut short, between DROP and ADD.                         *)
(***************************************************************************)
Holds(s, S) == s.on \in S <=> s.op # "dropIf"
Took(s) == Holds(s, present)

Stands(r) ==
  /\ runner[r].at \in 1..(Len(Migrations!Script[Migrations!File(r)]) + 1)
  /\ runner[r].pc = "looked" =>
       ~Migrations!AtEnd(r) /\ Migrations!Here(r).op \in {"addIf", "dropIf"}

RunnerTypes ==
  /\ applied \subseteq Migrations!Files
  /\ runner \in [Runners -> [pc : {"off", "at_statement", "looked"},
                             todo : SUBSET Migrations!Files, at : 1..5, saw : BOOLEAN]]
  /\ outcome \in [Runners -> {"none", "exit0", "exit1", "killed"}]
  /\ \A r \in Migrations!Running : runner[r].todo # {} /\ Stands(r)

Lasting ==
  /\ \A f \in applied \ {2} : \A i \in DOMAIN Migrations!Script[f] : Took(Migrations!Script[f][i])
  /\ \A r \in Migrations!Running : Migrations!File(r) # 2 =>
       /\ \A i \in 1..(runner[r].at - 1) : Took(Migrations!Script[Migrations!File(r)][i])
       /\ runner[r].pc = "looked" /\ (runner[r].saw <=> Migrations!Here(r).op # "dropIf") =>
            Took(Migrations!Here(r))

Checks    == {"price_check", "stock_check"}
DropAt(x) == IF x = "price_check" THEN 1 ELSE 2
AddAt(x)  == DropAt(x) + 2

Between(r, x) == Migrations!File(r) = 2 /\ DropAt(x) < runner[r].at /\ runner[r].at <= AddAt(x)
Past(r, x)    == Migrations!File(r) = 2 /\ AddAt(x) < runner[r].at

Constrained ==
  \A x \in Checks :
    x \notin present /\ (2 \in applied \/ \E r \in Migrations!Running : Past(r, x)) =>
      2 \in halfway \/ \E r \in Migrations!Running : Between(r, x)

(* A runner nobody crosses knows what it finds.                            *)
Alone ==
  \A r \in Migrations!Running \ crossed :
    /\ Migrations!Running = {r}
    /\ runner[r].todo \cap applied = {}
    /\ runner[r].pc = "looked" => (runner[r].saw <=> Migrations!Here(r).on \in present)
    /\ \A x \in Checks : Between(r, x) => x \notin present

Blameless == \A r \in Runners : outcome[r] = "exit1" => r \in crossed

MigrationInv == RunnerTypes /\ Lasting /\ Constrained /\ Alone /\ Blameless

------------------------------------------------------------------------------
(* The statements of the files, one by one.                                *)
LEMMA Statements ==
  /\ Migrations!Files = 1..8
  /\ Len(Migrations!Script[1]) = 1
  /\ Migrations!Script[1][1].op = "dropIf" /\ Migrations!Script[1][1].on = "payments"
  /\ Len(Migrations!Script[2]) = 4
  /\ Migrations!Script[2][1].op = "dropIf" /\ Migrations!Script[2][1].on = "price_check"
  /\ Migrations!Script[2][2].op = "dropIf" /\ Migrations!Script[2][2].on = "stock_check"
  /\ Migrations!Script[2][3].op = "add" /\ Migrations!Script[2][3].on = "price_check"
  /\ Migrations!Script[2][4].op = "add" /\ Migrations!Script[2][4].on = "stock_check"
  /\ \A f \in 1..8 : /\ Len(Migrations!Script[f]) \in 1..4
                     /\ DOMAIN Migrations!Script[f] = 1..Len(Migrations!Script[f])
  /\ \A f \in 3..8 : \A i \in 1..Len(Migrations!Script[f]) :
       /\ Migrations!Script[f][i].op \in {"addIf", "ensure"}
       /\ Migrations!Script[f][i].on \notin {"payments", "price_check", "stock_check"}
<1>1. /\ Migrations!Script[1] = Migrations!RemovePayments
      /\ Migrations!Script[2] = Migrations!ProductConstraints
      /\ Migrations!Script[3] = Migrations!AuthTokens
      /\ Migrations!Script[4] = Migrations!PerformanceIndexes
      /\ Migrations!Script[5] = Migrations!TokenBlacklist
      /\ Migrations!Script[6] = Migrations!Admin2fa
      /\ Migrations!Script[7] = Migrations!ReportsLocations
      /\ Migrations!Script[8] = Migrations!DeleteAudit
  BY DEF Migrations!Script
<1>2. Migrations!Files = 1..8
  BY DEF Migrations!Files, Migrations!Script
<1>. DEFINE Plain(s) == \A i \in 1..Len(s) :
              /\ s[i].op \in {"addIf", "ensure"}
              /\ s[i].on \notin {"payments", "price_check", "stock_check"}
            Fits(s) == Len(s) \in 1..4 /\ DOMAIN s = 1..Len(s)
<1>. USE DEF Migrations!AddIf, Migrations!DropIf, Migrations!Ensure, Migrations!Add
<1>3. /\ Fits(Migrations!RemovePayments)
      /\ Len(Migrations!RemovePayments) = 1
      /\ Migrations!RemovePayments[1].op = "dropIf" /\ Migrations!RemovePayments[1].on = "payments"
  BY DEF Migrations!RemovePayments
<1>4. /\ Fits(Migrations!ProductConstraints)
      /\ Len(Migrations!ProductConstraints) = 4
      /\ Migrations!ProductConstraints[1] = Migrations!DropIf("price_check")
      /\ Migrations!ProductConstraints[2] = Migrations!DropIf("stock_check")
      /\ Migrations!ProductConstraints[3] = Migrations!Add("price_check")
      /\ Migrations!ProductConstraints[4] = Migrations!Add("stock_check")
  BY DEF Migrations!ProductConstraints
<1>5. Plain(Migrations!AuthTokens) /\ Fits(Migrations!AuthTokens)
  BY DEF Migrations!AuthTokens
<1>6. Plain(Migrations!PerformanceIndexes) /\ Fits(Migrations!PerformanceIndexes)
  BY DEF Migrations!PerformanceIndexes
<1>7. Plain(Migrations!TokenBlacklist) /\ Fits(Migrations!TokenBlacklist)
  BY DEF Migrations!TokenBlacklist
<1>8. Plain(Migrations!Admin2fa) /\ Fits(Migrations!Admin2fa)
  BY DEF Migrations!Admin2fa
<1>9. Plain(Migrations!ReportsLocations) /\ Fits(Migrations!ReportsLocations)
  BY DEF Migrations!ReportsLocations
<1>10. Plain(Migrations!DeleteAudit) /\ Fits(Migrations!DeleteAudit)
  BY DEF Migrations!DeleteAudit
<1>11. \A f \in 3..8 : Plain(Migrations!Script[f])
  <2>. HIDE DEF Plain, Fits
  <2>. SUFFICES ASSUME NEW f \in 3..8 PROVE Plain(Migrations!Script[f])
    OBVIOUS
  <2>1. f \in {3, 4, 5, 6, 7, 8}
    OBVIOUS
  <2>. QED
    BY <2>1, <1>1, <1>5, <1>6, <1>7, <1>8, <1>9, <1>10
<1>12. \A f \in 1..8 : Fits(Migrations!Script[f])
  <2>. HIDE DEF Plain, Fits
  <2>. SUFFICES ASSUME NEW f \in 1..8 PROVE Fits(Migrations!Script[f])
    OBVIOUS
  <2>1. f \in {1, 2, 3, 4, 5, 6, 7, 8}
    OBVIOUS
  <2>. QED
    BY <2>1, <1>1, <1>3, <1>4, <1>5, <1>6, <1>7, <1>8, <1>9, <1>10
<1>. QED
  BY <1>1, <1>2, <1>3, <1>4, <1>11, <1>12

(* What file 1 does, what file 2 does, what the others do.                 *)
LEMMA Kinds ==
  ASSUME NEW f \in 1..8, NEW i \in DOMAIN Migrations!Script[f]
  PROVE  LET s == Migrations!Script[f][i]
         IN  /\ f = 1 => s.op = "dropIf" /\ s.on = "payments"
             /\ f = 2 => s.op \in {"dropIf", "add"} /\ s.on \in Checks
             /\ f \notin {1, 2} =>
                  s.op \in {"addIf", "ensure"} /\ s.on \notin Checks \cup {"payments"}
<1>1. i \in 1..Len(Migrations!Script[f])
  BY Statements
<1>2. CASE f = 1
  <2>1. i = 1
    BY <1>1, <1>2, Statements
  <2>. QED
    BY <1>2, <2>1, Statements
<1>3. CASE f = 2
  <2>1. i \in {1, 2, 3, 4}
    BY <1>1, <1>3, Statements
  <2>. QED
    BY <1>3, <2>1, Statements DEF Checks
<1>4. CASE f \notin {1, 2}
  <2>1. f \in 3..8
    BY <1>4
  <2>. QED
    BY <1>1, <1>4, <2>1, Statements DEF Checks
<1>. QED
  BY <1>2, <1>3, <1>4

Least(S) == CHOOSE f \in S : \A g \in S : f <= g

(* The file at hand is one of those left to do.                            *)
LEMMA LeastIsIn ==
  ASSUME NEW S \in SUBSET (1..8), S # {}
  PROVE  Least(S) \in S
<1>1. \E f \in S : \A g \in S : f <= g
  <2>1. CASE 1 \in S
    BY <2>1
  <2>2. CASE 1 \notin S /\ 2 \in S
    BY <2>2
  <2>3. CASE S \subseteq 3..8 /\ 3 \in S
    BY <2>3
  <2>4. CASE S \subseteq 4..8 /\ 4 \in S
    BY <2>4
  <2>5. CASE S \subseteq 5..8 /\ 5 \in S
    BY <2>5
  <2>6. CASE S \subseteq 6..8 /\ 6 \in S
    BY <2>6
  <2>7. CASE S \subseteq 7..8 /\ 7 \in S
    BY <2>7
  <2>8. CASE S \subseteq {8}
    <3>1. S = {8}
      BY <2>8
    <3>. QED
      BY <3>1
  <2>. QED
    BY <2>1, <2>2, <2>3, <2>4, <2>5, <2>6, <2>7, <2>8
<1>. QED
  BY <1>1 DEF Least

LEMMA FileIsIn ==
  ASSUME RunnerTypes, NEW r \in Migrations!Running
  PROVE  /\ Migrations!File(r) \in runner[r].todo
         /\ Migrations!File(r) \in 1..8
<1>1. r \in Runners /\ runner[r].todo \in SUBSET (1..8) /\ runner[r].todo # {}
  BY Statements DEF RunnerTypes, Migrations!Running
<1>2. Migrations!File(r) = Least(runner[r].todo)
  BY DEF Migrations!File, Least
<1>. QED
  BY <1>1, <1>2, LeastIsIn

(* A runner that is not at the end of its file is at one of its statements. *)
LEMMA InsideFile ==
  ASSUME RunnerTypes, NEW r \in Migrations!Running, ~Migrations!AtEnd(r)
  PROVE  /\ Migrations!File(r) \in 1..8
         /\ runner[r].at \in 1..4
         /\ runner[r].at \in DOMAIN Migrations!Script[Migrations!File(r)]
<1>. DEFINE s == Migrations!Script[Migrations!File(r)]
            n == Len(s)
            i == runner[r].at
<1>1. Migrations!File(r) \in 1..8
  BY FileIsIn
<1>2. n \in 1..4 /\ DOMAIN s = 1..n
  BY <1>1, Statements
<1>3. i \in 1..(n + 1)
  BY DEF RunnerTypes, Stands
<1>4. ~(i > n)
  BY DEF Migrations!AtEnd
<1>5. i \in 1..n /\ i \in 1..4
  <2>. HIDE DEF i, n
  <2>. QED
    BY <1>2, <1>3, <1>4
<1>. QED
  BY <1>1, <1>2, <1>5

------------------------------------------------------------------------------
LEMMA MigrationInit == Migrations!Init => MigrationInv
<1>. SUFFICES ASSUME Migrations!Init PROVE MigrationInv
  OBVIOUS
<1>1. Migrations!Running = {}
  BY DEF Migrations!Init, Migrations!Off, Migrations!Running
<1>2. RunnerTypes
  BY <1>1 DEF Migrations!Init, Migrations!Off, RunnerTypes
<1>. QED
  BY <1>1, <1>2
     DEF Migrations!Init, MigrationInv, Lasting, Constrained, Alone, Blameless

(* Where a runner is, in terms of the state after a step.                  *)
LEMMA SameFile ==
  ASSUME NEW r, runner'[r].todo = runner[r].todo
  PROVE  Migrations!File(r)' = Migrations!File(r)
<1>1. Migrations!File(r) = Least(runner[r].todo)
  BY DEF Migrations!File, Least
<1>2. Migrations!File(r)' = Least(runner'[r].todo)
  BY DEF Migrations!File, Least
<1>. QED
  BY <1>1, <1>2

LEMMA NewFile ==
  ASSUME NEW r, runner'[r].todo \in SUBSET (1..8), runner'[r].todo # {}
  PROVE  /\ Migrations!File(r)' \in runner'[r].todo
         /\ Migrations!File(r)' \in 1..8
<1>1. Migrations!File(r)' = Least(runner'[r].todo)
  BY DEF Migrations!File, Least
<1>. QED
  BY <1>1, LeastIsIn

(* A step that leaves the schema, the table and its file's statements to   *)
(* the other runners leaves them where they stand.                         *)
LEMMA OthersStand ==
  ASSUME RunnerTypes, NEW r \in Runners,
         \A q \in Runners \ {r} : runner'[q] = runner[q]
  PROVE  \A q \in Runners \ {r} :
           /\ q \in Migrations!Running' <=> q \in Migrations!Running
           /\ Migrations!File(q)' = Migrations!File(q)
           /\ Stands(q)' <=> Stands(q)
           /\ Migrations!Here(q)' = Migrations!Here(q)
           /\ \A x : (Between(q, x)' <=> Between(q, x)) /\ (Past(q, x)' <=> Past(q, x))
<1>. SUFFICES ASSUME NEW q \in Runners \ {r}
              PROVE  /\ q \in Migrations!Running' <=> q \in Migrations!Running
                     /\ Migrations!File(q)' = Migrations!File(q)
                     /\ Stands(q)' <=> Stands(q)
                     /\ Migrations!Here(q)' = Migrations!Here(q)
                     /\ \A x : (Between(q, x)' <=> Between(q, x)) /\ (Past(q, x)' <=> Past(q, x))
  OBVIOUS
<1>1. runner'[q] = runner[q]
  OBVIOUS
<1>2. Migrations!File(q)' = Migrations!File(q)
  BY <1>1, SameFile
<1>3. Migrations!Here(q)' = Migrations!Here(q)
  BY <1>1, <1>2 DEF Migrations!Here
<1>4. q \in Migrations!Running' <=> q \in Migrations!Running
  BY <1>1 DEF Migrations!Running
<1>5. Migrations!AtEnd(q)' <=> Migrations!AtEnd(q)
  BY <1>1, <1>2 DEF Migrations!AtEnd
<1>6. Stands(q)' <=> Stands(q)
  BY <1>1, <1>2, <1>3, <1>5 DEF Stands
<1>7. \A x : (Between(q, x)' <=> Between(q, x)) /\ (Past(q, x)' <=> Past(q, x))
  BY <1>1, <1>2 DEF Between, Past
<1>. QED
  BY <1>2, <1>3, <1>4, <1>6, <1>7

LEMMA StartKeeps ==
  ASSUME MigrationInv, NEW r \in Runners, Migrations!Start(r)
  PROVE  MigrationInv'
<1>. USE DEF MigrationInv
<1>. DEFINE left == Migrations!Files \ applied
<1>1. /\ r \notin Migrations!Running
      /\ UNCHANGED <<present, applied, halfway>>
      /\ crossed' = (crossed \ {r}) \cup (IF Migrations!Running = {} THEN {}
                                          ELSE Migrations!Running \cup {r})
  BY DEF Migrations!Start
<1>2. /\ outcome' \in [Runners -> {"none", "exit0", "exit1", "killed"}]
      /\ outcome'[r] # "exit1"
      /\ \A q \in Runners \ {r} : outcome'[q] = outcome[q]
  BY DEF Migrations!Start, RunnerTypes
<1>3. /\ runner' \in [Runners -> [pc : {"off", "at_statement", "looked"},
                                   todo : SUBSET Migrations!Files, at : 1..5, saw : BOOLEAN]]
      /\ \A q \in Runners \ {r} : runner'[q] = runner[q]
      /\ runner'[r].at = 1
      /\ r \in Migrations!Running' =>
           runner'[r].pc = "at_statement" /\ runner'[r].todo = left /\ left # {}
  <2>. DEFINE new == IF left = {} THEN Migrations!Off
                     ELSE [Migrations!Off EXCEPT !.pc = "at_statement", !.todo = left]
  <2>1. /\ new \in [pc : {"off", "at_statement", "looked"},
                     todo : SUBSET Migrations!Files, at : 1..5, saw : BOOLEAN]
        /\ new.at = 1
        /\ new.pc # "off" => new.pc = "at_statement" /\ new.todo = left /\ left # {}
    <3>1. left \in SUBSET Migrations!Files /\ 1 \in 1..5
      OBVIOUS
    <3>2. CASE left = {}
      BY <3>1, <3>2 DEF Migrations!Off
    <3>3. CASE left # {}
      <4>1. new = [pc |-> "at_statement", todo |-> left, at |-> 1, saw |-> FALSE]
        BY <3>3 DEF Migrations!Off
      <4>. QED
        BY <3>1, <3>3, <4>1
    <3>. QED
      BY <3>2, <3>3
  <2>2. runner' = [runner EXCEPT ![r] = new]
    BY DEF Migrations!Start
  <2>. HIDE DEF new
  <2>. QED
    BY <2>1, <2>2 DEF Migrations!Running, RunnerTypes
<1>4. r \in Migrations!Running' => Migrations!File(r)' \in 1..8
  BY <1>3, NewFile, Statements
<1>5. \A q \in Runners \ {r} :
        /\ q \in Migrations!Running' <=> q \in Migrations!Running
        /\ Migrations!File(q)' = Migrations!File(q)
        /\ Stands(q)' <=> Stands(q)
        /\ Migrations!Here(q)' = Migrations!Here(q)
        /\ \A x : (Between(q, x)' <=> Between(q, x)) /\ (Past(q, x)' <=> Past(q, x))
  BY <1>3, OthersStand
<1>6. \A q : q \in Migrations!Running' => q \in Runners
  BY DEF Migrations!Running
<1>7. RunnerTypes'
  <2>1. r \in Migrations!Running' => Stands(r)'
    BY <1>3, <1>4, Statements DEF Stands
  <2>. QED
    BY <1>1, <1>2, <1>3, <1>5, <1>6, <2>1 DEF RunnerTypes, Migrations!Files
<1>8. Lasting'
  BY <1>1, <1>3, <1>5, <1>6 DEF Lasting, Took, Holds
<1>9. \A x \in Checks : ~Past(r, x)' /\ ~Between(r, x)'
  BY <1>3 DEF Past, Between, AddAt, DropAt
<1>10. Constrained'
  <2>. SUFFICES ASSUME NEW x \in Checks, x \notin present,
                       2 \in applied \/ \E q \in Migrations!Running' : Past(q, x)'
                PROVE  2 \in halfway \/ \E q \in Migrations!Running' : Between(q, x)'
    BY <1>1 DEF Constrained
  <2>1. ASSUME NEW q \in Migrations!Running', Past(q, x)'
        PROVE  q \in Migrations!Running /\ Past(q, x)
    BY <2>1, <1>5, <1>6, <1>9
  <2>2. 2 \in halfway \/ \E q \in Migrations!Running : Between(q, x)
    BY <2>1 DEF Constrained
  <2>3. ASSUME NEW q \in Migrations!Running, Between(q, x)
        PROVE  q \in Migrations!Running' /\ Between(q, x)'
    BY <2>3, <1>1, <1>5 DEF Migrations!Running
  <2>. QED
    BY <2>2, <2>3
<1>11. Alone'
  <2>. SUFFICES ASSUME NEW q \in Migrations!Running' \ crossed'
                PROVE  /\ Migrations!Running' = {q}
                       /\ runner'[q].todo \cap applied' = {}
                       /\ runner'[q].pc = "looked" =>
                            (runner'[q].saw <=> Migrations!Here(q)'.on \in present')
                       /\ \A x \in Checks : Between(q, x)' => x \notin present'
    BY DEF Alone
  <2>1. q = r /\ Migrations!Running = {}
    BY <1>1, <1>5, <1>6
  <2>2. Migrations!Running' = {r}
    BY <1>5, <1>6, <2>1
  <2>. QED
    BY <1>1, <1>3, <1>9, <2>1, <2>2
<1>12. Blameless'
  BY <1>1, <1>2 DEF Blameless
<1>. QED
  BY <1>7, <1>8, <1>10, <1>11, <1>12

(* A statement that has taken is not undone by any other.                  *)
LEMMA StatementsLast ==
  ASSUME RunnerTypes, NEW r \in Migrations!Running, ~Migrations!AtEnd(r),
         present' = (present \cup {x \in {Migrations!Here(r).on} : Migrations!Adds(r)})
                    \ {x \in {Migrations!Here(r).on} : Migrations!Removes(r)},
         NEW f \in (1..8) \ {2}, NEW i \in DOMAIN Migrations!Script[f],
         Took(Migrations!Script[f][i])
  PROVE  Holds(Migrations!Script[f][i], present')
<1>. DEFINE s == Migrations!Script[f][i]
            h == Migrations!Here(r)
<1>1. /\ Migrations!File(r) \in 1..8
      /\ runner[r].at \in DOMAIN Migrations!Script[Migrations!File(r)]
  BY InsideFile
<1>3. \/ h.op = "dropIf" /\ h.on = "payments"
      \/ h.on \in Checks
      \/ h.op \in {"addIf", "ensure"} /\ h.on \notin Checks \cup {"payments"}
  BY <1>1, Kinds DEF Migrations!Here
<1>4. \/ s.op = "dropIf" /\ s.on = "payments"
      \/ s.op \in {"addIf", "ensure"} /\ s.on \notin Checks \cup {"payments"}
  BY Kinds
<1>5. Migrations!Adds(r) => h.op \in {"add", "ensure", "addIf"}
  BY DEF Migrations!Adds
<1>6. Migrations!Removes(r) => h.op = "dropIf"
  BY DEF Migrations!Removes
<1>7. present' = (present \cup {x \in {h.on} : Migrations!Adds(r)})
                 \ {x \in {h.on} : Migrations!Removes(r)}
  OBVIOUS
<1>8. s.on \in present <=> s.op # "dropIf"
  BY DEF Took, Holds
<1>. SUFFICES s.on \in present' <=> s.op # "dropIf"
  BY DEF Holds
<1>. HIDE DEF s, h
<1>. QED
  BY <1>3, <1>4, <1>5, <1>6, <1>7, <1>8 DEF Checks

LEMMA LookKeeps ==
  ASSUME MigrationInv, NEW r \in Runners, Migrations!Look(r)
  PROVE  MigrationInv'
<1>. USE DEF MigrationInv
<1>1. /\ UNCHANGED <<present, applied, outcome, crossed, halfway>>
      /\ r \in Migrations!Running /\ ~Migrations!AtEnd(r)
      /\ Migrations!Here(r).op \in {"addIf", "dropIf"}
  BY DEF Migrations!Look, Migrations!Running
<1>2. /\ runner' \in [Runners -> [pc : {"off", "at_statement", "looked"},
                                   todo : SUBSET Migrations!Files, at : 1..5, saw : BOOLEAN]]
      /\ \A q \in Runners \ {r} : runner'[q] = runner[q]
      /\ runner'[r].pc = "looked"
      /\ runner'[r].saw <=> Migrations!Here(r).on \in present
      /\ runner'[r].at = runner[r].at /\ runner'[r].todo = runner[r].todo
  <2>. DEFINE there == Migrations!Here(r).on \in present
              new == [runner[r] EXCEPT !.pc = "looked", !.saw = there]
  <2>1. runner' = [runner EXCEPT ![r] = new]
    BY DEF Migrations!Look, RunnerTypes
  <2>2. there \in BOOLEAN
    OBVIOUS
  <2>3. /\ new \in [pc : {"off", "at_statement", "looked"},
                     todo : SUBSET Migrations!Files, at : 1..5, saw : BOOLEAN]
        /\ new.pc = "looked" /\ new.saw = there
        /\ new.at = runner[r].at /\ new.todo = runner[r].todo
    <3>. HIDE DEF there
    <3>. QED
      BY <2>2 DEF RunnerTypes
  <2>. HIDE DEF new
  <2>. QED
    BY <2>1, <2>3 DEF RunnerTypes
<1>3. /\ Migrations!File(r)' = Migrations!File(r)
      /\ Migrations!Here(r)' = Migrations!Here(r)
      /\ ~Migrations!AtEnd(r)'
  <2>1. Migrations!File(r)' = Migrations!File(r)
    BY <1>2, SameFile
  <2>. QED
    BY <2>1, <1>1, <1>2 DEF Migrations!Here, Migrations!AtEnd
<1>4. \A q \in Runners \ {r} :
        /\ q \in Migrations!Running' <=> q \in Migrations!Running
        /\ Migrations!File(q)' = Migrations!File(q)
        /\ Stands(q)' <=> Stands(q)
        /\ Migrations!Here(q)' = Migrations!Here(q)
        /\ \A x : (Between(q, x)' <=> Between(q, x)) /\ (Past(q, x)' <=> Past(q, x))
  BY <1>2, OthersStand
<1>5. Migrations!Running' = Migrations!Running
  BY <1>1, <1>2 DEF Migrations!Running
<1>6. \A q \in Migrations!Running : q \in Runners
  BY DEF Migrations!Running
<1>7. \A x : (Between(r, x)' <=> Between(r, x)) /\ (Past(r, x)' <=> Past(r, x))
  BY <1>2, <1>3 DEF Between, Past
<1>8. RunnerTypes'
  <2>1. Stands(r)'
    BY <1>1, <1>2, <1>3 DEF Stands, RunnerTypes
  <2>2. \A q \in Migrations!Running' : runner'[q].todo # {} /\ Stands(q)'
    BY <1>1, <1>2, <1>4, <1>5, <1>6, <2>1 DEF RunnerTypes
  <2>. QED
    BY <1>1, <1>2, <2>2 DEF RunnerTypes, Migrations!Files
<1>9. Lasting'
  BY <1>1, <1>2, <1>3, <1>4, <1>5, <1>6 DEF Lasting, Took, Holds
<1>10. Constrained'
  BY <1>1, <1>4, <1>5, <1>6, <1>7 DEF Constrained
<1>11. Alone'
  BY <1>1, <1>2, <1>3, <1>4, <1>5, <1>6, <1>7 DEF Alone
<1>12. Blameless'
  BY <1>1 DEF Blameless
<1>. QED
  BY <1>8, <1>9, <1>10, <1>11, <1>12

(* File 2: the constraint is dropped, then added, and wanted in the end.   *)
LEMMA DropAndAdd ==
  ASSUME NEW x \in Checks
  PROVE  /\ x \in Migrations!Touched(2) /\ Migrations!Wanted(2, x)
         /\ DropAt(x) \in Migrations!Drops(2)
         /\ Migrations!Script[2][DropAt(x)].on = x
         /\ Migrations!Script[2][AddAt(x)].on = x
         /\ Migrations!Script[2][AddAt(x)].op = "add"
<1>1. DOMAIN Migrations!Script[2] = 1..4
  BY Statements
<1>2. /\ DropAt(x) \in 1..4 /\ AddAt(x) \in 1..4
      /\ Migrations!Script[2][DropAt(x)].on = x
      /\ Migrations!Script[2][DropAt(x)].op = "dropIf"
      /\ Migrations!Script[2][AddAt(x)].on = x
      /\ Migrations!Script[2][AddAt(x)].op = "add"
  BY Statements DEF DropAt, AddAt, Checks
<1>. QED
  BY <1>1, <1>2 DEF Migrations!Touched, Migrations!Wanted, Migrations!Drops

(* A runner that stops between DROP and ADD is cut short.                  *)
LEMMA BetweenIsCut ==
  ASSUME NEW R, NEW r \in R, NEW x \in Checks, x \notin present, Between(r, x)
  PROVE  2 \in Migrations!CutShort(R)
BY DropAndAdd DEF Migrations!CutShort, Between

LEMMA StopKeeps ==
  ASSUME MigrationInv, NEW r \in Migrations!Running, NEW how \in {"exit1", "killed"},
         how = "exit1" => r \in crossed, Migrations!Stop(r, how)
  PROVE  MigrationInv'
<1>. USE DEF MigrationInv
<1>1. /\ UNCHANGED <<present, applied, crossed>>
      /\ halfway' = halfway \cup Migrations!CutShort({r})
      /\ r \in Runners
  BY DEF Migrations!Stop, Migrations!Running
<1>2. /\ runner' \in [Runners -> [pc : {"off", "at_statement", "looked"},
                                   todo : SUBSET Migrations!Files, at : 1..5, saw : BOOLEAN]]
      /\ \A q \in Runners \ {r} : runner'[q] = runner[q]
      /\ runner'[r].pc = "off"
      /\ outcome' = [outcome EXCEPT ![r] = how]
  <2>1. /\ Migrations!Off \in [pc : {"off", "at_statement", "looked"},
                                todo : SUBSET Migrations!Files, at : 1..5, saw : BOOLEAN]
        /\ Migrations!Off.pc = "off"
    BY DEF Migrations!Off
  <2>2. /\ runner' = [runner EXCEPT ![r] = Migrations!Off]
        /\ outcome' = [outcome EXCEPT ![r] = how]
    BY DEF Migrations!Stop
  <2>. QED
    BY <1>1, <2>1, <2>2 DEF RunnerTypes
<1>3. \A q \in Runners \ {r} :
        /\ q \in Migrations!Running' <=> q \in Migrations!Running
        /\ Migrations!File(q)' = Migrations!File(q)
        /\ Stands(q)' <=> Stands(q)
        /\ Migrations!Here(q)' = Migrations!Here(q)
        /\ \A x : (Between(q, x)' <=> Between(q, x)) /\ (Past(q, x)' <=> Past(q, x))
  BY <1>1, <1>2, OthersStand
<1>4. Migrations!Running' = Migrations!Running \ {r}
  BY <1>1, <1>2 DEF Migrations!Running
<1>5. \A q \in Migrations!Running : q \in Runners
  BY DEF Migrations!Running
<1>6. RunnerTypes'
  <2>1. \A q \in Migrations!Running' : runner'[q].todo # {} /\ Stands(q)'
    BY <1>2, <1>3, <1>4, <1>5 DEF RunnerTypes
  <2>2. outcome' \in [Runners -> {"none", "exit0", "exit1", "killed"}]
    BY <1>2 DEF RunnerTypes
  <2>. QED
    BY <1>1, <1>2, <2>1, <2>2 DEF RunnerTypes, Migrations!Files
<1>7. Lasting'
  BY <1>1, <1>2, <1>3, <1>4, <1>5 DEF Lasting, Took, Holds
<1>8. Constrained'
  <2>. SUFFICES ASSUME NEW x \in Checks, x \notin present,
                       2 \in applied \/ \E q \in Migrations!Running' : Past(q, x)'
                PROVE  2 \in halfway' \/ \E q \in Migrations!Running' : Between(q, x)'
    BY <1>1 DEF Constrained
  <2>1. ASSUME NEW q \in Migrations!Running', Past(q, x)'
        PROVE  q \in Migrations!Running /\ Past(q, x)
    BY <2>1, <1>3, <1>4, <1>5
  <2>2. 2 \in halfway \/ \E q \in Migrations!Running : Between(q, x)
    BY <2>1 DEF Constrained
  <2>3. ASSUME NEW q \in Migrations!Running, Between(q, x)
        PROVE  2 \in halfway' \/ (q \in Migrations!Running' /\ Between(q, x)')
    <3>1. CASE q = r
      <4>1. 2 \in Migrations!CutShort({r})
        BY <3>1, <2>3, BetweenIsCut
      <4>2. halfway' = halfway \cup Migrations!CutShort({r})
        BY <1>1
      <4>. HIDE DEF Migrations!CutShort
      <4>. QED
        BY <4>1, <4>2, Zenon
    <3>2. CASE q # r
      BY <3>2, <2>3, <1>3, <1>4, <1>5
    <3>. QED
      BY <3>1, <3>2
  <2>. QED
    BY <2>2, <2>3, <1>1
<1>9. Alone'
  BY <1>1, <1>2, <1>3, <1>4, <1>5 DEF Alone
<1>10. Blameless'
  BY <1>1, <1>2 DEF Blameless, RunnerTypes
<1>. QED
  BY <1>6, <1>7, <1>8, <1>9, <1>10

LEMMA ExecuteKeeps ==
  ASSUME MigrationInv, NEW r \in Runners, Migrations!Execute(r)
  PROVE  MigrationInv'
<1>. USE DEF MigrationInv
<1>. DEFINE f == Migrations!File(r)
            i == runner[r].at
            h == Migrations!Here(r)
<1>1. /\ UNCHANGED <<applied, outcome, crossed, halfway>>
      /\ r \in Migrations!Running /\ ~Migrations!AtEnd(r)
      /\ Migrations!Due(r) /\ ~Migrations!Refused(r)
      /\ present' = (present \cup {x \in {h.on} : Migrations!Adds(r)})
                     \ {x \in {h.on} : Migrations!Removes(r)}
  BY DEF Migrations!Execute
<1>2. /\ f \in 1..8 /\ i \in 1..4 /\ i \in DOMAIN Migrations!Script[f]
      /\ h = Migrations!Script[f][i]
  BY <1>1, InsideFile DEF Migrations!Here
<1>3. /\ runner' \in [Runners -> [pc : {"off", "at_statement", "looked"},
                                   todo : SUBSET Migrations!Files, at : 1..5, saw : BOOLEAN]]
      /\ \A q \in Runners \ {r} : runner'[q] = runner[q]
      /\ runner'[r].pc = "at_statement"
      /\ runner'[r].at = i + 1 /\ runner'[r].todo = runner[r].todo
  <2>. DEFINE new == [runner[r] EXCEPT !.pc = "at_statement", !.at = i + 1, !.saw = FALSE]
  <2>1. runner' = [runner EXCEPT ![r] = new]
    BY DEF Migrations!Execute, RunnerTypes
  <2>2. /\ new \in [pc : {"off", "at_statement", "looked"},
                     todo : SUBSET Migrations!Files, at : 1..5, saw : BOOLEAN]
        /\ new.pc = "at_statement"
        /\ new.at = i + 1 /\ new.todo = runner[r].todo
    <3>1. i + 1 \in 1..5
      BY <1>2
    <3>. HIDE DEF i
    <3>. QED
      BY <3>1 DEF RunnerTypes
  <2>. HIDE DEF new
  <2>. QED
    BY <2>1, <2>2 DEF RunnerTypes
<1>4. Migrations!File(r)' = f
  BY <1>3, SameFile
<1>5. \A q \in Runners \ {r} :
        /\ q \in Migrations!Running' <=> q \in Migrations!Running
        /\ Migrations!File(q)' = Migrations!File(q)
        /\ Stands(q)' <=> Stands(q)
        /\ Migrations!Here(q)' = Migrations!Here(q)
        /\ \A x : (Between(q, x)' <=> Between(q, x)) /\ (Past(q, x)' <=> Past(q, x))
  BY <1>3, OthersStand
<1>6. Migrations!Running' = Migrations!Running
  BY <1>1, <1>3 DEF Migrations!Running
<1>7. \A q \in Migrations!Running : q \in Runners
  BY DEF Migrations!Running
<1>8. RunnerTypes'
  <2>1. runner'[r].at \in 1..(Len(Migrations!Script[f]) + 1)
    <3>1. /\ Len(Migrations!Script[f]) \in 1..4
          /\ DOMAIN Migrations!Script[f] = 1..Len(Migrations!Script[f])
      BY <1>2, Statements
    <3>. DEFINE n == Len(Migrations!Script[f])
    <3>2. i \in 1..n /\ n \in 1..4
      BY <1>2, <3>1
    <3>3. i + 1 \in 1..(n + 1)
      <4>. HIDE DEF n, i
      <4>. QED
        BY <3>2
    <3>. QED
      BY <1>3, <3>3
  <2>2. Stands(r)'
    BY <1>3, <1>4, <2>1 DEF Stands
  <2>3. \A q \in Migrations!Running' : runner'[q].todo # {} /\ Stands(q)'
    BY <1>1, <1>3, <1>5, <1>6, <1>7, <2>2 DEF RunnerTypes
  <2>. QED
    BY <1>1, <1>3, <2>3 DEF RunnerTypes, Migrations!Files
<1>9. Lasting'
  <2>1. \A g \in (1..8) \ {2} : \A j \in DOMAIN Migrations!Script[g] :
          Took(Migrations!Script[g][j]) => Holds(Migrations!Script[g][j], present')
    BY <1>1, StatementsLast
  <2>2. f # 2 => Holds(h, present')
    <3>. SUFFICES ASSUME f # 2 PROVE h.on \in present' <=> h.op # "dropIf"
      BY DEF Holds
    <3>1. h.op \in {"dropIf", "addIf", "ensure"}
      BY <1>2, Kinds
    <3>2. h.op = "ensure" => Migrations!Adds(r) /\ ~Migrations!Removes(r)
      BY DEF Migrations!Adds, Migrations!Removes
    <3>3. h.op = "addIf" => (Migrations!Adds(r) <=> ~runner[r].saw) /\ ~Migrations!Removes(r)
      BY DEF Migrations!Adds, Migrations!Removes
    <3>4. h.op = "dropIf" => (Migrations!Removes(r) <=> runner[r].saw) /\ ~Migrations!Adds(r)
      BY DEF Migrations!Adds, Migrations!Removes
    <3>5. h.op \in {"addIf", "dropIf"} /\ (runner[r].saw <=> h.op # "dropIf") =>
            (h.on \in present <=> h.op # "dropIf")
      BY <1>1 DEF Migrations!Due, Lasting, Took, Holds
    <3>. HIDE DEF h
    <3>. QED
      BY <1>1, <3>1, <3>2, <3>3, <3>4, <3>5
  <2>3. \A g \in applied' \ {2} : \A j \in DOMAIN Migrations!Script[g] :
          Holds(Migrations!Script[g][j], present')
    BY <1>1, <2>1, Statements DEF Lasting, RunnerTypes
  <2>4. ASSUME NEW q \in Migrations!Running', Migrations!File(q)' # 2
        PROVE  /\ \A j \in 1..(runner'[q].at - 1) : Holds(Migrations!Script[Migrations!File(q)'][j], present')
               /\ runner'[q].pc = "looked"
                    /\ (runner'[q].saw <=> Migrations!Here(q)'.op # "dropIf") =>
                      Holds(Migrations!Here(q)', present')
    <3>1. /\ Migrations!File(q) = Migrations!File(q)' /\ q \in Migrations!Running
          /\ Migrations!File(q) \in (1..8) \ {2}
      BY <1>4, <1>5, <1>6, <1>7, <2>4, FileIsIn
    <3>. DEFINE g == Migrations!File(q)
                n == Len(Migrations!Script[g])
                k == runner[q].at
    <3>2. DOMAIN Migrations!Script[g] = 1..n /\ n \in 1..4 /\ k \in 1..(n + 1)
      BY <3>1, Statements DEF RunnerTypes, Stands
    <3>3. \A j \in 1..(k - 1) : j \in DOMAIN Migrations!Script[g]
      <4>. HIDE DEF k, n
      <4>. QED
        BY <3>2
    <3>4. \A j \in 1..(k - 1) : Holds(Migrations!Script[g][j], present')
      BY <2>1, <3>1, <3>3 DEF Lasting
    <3>5. CASE q = r
      <4>1. runner'[q].at - 1 = k
        BY <1>2, <1>3, <3>5
      <4>2. Holds(Migrations!Script[g][k], present')
        BY <1>2, <2>2, <3>1, <3>5
      <4>3. \A j \in 1..k : Holds(Migrations!Script[g][j], present')
        <5>. SUFFICES ASSUME NEW j \in 1..k PROVE Holds(Migrations!Script[g][j], present')
          OBVIOUS
        <5>1. k \in Int
          BY <1>2, <3>5
        <5>2. j = k \/ j \in 1..(k - 1)
          BY <5>1
        <5>. QED
          BY <5>2, <4>2, <3>4
      <4>. QED
        BY <1>3, <3>1, <3>5, <4>1, <4>3
    <3>6. CASE q # r
      <4>1. q \in Runners \ {r} /\ runner'[q] = runner[q]
        BY <3>6, <1>3, <3>1, <1>7
      <4>2. ASSUME runner'[q].pc = "looked", runner'[q].saw <=> Migrations!Here(q)'.op # "dropIf"
            PROVE  Holds(Migrations!Here(q)', present')
        <5>1. ~Migrations!AtEnd(q) /\ Migrations!Here(q)' = Migrations!Here(q)
          BY <1>5, <3>1, <4>1, <4>2 DEF RunnerTypes, Stands
        <5>2. k \in DOMAIN Migrations!Script[g] /\ Migrations!Here(q) = Migrations!Script[g][k]
          BY <5>1, <3>1, InsideFile DEF Migrations!Here
        <5>3. Took(Migrations!Here(q))
          BY <3>1, <4>1, <4>2, <5>1 DEF Lasting
        <5>4. Holds(Migrations!Script[g][k], present')
          BY <2>1, <3>1, <5>2, <5>3
        <5>. QED
          BY <5>1, <5>2, <5>4
      <4>. QED
        BY <3>1, <3>4, <4>1, <4>2
    <3>. QED
      BY <3>5, <3>6
  <2>. QED
    BY <2>3, <2>4 DEF Lasting, Took
<1>10. ASSUME NEW x \in Checks
       PROVE  /\ Past(r, x)' /\ ~Past(r, x) => x \in present'
              /\ x \in present /\ x \notin present' => Between(r, x)'
              /\ Between(r, x) => Between(r, x)' \/ x \in present'
              /\ Between(r, x)' =>
                   Between(r, x) \/ (f = 2 /\ h.op = "dropIf" /\ h.on = x)
              /\ h.op = "dropIf" => ~Migrations!Adds(r) /\ ~(h.on \in present' /\ runner[r].saw)
  <2>1. f # 2 => h.on # x
    BY <1>2, Kinds DEF Checks
  <2>2. f = 2 =>
          /\ i = DropAt(x) => h.on = x /\ h.op = "dropIf"
          /\ i = AddAt(x) => h.on = x /\ h.op = "add"
          /\ h.on = x => i = DropAt(x) \/ i = AddAt(x)
    BY <1>2, Statements DEF DropAt, AddAt, Checks
  <2>3. h.op = "dropIf" => ~Migrations!Adds(r)
    BY DEF Migrations!Adds
  <2>4. h.op = "add" => Migrations!Adds(r) /\ ~Migrations!Removes(r)
    BY DEF Migrations!Adds, Migrations!Removes
  <2>5. Migrations!Removes(r) => h.op = "dropIf"
    BY DEF Migrations!Removes
  <2>6. h.op = "dropIf" /\ runner[r].saw => Migrations!Removes(r)
    BY DEF Migrations!Removes
  <2>7. /\ Past(r, x)' <=> f = 2 /\ AddAt(x) < i + 1
        /\ Between(r, x)' <=> f = 2 /\ DropAt(x) < i + 1 /\ i + 1 <= AddAt(x)
    BY <1>3, <1>4 DEF Past, Between
  <2>8. /\ Past(r, x) <=> f = 2 /\ AddAt(x) < i
        /\ Between(r, x) <=> f = 2 /\ DropAt(x) < i /\ i <= AddAt(x)
    BY DEF Past, Between
  <2>9. DropAt(x) \in 1..2 /\ AddAt(x) = DropAt(x) + 2
    BY DEF DropAt, AddAt
  <2>. HIDE DEF f, h, i
  <2>. QED
    BY <1>1, <1>2, <2>1, <2>2, <2>3, <2>4, <2>5, <2>6, <2>7, <2>8, <2>9
<1>11. Constrained'
  <2>. SUFFICES ASSUME NEW x \in Checks, x \notin present',
                       2 \in applied \/ \E q \in Migrations!Running' : Past(q, x)'
                PROVE  2 \in halfway \/ \E q \in Migrations!Running' : Between(q, x)'
    BY <1>1 DEF Constrained
  <2>1. CASE x \in present
    BY <2>1, <1>1, <1>6, <1>10
  <2>2. CASE x \notin present
    <3>1. ASSUME NEW q \in Migrations!Running', Past(q, x)'
          PROVE  q \in Migrations!Running /\ Past(q, x)
      BY <3>1, <1>5, <1>6, <1>7, <1>10
    <3>2. 2 \in halfway \/ \E q \in Migrations!Running : Between(q, x)
      BY <2>2, <3>1 DEF Constrained
    <3>3. ASSUME NEW q \in Migrations!Running, Between(q, x)
          PROVE  q \in Migrations!Running' /\ Between(q, x)'
      BY <3>3, <1>5, <1>6, <1>7, <1>10
    <3>. QED
      BY <3>2, <3>3
  <2>. QED
    BY <2>1, <2>2
<1>12. Alone'
  <2>. SUFFICES ASSUME NEW q \in Migrations!Running' \ crossed'
                PROVE  /\ Migrations!Running' = {q}
                       /\ runner'[q].todo \cap applied' = {}
                       /\ runner'[q].pc = "looked" =>
                            (runner'[q].saw <=> Migrations!Here(q)'.on \in present')
                       /\ \A x \in Checks : Between(q, x)' => x \notin present'
    BY DEF Alone
  <2>1. /\ q = r /\ Migrations!Running = {r} /\ r \notin crossed
        /\ runner[r].todo \cap applied = {}
        /\ runner[r].pc = "looked" => (runner[r].saw <=> h.on \in present)
        /\ \A x \in Checks : Between(r, x) => x \notin present
    BY <1>1, <1>6 DEF Alone
  <2>2. ASSUME NEW x \in Checks, Between(r, x)'
        PROVE  x \notin present'
    <3>1. CASE h.op = "dropIf" /\ h.on = x
      <4>1. runner[r].pc = "looked"
        BY <1>1, <3>1 DEF Migrations!Due
      <4>2. ~Migrations!Adds(r) /\ (runner[r].saw => x \notin present')
        BY <1>10, <3>1
      <4>. QED
        BY <1>1, <2>1, <3>1, <4>1, <4>2
    <3>2. CASE Between(r, x) /\ ~(h.op = "dropIf" /\ h.on = x)
      <4>1. x \notin present
        BY <2>1, <3>2
      <4>2. ~(Migrations!Adds(r) /\ h.on = x)
        <5>1. f = 2 /\ DropAt(x) < i /\ i + 1 <= AddAt(x)
          BY <1>3, <1>4, <2>2, <3>2 DEF Between
        <5>2. h.on = x => i = DropAt(x) \/ i = AddAt(x)
          BY <1>2, <5>1, Statements DEF DropAt, AddAt, Checks
        <5>3. DropAt(x) \in 1..2 /\ AddAt(x) = DropAt(x) + 2
          BY DEF DropAt, AddAt
        <5>. HIDE DEF f, h, i
        <5>. QED
          BY <1>2, <5>1, <5>2, <5>3
      <4>. QED
        BY <1>1, <4>1, <4>2
    <3>. QED
      BY <2>2, <3>1, <3>2, <1>10
  <2>. QED
    BY <1>1, <1>3, <1>6, <2>1, <2>2
<1>13. Blameless'
  BY <1>1 DEF Blameless
<1>. QED
  BY <1>8, <1>9, <1>11, <1>12, <1>13

LEMMA RecordKeeps ==
  ASSUME MigrationInv, NEW r \in Runners, Migrations!Record(r)
  PROVE  MigrationInv'
<1>. USE DEF MigrationInv
<1>. DEFINE f == Migrations!File(r)
            left == runner[r].todo \ {f}
<1>1. /\ UNCHANGED <<present, crossed, halfway>>
      /\ r \in Migrations!Running /\ Migrations!AtEnd(r)
      /\ applied' = applied \cup {f}
  BY DEF Migrations!Record
<1>2. /\ outcome' \in [Runners -> {"none", "exit0", "exit1", "killed"}]
      /\ \A q \in Runners : outcome'[q] = "exit1" => outcome[q] = "exit1"
  BY DEF Migrations!Record, RunnerTypes
<1>3. /\ runner' \in [Runners -> [pc : {"off", "at_statement", "looked"},
                                   todo : SUBSET Migrations!Files, at : 1..5, saw : BOOLEAN]]
      /\ \A q \in Runners \ {r} : runner'[q] = runner[q]
      /\ runner'[r].at = 1
      /\ r \in Migrations!Running' =>
           runner'[r].pc = "at_statement" /\ runner'[r].todo = left /\ left # {}
  <2>. DEFINE new == IF left = {} THEN Migrations!Off
                     ELSE [Migrations!Off EXCEPT !.pc = "at_statement", !.todo = left]
  <2>1. /\ new \in [pc : {"off", "at_statement", "looked"},
                     todo : SUBSET Migrations!Files, at : 1..5, saw : BOOLEAN]
        /\ new.at = 1
        /\ new.pc # "off" => new.pc = "at_statement" /\ new.todo = left /\ left # {}
    <3>1. left \in SUBSET Migrations!Files /\ 1 \in 1..5
      <4>1. runner[r].todo \in SUBSET Migrations!Files
        BY DEF RunnerTypes
      <4>. QED
        BY <4>1
    <3>2. CASE left = {}
      BY <3>1, <3>2 DEF Migrations!Off
    <3>3. CASE left # {}
      <4>1. new = [pc |-> "at_statement", todo |-> left, at |-> 1, saw |-> FALSE]
        BY <3>3 DEF Migrations!Off
      <4>. QED
        BY <3>1, <3>3, <4>1
    <3>. QED
      BY <3>2, <3>3
  <2>2. runner' = [runner EXCEPT ![r] = new]
    BY DEF Migrations!Record
  <2>. HIDE DEF new
  <2>. QED
    BY <2>1, <2>2 DEF Migrations!Running, RunnerTypes
<1>4. r \in Migrations!Running' => Migrations!File(r)' \in 1..8
  BY <1>3, NewFile, Statements
<1>5. \A q \in Runners \ {r} :
        /\ q \in Migrations!Running' <=> q \in Migrations!Running
        /\ Migrations!File(q)' = Migrations!File(q)
        /\ Stands(q)' <=> Stands(q)
        /\ Migrations!Here(q)' = Migrations!Here(q)
        /\ \A x : (Between(q, x)' <=> Between(q, x)) /\ (Past(q, x)' <=> Past(q, x))
  BY <1>3, OthersStand
<1>6. \A q : /\ q \in Migrations!Running' => q \in Runners /\ q \in Migrations!Running
             /\ q \in Migrations!Running => q \in Runners
  <2>1. \A q : (q \in Migrations!Running' => q \in Runners) /\ (q \in Migrations!Running => q \in Runners)
    BY DEF Migrations!Running
  <2>. QED
    BY <1>1, <1>5, <2>1
<1>7. f \in 1..8 /\ f \in runner[r].todo
  BY <1>1, FileIsIn
<1>8. RunnerTypes'
  <2>1. r \in Migrations!Running' => Stands(r)'
    <3>1. ASSUME r \in Migrations!Running'
          PROVE  1 \in 1..(Len(Migrations!Script[Migrations!File(r)']) + 1)
      BY <1>4, <3>1, Statements
    <3>. QED
      BY <1>3, <3>1 DEF Stands
  <2>2. \A q \in Migrations!Running' : runner'[q].todo # {} /\ Stands(q)'
    BY <1>3, <1>5, <1>6, <2>1 DEF RunnerTypes
  <2>. QED
    BY <1>1, <1>2, <1>3, <1>7, <2>2, Statements DEF RunnerTypes, Migrations!Files
<1>9. \A j \in DOMAIN Migrations!Script[f] : j \in 1..(runner[r].at - 1)
  <2>. DEFINE n == Len(Migrations!Script[f])
              i == runner[r].at
  <2>1. n \in 1..4 /\ DOMAIN Migrations!Script[f] = 1..n
    BY <1>7, Statements
  <2>2. i > n /\ i \in 1..(n + 1)
    BY <1>1 DEF Migrations!AtEnd, RunnerTypes, Stands
  <2>. HIDE DEF n, i
  <2>3. \A j \in 1..n : j \in 1..(i - 1)
    BY <2>1, <2>2
  <2>. QED
    BY <2>1, <2>3 DEF i
<1>10. Lasting'
  <2>1. \A g \in applied' \ {2} : \A j \in DOMAIN Migrations!Script[g] :
          Holds(Migrations!Script[g][j], present)
    BY <1>1, <1>7, <1>9 DEF Lasting, Took
  <2>. QED
    BY <1>1, <1>3, <1>5, <1>6, <2>1 DEF Lasting, Took, Holds
<1>11. ASSUME NEW x \in Checks
       PROVE  /\ ~Past(r, x)' /\ ~Between(r, x)' /\ ~Between(r, x)
              /\ f = 2 => Past(r, x)
  <2>1. DropAt(x) \in 1..2 /\ AddAt(x) = DropAt(x) + 2
    BY DEF DropAt, AddAt
  <2>2. f = 2 => runner[r].at = 5
    <3>1. f = 2 => runner[r].at > 4 /\ runner[r].at \in 1..5
      BY <1>1, Statements DEF Migrations!AtEnd, RunnerTypes, Stands
    <3>. QED
      BY <3>1
  <2>. QED
    BY <1>3, <2>1, <2>2 DEF Past, Between
<1>12. Constrained'
  <2>. SUFFICES ASSUME NEW x \in Checks, x \notin present,
                       2 \in applied' \/ \E q \in Migrations!Running' : Past(q, x)'
                PROVE  2 \in halfway \/ \E q \in Migrations!Running' : Between(q, x)'
    BY <1>1 DEF Constrained
  <2>1. ASSUME NEW q \in Migrations!Running', Past(q, x)'
        PROVE  q \in Migrations!Running /\ Past(q, x)
    BY <2>1, <1>5, <1>6, <1>11
  <2>2. 2 \in applied' => 2 \in applied \/ \E q \in Migrations!Running : Past(q, x)
    BY <1>1, <1>11
  <2>3. 2 \in halfway \/ \E q \in Migrations!Running : Between(q, x)
    BY <2>1, <2>2 DEF Constrained
  <2>4. ASSUME NEW q \in Migrations!Running, Between(q, x)
        PROVE  q \in Migrations!Running' /\ Between(q, x)'
    BY <2>4, <1>5, <1>6, <1>11
  <2>. QED
    BY <2>3, <2>4
<1>13. Alone'
  <2>. SUFFICES ASSUME NEW q \in Migrations!Running' \ crossed'
                PROVE  /\ Migrations!Running' = {q}
                       /\ runner'[q].todo \cap applied' = {}
                       /\ runner'[q].pc = "looked" =>
                            (runner'[q].saw <=> Migrations!Here(q)'.on \in present')
                       /\ \A x \in Checks : Between(q, x)' => x \notin present'
    BY DEF Alone
  <2>1. q \in Migrations!Running /\ q \notin crossed
    BY <1>1, <1>6
  <2>2. Migrations!Running = {q} /\ runner[q].todo \cap applied = {}
    BY <2>1 DEF Alone
  <2>3. q = r /\ Migrations!Running' = {q}
    BY <1>1, <1>6, <2>2
  <2>4. runner'[q].todo \cap applied' = {}
    BY <1>1, <1>3, <2>2, <2>3
  <2>. QED
    BY <1>3, <1>11, <2>3, <2>4
<1>14. Blameless'
  BY <1>1, <1>2 DEF Blameless
<1>. QED
  BY <1>8, <1>10, <1>12, <1>13, <1>14

(* MySQL refuses a statement only to a runner that another one crosses.    *)
LEMMA RefusedIsCrossed ==
  ASSUME MigrationInv, NEW r \in Runners, Migrations!StatementFails(r)
  PROVE  r \in crossed
<1>. USE DEF MigrationInv
<1>. DEFINE f == Migrations!File(r)
            i == runner[r].at
            h == Migrations!Here(r)
<1>. SUFFICES ASSUME r \notin crossed PROVE FALSE
  OBVIOUS
<1>1. /\ r \in Migrations!Running /\ ~Migrations!AtEnd(r)
      /\ Migrations!Due(r) /\ Migrations!Refused(r)
  BY DEF Migrations!StatementFails
<1>2. /\ runner[r].pc = "looked" => (runner[r].saw <=> h.on \in present)
      /\ \A x \in Checks : Between(r, x) => x \notin present
  BY <1>1 DEF Alone
<1>3. h.op # "add"
  <2>. SUFFICES ASSUME h.op = "add" PROVE FALSE
    OBVIOUS
  <2>1. f \in 1..8 /\ i \in 1..4 /\ i \in DOMAIN Migrations!Script[f] /\ h = Migrations!Script[f][i]
    BY <1>1, InsideFile DEF Migrations!Here
  <2>2. f = 2
    BY <2>1, Kinds
  <2>3. i \in {3, 4} /\ h.on \in Checks /\ AddAt(h.on) = i /\ DropAt(h.on) < i
    BY <2>1, <2>2, Statements DEF AddAt, DropAt, Checks
  <2>4. i <= AddAt(h.on)
    BY <2>3
  <2>5. Between(r, h.on)
    BY <2>2, <2>3, <2>4 DEF Between
  <2>. QED
    BY <1>1, <1>2, <2>3, <2>5 DEF Migrations!Refused, Migrations!Adds, Migrations!Removes
<1>. QED
  BY <1>1, <1>2, <1>3
     DEF Migrations!Due, Migrations!Refused, Migrations!Adds, Migrations!Removes

LEMMA MigrationStep == MigrationInv /\ [Migrations!Next]_migrationVars => MigrationInv'
<1>. SUFFICES ASSUME MigrationInv, [Migrations!Next]_migrationVars PROVE MigrationInv'
  OBVIOUS
<1>1. ASSUME NEW r \in Runners, Migrations!Start(r)
      PROVE  MigrationInv'
  BY <1>1, StartKeeps
<1>2. ASSUME NEW r \in Runners, Migrations!Look(r)
      PROVE  MigrationInv'
  BY <1>2, LookKeeps
<1>3. ASSUME NEW r \in Runners, Migrations!Execute(r)
      PROVE  MigrationInv'
  BY <1>3, ExecuteKeeps
<1>4. ASSUME NEW r \in Runners, Migrations!StatementFails(r)
      PROVE  MigrationInv'
  <2>1. r \in Migrations!Running /\ Migrations!Stop(r, "exit1")
    BY <1>4 DEF Migrations!StatementFails
  <2>2. r \in crossed
    BY <1>4, RefusedIsCrossed
  <2>. QED
    BY <2>1, <2>2, StopKeeps
<1>5. ASSUME NEW r \in Runners, Migrations!Record(r)
      PROVE  MigrationInv'
  BY <1>5, RecordKeeps
<1>6. ASSUME NEW r \in Runners, Migrations!RecordFails(r)
      PROVE  MigrationInv'
  <2>1. /\ r \in Migrations!Running /\ Migrations!Stop(r, "exit1")
        /\ Migrations!File(r) \in applied
    BY <1>6 DEF Migrations!RecordFails
  <2>2. Migrations!File(r) \in runner[r].todo
    BY <2>1, FileIsIn DEF MigrationInv
  <2>3. r \in crossed
    BY <2>1, <2>2 DEF MigrationInv, Alone
  <2>. QED
    BY <2>1, <2>3, StopKeeps
<1>7. ASSUME NEW r \in Runners, Migrations!Killed(r)
      PROVE  MigrationInv'
  <2>1. r \in Migrations!Running /\ Migrations!Stop(r, "killed")
    BY <1>7 DEF Migrations!Killed
  <2>. QED
    BY <2>1, StopKeeps
<1>8. CASE UNCHANGED migrationVars
  <2>1. /\ UNCHANGED <<present, applied, outcome, crossed, halfway>>
        /\ Migrations!Running' = Migrations!Running
    BY <1>8 DEF migrationVars, Migrations!Running
  <2>2. \A q : /\ runner'[q] = runner[q]
               /\ Migrations!File(q)' = Migrations!File(q)
               /\ Migrations!Here(q)' = Migrations!Here(q)
               /\ Migrations!AtEnd(q)' <=> Migrations!AtEnd(q)
    BY <1>8 DEF migrationVars, Migrations!File, Migrations!Here, Migrations!AtEnd
  <2>3. \A q : /\ Stands(q)' <=> Stands(q)
               /\ \A x : (Between(q, x)' <=> Between(q, x)) /\ (Past(q, x)' <=> Past(q, x))
    BY <2>2 DEF Stands, Between, Past
  <2>4. RunnerTypes'
    BY <1>8, <2>1, <2>2, <2>3 DEF MigrationInv, RunnerTypes, migrationVars, Migrations!Files
  <2>5. Lasting'
    BY <2>1, <2>2 DEF MigrationInv, Lasting, Took, Holds
  <2>6. Constrained'
    BY <2>1, <2>3 DEF MigrationInv, Constrained
  <2>7. Alone'
    BY <2>1, <2>2, <2>3 DEF MigrationInv, Alone
  <2>. QED
    BY <2>1, <2>4, <2>5, <2>6, <2>7 DEF MigrationInv, Blameless
<1>. QED
  BY <1>1, <1>2, <1>3, <1>4, <1>5, <1>6, <1>7, <1>8 DEF Migrations!Next

(* What the invariant says of the files that are recorded.                 *)
LEMMA RecordedIsInPlace == MigrationInv => RerunIsSafe
<1>. SUFFICES ASSUME MigrationInv, NEW f \in applied
              PROVE  \/ Migrations!InPlace(f)
                     \/ f \in halfway
                     \/ f \in Migrations!CutShort(Migrations!Running)
  BY DEF MigrationInv, Blameless, RerunIsSafe, Migrations!RerunIsSafe
<1>1. f \in 1..8
  BY Statements DEF MigrationInv, RunnerTypes
<1>2. CASE f # 2
  <2>1. \A i \in DOMAIN Migrations!Script[f] :
          LET s == Migrations!Script[f][i]
          IN  /\ s.on \in present <=> s.op # "dropIf"
              /\ s.op = "dropIf" <=> f = 1
    BY <1>1, <1>2, Kinds DEF MigrationInv, Lasting, Took, Holds
  <2>2. ASSUME NEW x \in Migrations!Touched(f)
        PROVE  (x \in present) = Migrations!Wanted(f, x)
    <3>1. PICK i \in DOMAIN Migrations!Script[f] : Migrations!Script[f][i].on = x
      BY DEF Migrations!Touched
    <3>2. Migrations!Wanted(f, x) <=> f # 1
      BY <2>1, <3>1 DEF Migrations!Wanted
    <3>3. x \in present <=> f # 1
      BY <2>1, <3>1
    <3>4. Migrations!Wanted(f, x) \in BOOLEAN /\ (x \in present) \in BOOLEAN
      BY DEF Migrations!Wanted
    <3>. QED
      BY <3>2, <3>3, <3>4
  <2>. QED
    BY <2>2 DEF Migrations!InPlace
<1>3. CASE f = 2 /\ Checks \subseteq present
  <2>1. ASSUME NEW x \in Migrations!Touched(2)
        PROVE  (x \in present) = Migrations!Wanted(2, x)
    <3>1. x \in Checks
      <4>1. PICK i \in DOMAIN Migrations!Script[2] : Migrations!Script[2][i].on = x
        BY DEF Migrations!Touched
      <4>. QED
        BY <4>1, Kinds
    <3>2. Migrations!Wanted(2, x) /\ x \in present
      BY <1>3, <3>1, DropAndAdd
    <3>3. Migrations!Wanted(2, x) \in BOOLEAN /\ (x \in present) \in BOOLEAN
      BY DEF Migrations!Wanted
    <3>. QED
      BY <3>2, <3>3
  <2>. QED
    BY <1>3, <2>1 DEF Migrations!InPlace
<1>4. ASSUME f = 2, NEW x \in Checks, x \notin present
      PROVE  2 \in halfway \/ 2 \in Migrations!CutShort(Migrations!Running)
  <2>1. 2 \in halfway \/ \E r \in Migrations!Running : Between(r, x)
    BY <1>4 DEF MigrationInv, Constrained
  <2>. QED
    BY <1>4, <2>1, BetweenIsCut
<1>. QED
  BY <1>2, <1>3, <1>4

------------------------------------------------------------------------------
(* The parts together: one moves, the others keep their invariant.         *)
LEMMA ArchiveAlways == Spec => []ArchiveInv
<1>1. Init => ArchiveInv
  BY ArchiveInit DEF Init
<1>2. ArchiveInv /\ [Next]_vars => ArchiveInv'
  BY ArchiveStep DEF Next, vars, poolVars, migrationVars
<1>. QED
  BY <1>1, <1>2, PTL DEF Spec

LEMMA PoolAlways == Spec => []PoolInv
<1>1. Init => PoolInv
  BY PoolInit DEF Init
<1>2. PoolInv /\ [Next]_vars => PoolInv'
  BY PoolStep DEF Next, vars, archiveVars, migrationVars
<1>. QED
  BY <1>1, <1>2, PTL DEF Spec

LEMMA MigrationAlways == Spec => []MigrationInv
<1>1. Init => MigrationInv
  BY MigrationInit DEF Init
<1>2. MigrationInv /\ [Next]_vars => MigrationInv'
  BY MigrationStep DEF Next, vars, archiveVars, poolVars
<1>. QED
  BY <1>1, <1>2, PTL DEF Spec

(* A READY report can be decrypted, whatever jobs, deletions, sweeps and   *)
(* deaths of the process do (reportArchiveService.js:738, :1009), unless   *)
(* a deletion of it stands between its unlink and its UPDATE.              *)
THEOREM ReadyIsReadable == Spec => []ReadyCanBeRead
<1>1. ArchiveInv => ReadyCanBeRead
  BY DEF ArchiveInv, ReadyCanBeRead
<1>. QED
  BY <1>1, ArchiveAlways, PTL

(* Plaintext outlives no job but one that dies with the process            *)
(* (reportArchiveService.js:794).                                          *)
THEOREM PlaintextIsRemoved == Spec => []PlaintextGoes
<1>1. ArchiveInv => PlaintextGoes
  BY DEF ArchiveInv, PlaintextGoes
<1>. QED
  BY <1>1, ArchiveAlways, PTL

(* A row that refuses requests for its period has a job at work, or its    *)
(* job died with the process (reportArchiveService.js:840).                *)
THEOREM RefusalsAreTrue == Spec => []RefusalIsTrue
<1>1. ArchiveInv => RefusalIsTrue
  BY DEF ArchiveInv, RefusalIsTrue
<1>. QED
  BY <1>1, ArchiveAlways, PTL

(* Connections and waiters agree with where the handlers stand: no release *)
(* of config/db.js's pool is lost, none is made twice.                     *)
THEOREM PoolIsAccounted == Spec => []PoolAccounted
<1>1. PoolInv => PoolAccounted
  BY CountedIsAccounted DEF PoolInv
<1>. QED
  BY <1>1, PoolAlways, PTL

(* "Safe to re-run" (0002_product_constraints.sql:2): wherever earlier     *)
(* runs stopped, MySQL refuses nothing to a runner nobody crosses, and a   *)
(* recorded file is in place, unless another runner of it stands, or was   *)
(* cut short, between its DROP and its ADD.                                *)
THEOREM RerunsAreSafe == Spec => []RerunIsSafe
<1>1. MigrationInv => RerunIsSafe
  BY RecordedIsInPlace
<1>. QED
  BY <1>1, MigrationAlways, PTL
=============================================================================
