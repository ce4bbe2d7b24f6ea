------------------------------ MODULE ArchiveTab ------------------------------
(***************************************************************************)
(* The archives an administrator watches                                   *)
(* (bylot/src/components/AdminReportsTab.jsx): a list that is loaded when  *)
(* the tab opens, after each request and by a timer, which runs while the  *)
(* list shows a report being made.  Nothing orders the answers.  Whoever   *)
(* leaves the tab leaves its requests behind, and finds a new one on       *)
(* coming back.  Other administrators ask for reports and delete them too. *)
(* The server answers atomically; ReportArchive has its steps.             *)
(***************************************************************************)
EXTENDS Naturals, FiniteSets

CONSTANTS
  Jobs,    \* reports that can be asked for
  Loads    \* requests for the list that can be under way at once

ArchiveTabAssumption == IsFiniteSet(Jobs) /\ IsFiniteSet(Loads)

VARIABLES
  row,       \* server: the status of each report
  work,      \* server: where its job stands
  open,      \* is the tab there?
  list,      \* reports, as the tab shows them
  load,      \* each request for the list: its purpose and what it brings
  asking,    \* generating: where handleGenerate stands
  dialog,    \* deleteModal: the report it is open for
  deleting,  \* deletingId, and whether the answer is there
  strange,   \* history: reports others asked for, or this administrator before
             \* leaving the tab, that were inserted since it was opened
  undone,    \* history: reports deleted while their jobs were at work
  missed     \* history: an answer was lost, or came after a younger one was shown

archiveTabVars == <<row, work, open, list, load, asking, dialog, deleting, strange, undone, missed>>
server == <<row, work, strange, undone>>

Status == {"none", "active", "ended", "DELETED"}   \* PENDING or GENERATING; READY or FAILED
List   == [Jobs -> Status]
Unmade == [j \in Jobs |-> "none"]
NoLoad == [for |-> "none", at |-> "sent", brings |-> Unmade]
Stages == {"idle", "sent", "answered", "reloading"}

TypeOK ==
  /\ row \in List /\ list \in List /\ work \in [Jobs -> {"none", "queued", "running"}]
  /\ load \in [Loads -> [for : {"none", "first", "view", "poll", "generate", "delete"},
                         at : {"sent", "answered"}, brings : List]]
  /\ asking \in Stages /\ deleting \in Stages
  /\ dialog \subseteq Jobs /\ Cardinality(dialog) <= 1
  /\ strange \subseteq Jobs /\ undone \subseteq Jobs
  /\ open \in BOOLEAN /\ missed \in BOOLEAN

Active(l) == {j \in Jobs : l[j] = "active"}

Polling == Active(list) # {}

(* The tab as it is mounted; loadReports of its first effect.              *)
Opened(first) ==
  [l \in Loads |-> IF l = first THEN [NoLoad EXCEPT !.for = "first"] ELSE NoLoad]

Init ==
  /\ row = Unmade /\ list = Unmade /\ work = [j \in Jobs |-> "none"]
  /\ open = TRUE
  /\ \E first \in Loads : load = Opened(first)
  /\ asking = "idle" /\ deleting = "idle" /\ dialog = {}
  /\ strange = {} /\ undone = {}
  /\ missed = FALSE

Ask(l, purpose) ==
  /\ load[l].for = "none"
  /\ load' = [load EXCEPT ![l] = [NoLoad EXCEPT !.for = purpose]]

(* Another tab of the panel, or another page; what was asked for goes on.  *)
Leave ==
  /\ open
  /\ open' = FALSE
  /\ list' = Unmade /\ load' = [l \in Loads |-> NoLoad]
  /\ asking' = "idle" /\ deleting' = "idle" /\ dialog' = {}
  /\ UNCHANGED <<server, missed>>

Return(l) ==
  /\ ~open
  /\ open' = TRUE
  /\ load' = Opened(l)
  /\ strange' = {} /\ missed' = FALSE
  /\ UNCHANGED <<row, work, list, asking, dialog, deleting, undone>>

------------------------------------------------------------------------------
(* What can be clicked; the dialog covers the list.                        *)
Header  == IF \E l \in Loads : load[l].for \notin {"none", "poll"} THEN {} ELSE {"refresh"}
GenerateBar == IF open /\ asking = "idle" THEN {"generate"} ELSE {}
Deletable(j)    == list[j] \notin {"none", "DELETED"} /\ dialog = {}
DeleteDialog == IF dialog # {} /\ deleting = "idle" THEN {"cancel", "confirm"} ELSE {}

Refresh(l) ==
  /\ open /\ dialog = {} /\ "refresh" \in Header
  /\ Ask(l, "view")
  /\ UNCHANGED <<server, open, list, asking, dialog, deleting, missed>>

Poll(l) ==   \* the interval of three seconds
  /\ Polling
  /\ Ask(l, "poll")
  /\ UNCHANGED <<server, open, list, asking, dialog, deleting, missed>>

(* handleGenerate.                                                         *)
Generate ==
  /\ dialog = {} /\ "generate" \in GenerateBar
  /\ asking' = "sent"
  /\ UNCHANGED <<server, open, list, load, dialog, deleting, missed>>

Insert(j) ==
  /\ row[j] = "none"
  /\ row' = [row EXCEPT ![j] = "active"] /\ work' = [work EXCEPT ![j] = "queued"]

Started ==
  /\ asking = "sent"
  /\ asking' = "answered"
  /\ \E j \in Jobs : Insert(j)
  /\ UNCHANGED <<open, list, load, dialog, deleting, strange, undone, missed>>

Refused ==   \* a job of the period is active, or the request is
  /\ asking = "sent"
  /\ asking' = "idle"
  /\ UNCHANGED <<server, open, list, load, dialog, deleting, missed>>

AnswerLost ==
  /\ asking = "answered"
  /\ asking' = "idle"
  /\ missed' = TRUE
  /\ UNCHANGED <<server, open, list, load, dialog, deleting>>

NoReload(l) ==   \* mutant: the list is not loaded again
  /\ asking = "answered"
  /\ asking' = "idle"
  /\ UNCHANGED <<server, open, list, load, dialog, deleting, missed>>

GenerateBack(l) ==
  /\ asking = "answered"
  /\ asking' = "reloading"
  /\ Ask(l, "generate")
  /\ UNCHANGED <<server, open, list, dialog, deleting, missed>>

(* setDeleteModal and handleDeleteConfirm.                                 *)
OpenDelete(j) ==
  /\ Deletable(j)
  /\ dialog' = {j}
  /\ UNCHANGED <<server, open, list, load, asking, deleting, missed>>

CancelDelete ==
  /\ "cancel" \in DeleteDialog
  /\ dialog' = {}
  /\ UNCHANGED <<server, open, list, load, asking, deleting, missed>>

ConfirmDelete ==
  /\ "confirm" \in DeleteDialog
  /\ deleting' = "sent"
  /\ UNCHANGED <<server, open, list, load, asking, dialog, missed>>

(* deleteReportArchive asks nothing of the status.                         *)
Mark(S) ==
  /\ row' = [j \in Jobs |-> IF j \in S THEN "DELETED" ELSE row[j]]
  /\ undone' = undone \cup {j \in S : work[j] # "none"}
  /\ UNCHANGED <<work, strange>>

Deleted ==
  /\ deleting = "sent"
  /\ deleting' = "answered"
  /\ Mark(dialog)
  /\ UNCHANGED <<open, list, load, asking, dialog, missed>>

DeleteRefused ==   \* or its answer is lost: the dialog stays
  /\ deleting \in {"sent", "answered"}
  /\ deleting' = "idle"
  /\ UNCHANGED <<server, open, list, load, asking, dialog, missed>>

DeleteBack(l) ==
  /\ deleting = "answered"
  /\ deleting' = "reloading"
  /\ dialog' = {}
  /\ Ask(l, "delete")
  /\ UNCHANGED <<server, open, list, asking, missed>>

------------------------------------------------------------------------------
(* The server: a job begins and ends, whatever the row says by then; the   *)
(* requests of others, and those left behind; the list is read.            *)
Begin(j) ==
  /\ work[j] = "queued"
  /\ work' = [work EXCEPT ![j] = "running"] /\ row' = [row EXCEPT ![j] = "active"]
  /\ UNCHANGED <<open, list, load, asking, dialog, deleting, strange, undone, missed>>

JobEnds(j) ==
  /\ work[j] # "none"
  /\ work' = [work EXCEPT ![j] = "none"] /\ row' = [row EXCEPT ![j] = "ended"]
  /\ UNCHANGED <<open, list, load, asking, dialog, deleting, strange, undone, missed>>

InsertElsewhere(j) ==
  /\ Insert(j)
  /\ strange' = IF open THEN strange \cup {j} ELSE strange
  /\ UNCHANGED <<open, list, load, asking, dialog, deleting, undone, missed>>

DeleteElsewhere(j) ==
  /\ row[j] # "none"
  /\ Mark({j})
  /\ UNCHANGED <<open, list, load, asking, dialog, deleting, missed>>

Serve(l) ==
  /\ load[l].for # "none" /\ load[l].at = "sent"
  /\ load' = [load EXCEPT ![l].at = "answered", ![l].brings = row]
  /\ UNCHANGED <<server, open, list, asking, dialog, deleting, missed>>

(* A report moves one way only, unless it was deleted while it was made:   *)
(* what is behind the list is older.                                       *)
Rank(s) == CASE s = "none" -> 0 [] s = "active" -> 1 [] s = "DELETED" -> 3 [] OTHER -> 2
Older(a, b) == \E j \in Jobs \ undone : Rank(a[j]) < Rank(b[j])

(* setReports, or no answer; the handler that waited for it ends with it.  *)
Over(l) ==
  /\ asking' = IF load[l].for = "generate" THEN "idle" ELSE asking
  /\ deleting' = IF load[l].for = "delete" THEN "idle" ELSE deleting
  /\ load' = [load EXCEPT ![l] = NoLoad]
  /\ UNCHANGED <<server, open, dialog>>

LoadBack(l) ==
  /\ load[l].for # "none" /\ load[l].at = "answered"
  /\ list' = load[l].brings
  /\ missed' = (missed \/ Older(load[l].brings, list))
  /\ Over(l)

LoadLost(l) ==
  /\ load[l].for # "none"
  /\ missed' = (missed \/ load[l].for # "poll")
  /\ Over(l)
  /\ UNCHANGED list

Next ==
  \/ \E l \in Loads : \/ Refresh(l) \/ Poll(l) \/ GenerateBack(l) \/ DeleteBack(l)
                      \/ Serve(l) \/ LoadLost(l) \/ LoadBack(l) \/ Return(l)
  \/ \E j \in Jobs : \/ OpenDelete(j) \/ Begin(j) \/ JobEnds(j)
                     \/ InsertElsewhere(j) \/ DeleteElsewhere(j)
  \/ Generate \/ Started \/ Refused \/ AnswerLost
  \/ CancelDelete \/ ConfirmDelete \/ Deleted \/ DeleteRefused \/ Leave

Spec == Init /\ [][Next]_archiveTabVars

------------------------------------------------------------------------------
(***************************************************************************)
(* A report being made is watched: it is in the list, so that the timer    *)
(* runs, or the answer that will put it there is on its way, be it asked   *)
(* for here or found on coming back; unless an answer was lost or came     *)
(* after a younger one (AdminReportsTab.jsx:86, "Auto-poll if any report   *)
(* is PENDING or GENERATING").  Two kinds are excepted, since nothing      *)
(* tells the tab of them: reports inserted for somebody else, or for a tab *)
(* that was left, while it is open; and reports that were deleted while    *)
(* being made, whose jobs, which write with no look at the status, may     *)
(* bring them back.                                                        *)
(***************************************************************************)
JobIsWatched ==
  open /\ ~missed =>
     \A j \in Active(row) \ (strange \cup undone) :
        \/ j \in Active(list)
        \/ asking = "answered"
        \/ \E l \in Loads : load[l].for \in {"first", "generate"}
=============================================================================
