----------------------------- MODULE DisputeDesk -----------------------------
(***************************************************************************)
(* Complaints about one product: customers flag it from its card           *)
(* (bylot/src/components/ProductCard.jsx, reportProduct), an administrator *)
(* closes them at the panel (AdminPanel.jsx, FraudReportsTab, runAction),  *)
(* and closing one as genuine blocks the product, in a second statement    *)
(* (adminController.js, resolveReport).  The panel's other tabs write the  *)
(* same rows; no button waits for the action before it.                    *)
(* Who may write a product otherwise is in ProductLife.                    *)
(***************************************************************************)
EXTENDS Naturals

CONSTANTS
  Reports,  \* one for each customer and this product (uk_one_report_per_user)
  Calls     \* actions of the panel that can be under way at once

VARIABLES
  product,  \* its status
  report,   \* the status of each complaint
  card,     \* ProductCard of each customer
  shown,    \* complaints the panel shows with their buttons
  call,     \* actions of the panel
  cut,      \* history: complaints closed as genuine whose product was not blocked then
  lifted    \* history: the product was put on sale since it was last blocked

deskVars == <<product, report, card, shown, call, cut, lifted>>

Closings == {"reviewed", "resolved", "dismissed"}
Open     == {"pending", "reviewed"}
Statuses == {"active", "blocked", "deleted"}   \* deleted stands for all others not on sale
NoCall   == [at |-> "none", op |-> "none", of |-> "none", to |-> "none", brings |-> {}]

TypeOK ==
  /\ product \in Statuses
  /\ report \in [Reports -> {"none", "pending"} \cup Closings]
  /\ card \in [Reports -> {"form", "sent", "reported"}]
  /\ shown \in SUBSET Reports /\ cut \in SUBSET Reports /\ lifted \in BOOLEAN
  /\ call \in [Calls -> [at : {"none", "sent", "closed", "done", "failed", "loading", "loaded"},
                         op : {"none", "resolve", "status", "delete", "other"},
                         of : Reports \cup {"none"}, to : Statuses \cup Closings \cup {"none"},
                         brings : SUBSET Reports]]

Init ==
  /\ product = "active"
  /\ report = [r \in Reports |-> "none"] /\ card = [r \in Reports |-> "form"]
  /\ shown = {} /\ cut = {} /\ lifted = FALSE
  /\ \E c \in Calls : call = [d \in Calls |-> IF d = c THEN [NoCall EXCEPT !.at = "loading"] ELSE NoCall]

Move(c, at)   == call' = [call EXCEPT ![c].at = at]
Answer(c, at) == call' = [call EXCEPT ![c] = [NoCall EXCEPT !.at = at]]

------------------------------------------------------------------------------
(* The card of a customer: the form, which an error leaves, and the badge, *)
(* which goes when the page is left.                                       *)
Card(r, from, to) ==
  /\ card[r] \in from
  /\ card' = [card EXCEPT ![r] = to]
  /\ UNCHANGED <<product, shown, call, cut, lifted>>

HandleReport(r) == Card(r, {"form"}, "sent") /\ UNCHANGED report
Leave(r)        == Card(r, {"sent", "reported"}, "form") /\ UNCHANGED report

(* reportProduct: a second complaint of the customer replaces the first,   *)
(* and is pending.                                                         *)
ReportProduct(r) ==
  /\ \E answer \in {"reported", "form"} : Card(r, {"sent"}, answer)   \* or it is lost
  /\ report' = [report EXCEPT ![r] = "pending"]

------------------------------------------------------------------------------
(* What the panel offers, at any time: for the complaints it shows as open *)
(* three ways to close them; for the product any status, and its deletion; *)
(* and the users and the sellers, whose rows are in other modules.         *)
(* Filters and searches hide some and add none.                            *)
Actions ==
  [at : {"none"}, op : {"resolve"}, of : shown, to : Closings, brings : {{}}]

ProductActions ==
  {[NoCall EXCEPT !.op = "status", !.to = s] : s \in Statuses \ {"deleted"}}
  \cup {[NoCall EXCEPT !.op = "delete"]}

OtherActions == {[NoCall EXCEPT !.op = "other"]}

RunAction(c) ==
  /\ call[c].at = "none"
  /\ \E a \in Actions \cup ProductActions \cup OtherActions : call' = [call EXCEPT ![c] = [a EXCEPT !.at = "sent"]]
  /\ UNCHANGED <<product, report, card, shown, cut, lifted>>

(* resolveReport: close the complaint; block the product of a genuine one. *)
CloseFirst(c) ==   \* mutant: one that was marked as reviewed is closed and no more
  LET r == call[c].of IN
  /\ call[c].at = "sent" /\ call[c].op = "resolve"
  /\ report' = [report EXCEPT ![r] = call[c].to]
  /\ IF call[c].to = "resolved" /\ report[r] = "pending" THEN Move(c, "closed") ELSE Answer(c, "done")
  /\ UNCHANGED <<product, card, shown, cut, lifted>>

CloseReport(c) ==
  LET r == call[c].of IN
  /\ call[c].at = "sent" /\ call[c].op = "resolve"
  /\ report' = [report EXCEPT ![r] = call[c].to]
  /\ IF call[c].to = "resolved" THEN Move(c, "closed") ELSE Answer(c, "done")
  /\ UNCHANGED <<product, card, shown, cut, lifted>>

BlockProduct(c) ==
  LET r == call[c].of IN
  /\ call[c].at = "closed"
  /\ product' = "blocked"
  /\ lifted' = FALSE
  /\ cut' = cut \ {r}
  /\ Answer(c, "done")
  /\ UNCHANGED <<report, card, shown>>

(* The first statement is not undone.                                      *)
ResolveFails(c) ==
  /\ call[c].at \in {"sent", "closed"}
  /\ cut' = IF call[c].at = "closed" THEN cut \cup {call[c].of} ELSE cut
  /\ Answer(c, "failed")
  /\ UNCHANGED <<product, report, card, shown, lifted>>

Write(s) ==
  /\ product' = s
  /\ lifted' = (lifted \/ s = "active")

UpdateProductStatus(c) ==
  /\ call[c].at = "sent" /\ call[c].op = "status"
  /\ Write(call[c].to)
  /\ Answer(c, "done")
  /\ UNCHANGED <<report, card, shown, cut>>

DeleteProduct(c) ==
  /\ call[c].at = "sent" /\ call[c].op = "delete"
  /\ Write("deleted")
  /\ Answer(c, IF product = "deleted" THEN "failed" ELSE "done")
  /\ UNCHANGED <<report, card, shown, cut>>

OtherDone(c) ==
  /\ call[c].at = "sent" /\ call[c].op = "other"
  /\ Answer(c, "done")
  /\ UNCHANGED <<product, report, card, shown, cut, lifted>>

(* Its seller, another administrator.                                      *)
Elsewhere(s) ==
  /\ s # product
  /\ Write(s)
  /\ UNCHANGED <<report, card, shown, call, cut>>

------------------------------------------------------------------------------
(* The action is done: loadAdminData; or it failed, and the lists stay.    *)
ActionBack(c) ==
  /\ call[c].at \in {"done", "failed"}
  /\ call' = [call EXCEPT ![c] = IF call[c].at = "done" THEN [NoCall EXCEPT !.at = "loading"] ELSE NoCall]
  /\ UNCHANGED <<product, report, card, shown, cut, lifted>>

(* getReports: an error of the database is answered with an empty list.    *)
GetReports(c) ==
  /\ call[c].at = "loading"
  /\ \E list \in {{r \in Reports : report[r] \in Open}, {}} :
       call' = [call EXCEPT ![c].at = "loaded", ![c].brings = list]
  /\ UNCHANGED <<product, report, card, shown, cut, lifted>>

LoadBack(c) ==
  /\ call[c].at = "loaded"
  /\ shown' = call[c].brings
  /\ call' = [call EXCEPT ![c] = NoCall]
  /\ UNCHANGED <<product, report, card, cut, lifted>>

LoadFails(c) ==   \* allSettled: the list of complaints stays
  /\ call[c].at \in {"loading", "loaded"}
  /\ call' = [call EXCEPT ![c] = NoCall]
  /\ UNCHANGED <<product, report, card, shown, cut, lifted>>

Next ==
  \/ \E r \in Reports : HandleReport(r) \/ ReportProduct(r) \/ Leave(r)
  \/ \E c \in Calls : \/ RunAction(c) \/ CloseReport(c) \/ BlockProduct(c) \/ ResolveFails(c)
                      \/ UpdateProductStatus(c) \/ DeleteProduct(c) \/ OtherDone(c)
                      \/ ActionBack(c) \/ GetReports(c) \/ LoadBack(c) \/ LoadFails(c)
  \/ \E s \in Statuses : Elsewhere(s)

Spec == Init /\ [][Next]_deskVars

------------------------------------------------------------------------------
(***************************************************************************)
(* A product with a complaint found genuine is not on sale: the closing    *)
(* blocks it (adminController.js:639, "Auto-block product when report is   *)
(* resolved as genuine"), whatever other closings, complaints and changes  *)
(* run beside it; unless the handler was cut off between its statements,   *)
(* is still at work, or somebody has put the product on sale since.        *)
(***************************************************************************)
GenuineIsOffSale ==
  product = "active" /\ ~lifted =>
     \A r \in Reports : report[r] = "resolved" =>
        \/ r \in cut
        \/ \E c \in Calls : call[c].at = "closed" /\ call[c].of = r
==============================================================================
