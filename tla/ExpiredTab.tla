------------------------------ MODULE ExpiredTab ------------------------------
(***************************************************************************)
(* The administrator's list of expired products                            *)
(* (bylot/src/pages/AdminPanel.jsx, ExpiredProductsTab) and the handlers   *)
(* that empty it (backend/controllers/adminController.js): a list in pages *)
(* with a search, ticks that outlive both, and a dialog for each of three  *)
(* deletions.  Products change by themselves: a day passes, a seller       *)
(* extends a date, somebody else deletes one.                              *)
(* The handlers are transactions under row locks, one step each; how the   *)
(* three compare dates is in ProductLife.                                  *)
(***************************************************************************)
EXTENDS Naturals, FiniteSets

CONSTANTS
  Items,      \* products, numbered in the order of the list
  Hits,       \* those the search finds
  PageSize,
  Views       \* requests for the list that can be under way at once

ExpiredTabAssumption ==
  /\ Items \in SUBSET (Nat \ {0}) /\ IsFiniteSet(Items) /\ Hits \subseteq Items
  /\ PageSize \in Nat \ {0} /\ IsFiniteSet(Views)

VARIABLES
  item,       \* server: each product
  at,         \* page and debouncedQuery: what the tab is about
  listed,     \* products and meta: the last answer
  view,       \* requests for the list
  loading,
  selected,   \* selectedIds
  modal,      \* the open dialog: its kind, and the product it names
  removal,    \* the deletion under way, with what the click closed over
  ticks       \* history: what the administrator has ticked and not deleted

expiredTabVars == <<item, at, listed, view, loading, selected, modal, removal, ticks>>

Where    == [page : {1} \cup 1..Cardinality(Items), searching : BOOLEAN]
NoView   == [at |-> "none", of |-> [page |-> 1, searching |-> FALSE], brings |-> {}]
NoDialog == <<"none", 0>>
Dialogs  == {NoDialog, <<"all", 0>>, <<"selected", 0>>} \cup {<<"single", i>> : i \in Items}
NoRemoval == [at |-> "none", what |-> NoDialog, ids |-> {}, of |-> [page |-> 1, searching |-> FALSE]]

TypeOK ==
  /\ item \in [Items -> {"fresh", "expired", "deleted"}]
  /\ at \in Where
  /\ listed \in [shows : SUBSET Items, pages : {1} \cup 0..Cardinality(Items)]
  /\ view \in [Views -> [at : {"none", "sent", "answered", "lost"}, of : Where, brings : SUBSET Items]]
  /\ loading \in BOOLEAN
  /\ selected \in SUBSET Items /\ ticks \in SUBSET Items
  /\ modal \in Dialogs
  /\ removal \in [at : {"none", "sent", "done", "refused", "reloading"}, what : Dialogs,
                  ids : SUBSET Items, of : Where]

Expired == {i \in Items : item[i] = "expired"}

(* getExpiredProducts: a page of what the search finds among the expired.  *)
Found(of, E) == IF of.searching THEN E \cap Hits ELSE E

PageOf(of, E) ==
  {i \in Found(of, E) :
     LET before == Cardinality({j \in Found(of, E) : j < i})
     IN (of.page - 1) * PageSize <= before /\ before < of.page * PageSize}

PagesOf(of, E) == (Cardinality(Found(of, E)) + PageSize - 1) \div PageSize

Init ==
  /\ item \in [Items -> {"fresh", "expired"}]
  /\ at = [page |-> 1, searching |-> FALSE]
  /\ listed = [shows |-> {}, pages |-> 1]
  /\ \E first \in Views :
       view = [v \in Views |-> IF v = first THEN [NoView EXCEPT !.at = "sent"] ELSE NoView]
  /\ loading = TRUE
  /\ selected = {} /\ ticks = {} /\ modal = NoDialog /\ removal = NoRemoval

(* loadExpired, with the page and the search of a render.                  *)
LoadExpired(v, of) ==
  /\ view[v].at = "none"
  /\ view' = [view EXCEPT ![v] = [NoView EXCEPT !.at = "sent", !.of = of]]
  /\ loading' = TRUE

Deleting == removal.at # "none"

(* What can be clicked.  The dialog covers the tab; the rows and the pages *)
(* are there when nothing loads, the rest of the toolbar always.  (The     *)
(* count that enables "Delete All" also comes from the panel, and may be   *)
(* old either way: it is left out.)                                        *)
Uncovered == modal = NoDialog

Toolbar ==
  IF ~Uncovered THEN {}
  ELSE (IF listed.shows # {} THEN {"page"} ELSE {})
       \cup (IF selected # {} THEN {"none"} ELSE {})
       \cup (IF selected # {} /\ ~Deleting THEN {"delete selected"} ELSE {})
       \cup (IF Deleting THEN {} ELSE {"delete all"})

Cards == IF Uncovered /\ ~loading THEN listed.shows ELSE {}

Pagination ==
  IF ~Uncovered \/ loading \/ listed.pages <= 1 THEN {}
  ELSE {p \in 1..at.page : p = at.page - 1} \cup {p \in 1..listed.pages : p = at.page + 1}

------------------------------------------------------------------------------
(* Debounced by 300 ms: the search takes effect, from the first page, even *)
(* under a dialog opened since the typing.                                 *)
Search(v) ==
  /\ at' = [page |-> 1, searching |-> ~at.searching]
  /\ LoadExpired(v, at')
  /\ UNCHANGED <<item, listed, selected, modal, removal, ticks>>

Turn(v, p) ==
  /\ p \in Pagination
  /\ at' = [at EXCEPT !.page = p]
  /\ LoadExpired(v, at')
  /\ UNCHANGED <<item, listed, selected, modal, removal, ticks>>

Select(ids) ==
  /\ selected' = ids
  /\ ticks' = (ticks \ (selected \ ids)) \cup (ids \ selected)
  /\ UNCHANGED <<item, at, listed, view, loading, modal, removal>>

ToggleSelectProduct(i) ==
  /\ i \in Cards
  /\ Select(IF i \in selected THEN selected \ {i} ELSE selected \cup {i})

ToggleSelectAllPage ==
  /\ "page" \in Toolbar
  /\ Select(IF listed.shows \subseteq selected THEN selected \ listed.shows
            ELSE selected \cup listed.shows)

DeselectAll ==
  /\ "none" \in Toolbar
  /\ Select({})

Open(m) ==
  /\ modal' = m
  /\ UNCHANGED <<item, at, listed, view, loading, selected, removal, ticks>>

OpenSelected == "delete selected" \in Toolbar /\ Open(<<"selected", 0>>)
OpenAll      == "delete all" \in Toolbar /\ Open(<<"all", 0>>)
OpenSingle(i) == i \in Cards /\ Open(<<"single", i>>)

EscapeAnyTime ==   \* mutant: the dialog goes while its deletion is under way
  /\ modal # NoDialog
  /\ Open(NoDialog)

Cancel ==   \* the button, the backdrop and Escape
  /\ modal # NoDialog /\ ~Deleting
  /\ Open(NoDialog)

(* handleDeleteSelected, handleDeleteAll, handleDeleteSingle.              *)
Confirm ==
  /\ modal # NoDialog /\ ~Deleting
  /\ modal[1] = "selected" => selected # {}
  /\ removal' = [at |-> "sent", what |-> modal, ids |-> selected, of |-> at]
  /\ UNCHANGED <<item, at, listed, view, loading, selected, modal, ticks>>

------------------------------------------------------------------------------
(* The server deletes what has expired, whatever it was asked.             *)
Remove(ids) == item' = [i \in Items |-> IF i \in ids THEN "deleted" ELSE item[i]]

Answer(a) ==
  /\ removal' = [removal EXCEPT !.at = a]
  /\ UNCHANGED <<at, listed, view, loading, selected, modal, ticks>>

DeleteAllExpired ==
  /\ removal.at = "sent" /\ removal.what[1] = "all"
  /\ Remove(Expired)
  /\ Answer("done")

DeleteSelectedExpired ==
  /\ removal.at = "sent" /\ removal.what[1] = "selected"
  /\ Remove(removal.ids \cap Expired)
  /\ Answer(IF /\ removal.ids \cap Expired = {}
               /\ \E i \in removal.ids : item[i] = "fresh"
            THEN "refused" ELSE "done")

DeleteSingleExpired ==
  /\ removal.at = "sent" /\ removal.what[1] = "single"
  /\ Remove({removal.what[2]} \cap Expired)
  /\ Answer(IF removal.what[2] \in Expired THEN "done" ELSE "refused")

RemovalLost ==
  /\ removal.at \in {"sent", "done"}
  /\ UNCHANGED item
  /\ Answer("refused")

(* Success: the ticks go with what was deleted, the dialog closes, and the *)
(* page of the click is loaded again.                                      *)
Removed(v) ==
  /\ removal.at = "done"
  /\ selected' = IF removal.what[1] = "single" THEN removal.ids \ {removal.what[2]} ELSE {}
  /\ ticks' = CASE removal.what[1] = "all" -> {}
                [] removal.what[1] = "selected" -> ticks \ removal.ids
                [] OTHER -> ticks \ {removal.what[2]}
  /\ modal' = NoDialog
  /\ removal' = [NoRemoval EXCEPT !.at = "reloading"]
  /\ LoadExpired(v, removal.of)
  /\ UNCHANGED <<item, at, listed>>

NotRemoved ==   \* the error shows, the dialog stays
  /\ removal.at = "refused"
  /\ removal' = NoRemoval
  /\ UNCHANGED <<item, at, listed, view, loading, selected, modal, ticks>>

------------------------------------------------------------------------------
GetExpired(v) ==
  /\ view[v].at = "sent"
  /\ view' = [view EXCEPT ![v].at = "answered", ![v].brings = Expired]
  /\ UNCHANGED <<item, at, listed, loading, selected, modal, removal, ticks>>

LoseView(v) ==
  /\ view[v].at \in {"sent", "answered"}
  /\ view' = [view EXCEPT ![v].at = "lost", ![v].brings = {}]
  /\ UNCHANGED <<item, at, listed, loading, selected, modal, removal, ticks>>

(* Any answer ends the loading; a deletion that reloads ends with its own, *)
(* here with any.                                                          *)
ViewBack(v) ==
  LET w == view[v] IN
  /\ w.at \in {"answered", "lost"}
  /\ listed' = IF w.at = "lost" THEN listed
               ELSE [shows |-> PageOf(w.of, w.brings), pages |-> PagesOf(w.of, w.brings)]
  /\ loading' = FALSE
  /\ view' = [view EXCEPT ![v] = NoView]
  /\ removal' \in IF removal.at = "reloading" THEN {removal, NoRemoval} ELSE {removal}
  /\ removal'.at = "reloading" => \E o \in Views : view'[o].at # "none"
  /\ UNCHANGED <<item, at, selected, modal, ticks>>

(* A day passes, a seller extends the date, somebody deletes the product.  *)
Meanwhile(i) ==
  /\ item[i] # "deleted"
  /\ \E s \in {"fresh", "expired", "deleted"} \ {item[i]} : item' = [item EXCEPT ![i] = s]
  /\ UNCHANGED <<at, listed, view, loading, selected, modal, removal, ticks>>

Next ==
  \/ \E v \in Views : \/ Search(v) \/ Removed(v) \/ GetExpired(v) \/ LoseView(v) \/ ViewBack(v)
                      \/ \E p \in 1..Cardinality(Items) : Turn(v, p)
  \/ \E i \in Items : ToggleSelectProduct(i) \/ OpenSingle(i) \/ Meanwhile(i)
  \/ ToggleSelectAllPage \/ DeselectAll \/ OpenSelected \/ OpenAll \/ Cancel \/ Confirm
  \/ DeleteAllExpired \/ DeleteSelectedExpired \/ DeleteSingleExpired
  \/ RemovalLost \/ NotRemoved

Spec == Init /\ [][Next]_expiredTabVars

------------------------------------------------------------------------------
(***************************************************************************)
(* A tick that is made stays until it is taken back or its product is      *)
(* deleted here, whatever page or search is shown and whatever answer      *)
(* comes: the handlers write the selection the click closed over           *)
(* (AdminPanel.jsx:775), and the dialog keeps all others from changing it. *)
(***************************************************************************)
TicksAreKept == selected = ticks
=============================================================================
