------------------------------ MODULE PageLoads ------------------------------
(***************************************************************************)
(* What a page shows and what it asked for (bylot/src/pages, components).  *)
(* Each page loads when the thing it is about changes: the product of the  *)
(* address, the coordinates and the distance, the page of a list.  Some    *)
(* also change what they list, and then load again or drop the row.  No    *)
(* answer is ordered after another; some pages ignore those of before the  *)
(* last change (isMounted, cancelled).                                     *)
(* One page is open at a time; Init chooses it.                            *)
(***************************************************************************)
EXTENDS Naturals

CONSTANTS
  Calls,      \* requests of the page that can be under way at once
  Questions,  \* what the page can be about
  MaxLoads,   \* bound on the loads the page starts
  MaxWrites   \* bound on the changes it makes

LoadsAssumption == Questions # {} /\ MaxLoads \in Nat \ {0} /\ MaxWrites \in Nat

(***************************************************************************)
(* The pages: do they ignore an answer to what they are no longer about;   *)
(* what do they do after a change of their own (reload, patch or nothing); *)
(* does a failed load empty what they show; does a load wait for the one   *)
(* before (one), is the page about what came last (follow), can what it is *)
(* about change at all (turns), and does an error outlast the next load    *)
(* (sticks)?                                                               *)
(***************************************************************************)
View == [guarded |-> FALSE, after |-> "nothing", clears |-> FALSE, one |-> FALSE,
         follow |-> FALSE, turns |-> TRUE, sticks |-> FALSE]

Home           == [View EXCEPT !.after = "patch", !.clears = TRUE]
Category       == [View EXCEPT !.clears = TRUE]
Location       == [View EXCEPT !.clears = TRUE]
Profile        == [View EXCEPT !.after = "patch"]
BareDetails    == View   \* mutant: no isMounted
ProductDetails == [View EXCEPT !.guarded = TRUE]
SellerDetails  == View
EditItem       == View
VerifyEmail    == [View EXCEPT !.guarded = TRUE, !.sticks = TRUE]
Header         == [View EXCEPT !.guarded = TRUE, !.clears = TRUE]
Districts      == View
SellerOrders   == [View EXCEPT !.after = "reload", !.clears = TRUE, !.one = TRUE, !.follow = TRUE]
AdminPanel     == [View EXCEPT !.after = "reload", !.turns = FALSE]
ExpiredTab     == [View EXCEPT !.after = "reload"]

Rules == [Home |-> Home, Category |-> Category, Location |-> Location, Profile |-> Profile,
          ProductDetails |-> ProductDetails, SellerDetails |-> SellerDetails,
          EditItem |-> EditItem, VerifyEmail |-> VerifyEmail, Header |-> Header,
          Districts |-> Districts, SellerOrders |-> SellerOrders,
          AdminPanel |-> AdminPanel, ExpiredTab |-> ExpiredTab]

Pages == DOMAIN Rules

VARIABLES
  page,      \* which page is open
  about,     \* what it is about now
  shown,     \* what it shows: the answer, and the number of its load
  call,      \* requests: loads and changes
  loads,     \* loads started so far
  version,   \* server: changes made so far
  seen,      \* the last change whose answer the page has
  error,     \* did a request fail since the last load began (or ever, if it sticks)?
  crossed    \* history: an answer came after a younger one was shown, or after
             \* the answer to a change it does not know of, or a change loaded
             \* again what the page was about before it turned

pageVars == <<page, about, shown, call, loads, version, seen, error, crossed>>

Nothing == [of |-> 0, version |-> 0, number |-> 0]
Shown   == [of : Questions \cup {0}, version : 0..MaxWrites, number : 0..MaxLoads]
Free    == [kind |-> "none", of |-> 0, number |-> 0, at |-> "sent", version |-> 0, stale |-> FALSE]
Call    == [kind : {"none", "load", "change"}, of : Questions \cup {0}, number : 0..MaxLoads,
            at : {"sent", "answered", "lost"}, version : 0..MaxWrites, stale : BOOLEAN]

TypeOK ==
  /\ page \in Pages /\ about \in Questions
  /\ shown \in Shown /\ call \in [Calls -> Call]
  /\ loads \in 1..MaxLoads /\ version \in 0..MaxWrites /\ seen \in 0..version
  /\ error \in BOOLEAN /\ crossed \in BOOLEAN

(* The page opens and loads (its first effect).                            *)
LoadOf(q, n) == [Free EXCEPT !.kind = "load", !.of = q, !.number = n]

Init ==
  /\ page \in Pages /\ about \in Questions
  /\ \E c \in Calls : call = [d \in Calls |-> IF d = c THEN LoadOf(about, 1) ELSE Free]
  /\ shown = Nothing /\ loads = 1 /\ version = 0 /\ seen = 0
  /\ error = FALSE /\ crossed = FALSE

Loading == \E c \in Calls : call[c].kind = "load"

(* An effect's clean-up, and the next load; most begin with setError('').  *)
StartLoad(c, q) ==
  /\ loads < MaxLoads   \* bound
  /\ loads' = loads + 1
  /\ call' = [d \in Calls |-> IF d = c THEN LoadOf(q, loads + 1)
                ELSE [call[d] EXCEPT !.stale = (@ \/ (call[d].kind = "load" /\ Rules[page].guarded))]]
  /\ error' = (error /\ Rules[page].sticks)

(* The page is now about something else: another address, place, distance, *)
(* search or state; or another page of its list is asked for.              *)
Turn(c, q) ==
  /\ q # about /\ Rules[page].turns
  /\ call[c].kind = "none"
  /\ Rules[page].one => ~Loading
  /\ about' = IF Rules[page].follow THEN about ELSE q
  /\ StartLoad(c, q)
  /\ UNCHANGED <<page, shown, version, seen, crossed>>

(* A change of what is listed: a status, a deletion.                       *)
Change(c) ==
  /\ Rules[page].after # "nothing"
  /\ call[c].kind = "none"
  /\ version < MaxWrites   \* bound
  /\ call' = [call EXCEPT ![c] = [Free EXCEPT !.kind = "change", !.of = about]]
  /\ UNCHANGED <<page, about, shown, loads, version, seen, error, crossed>>

(* The server.                                                             *)
Serve(c) ==
  /\ call[c].kind # "none" /\ call[c].at = "sent"
  /\ version' = IF call[c].kind = "change" THEN version + 1 ELSE version
  /\ version' <= MaxWrites   \* bound
  /\ call' = [call EXCEPT ![c].at = "answered", ![c].version = version']
  /\ UNCHANGED <<page, about, shown, loads, seen, error, crossed>>

Lose(c) ==
  /\ call[c].kind # "none" /\ call[c].at # "lost"
  /\ call' = [call EXCEPT ![c].at = "lost", ![c].version = 0]
  /\ UNCHANGED <<page, about, shown, loads, version, seen, error, crossed>>

------------------------------------------------------------------------------
Over(c) == call' = [call EXCEPT ![c] = Free]

Show(c) ==
  LET l == call[c] IN
  /\ l.kind = "load" /\ l.at = "answered" /\ ~l.stale
  /\ shown' = [of |-> l.of, version |-> l.version, number |-> l.number]
  /\ about' = IF Rules[page].follow THEN l.of ELSE about
  /\ crossed' = (crossed \/ l.number < shown.number \/ l.version < seen)
  /\ Over(c)
  /\ UNCHANGED <<page, loads, version, seen, error>>

Ignore(c) ==
  /\ call[c].kind = "load" /\ call[c].at # "sent" /\ call[c].stale
  /\ Over(c)
  /\ UNCHANGED <<page, about, shown, loads, version, seen, error, crossed>>

LoadFails(c) ==
  /\ call[c].kind = "load" /\ call[c].at = "lost" /\ ~call[c].stale
  /\ shown' = IF Rules[page].clears THEN Nothing ELSE shown
  /\ error' = TRUE
  /\ Over(c)
  /\ UNCHANGED <<page, about, loads, version, seen, crossed>>

(* The change is made: load again, by the closure of the render in which   *)
(* it began, or drop the row.                                              *)
ChangeBack(c) ==
  /\ call[c].kind = "change" /\ call[c].at = "answered"
  /\ seen' = IF call[c].version > seen THEN call[c].version ELSE seen
  /\ IF Rules[page].after = "reload"
       THEN /\ StartLoad(c, call[c].of)
            /\ crossed' = (crossed \/ call[c].of # about)
            /\ UNCHANGED shown
       ELSE /\ shown' = IF shown.version < call[c].version
                          THEN [shown EXCEPT !.version = call[c].version] ELSE shown
            /\ Over(c) /\ UNCHANGED <<loads, error, crossed>>
  /\ UNCHANGED <<page, about, version>>

ChangeFails(c) ==
  /\ call[c].kind = "change" /\ call[c].at = "lost"
  /\ error' = TRUE
  /\ Over(c)
  /\ UNCHANGED <<page, about, shown, loads, version, seen, crossed>>

Next == \E c \in Calls :
  \/ \E q \in Questions : Turn(c, q)
  \/ Change(c) \/ Serve(c) \/ Lose(c) \/ Show(c) \/ Ignore(c) \/ LoadFails(c)
  \/ ChangeBack(c) \/ ChangeFails(c)

Spec == Init /\ [][Next]_pageVars

------------------------------------------------------------------------------
(***************************************************************************)
(* A page at rest whose loads did not fail shows the answer to what it is  *)
(* about, no older than the last of its own changes, unless answers        *)
(* crossed; a product, the header and the verification of an address       *)
(* always (ProductDetails.jsx:22, VerifyEmail.jsx:25, Header.jsx:18).      *)
(***************************************************************************)
AnswersToTheQuestion ==
  /\ \A c \in Calls : call[c] = Free
  /\ ~error
  /\ (crossed => page \in {"ProductDetails", "VerifyEmail", "Header"})
  => shown.of = about /\ shown.version >= seen
=============================================================================
