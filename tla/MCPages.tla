------------------------------- MODULE MCPages -------------------------------
(***************************************************************************)
(* Pages of the web client.  They share no state that these modules keep,  *)
(* so one run takes them one at a time: the initial state chooses the part *)
(* that runs, and the variables of the others are 0.                       *)
(***************************************************************************)
EXTENDS Naturals, TLC

CONSTANTS
  Calls, Questions, MaxCodes, MaxLoads, MaxWrites, Jobs, Reports, Spots, Cities, MaxAsked, Nowhere,
  Items, Hits, PageSize, States

VARIABLES
  part,
  admin, flow, signing, panel, acting, call, guarded, codes, made, shown, missed,
  row, work, open, list, load, asking, dialog, deleting, strange, undone, unseen,
  place, store, asked, capable,
  page, about, display, fetches, loads, version, seen, error, crossed,
  item, at, listed, view, turning, selected, modal, removal, ticks,
  path, from, user, restoring, challenge, asks, busy, leaving, resetting, timer, hops,
  form, listOf, districts, latest, strayed, auth, phoneModal, saving, locating, sent, success, phoned,
  listing,
  product, report, card, offered, action, cut, lifted

SignIn   == INSTANCE AdminSignIn
Archives == INSTANCE ArchiveTab WITH Loads <- Calls, missed <- unseen
Whereabouts == INSTANCE LocationContext
Loading  == INSTANCE PageLoads WITH shown <- display, call <- fetches
Expiry   == INSTANCE ExpiredTab WITH Views <- Calls, loading <- turning
Entry    == INSTANCE EntryPages WITH Asks <- Calls, page <- path, loading <- restoring, ask <- asks
Selling  == INSTANCE SellForm WITH Asks <- Calls, ask <- districts, modal <- phoneModal
Desk     == INSTANCE DisputeDesk WITH shown <- offered, call <- action

ASSUME PagesAssumption ==
  /\ SignIn!SignInAssumption
  /\ Archives!ArchiveTabAssumption
  /\ Whereabouts!LocationAssumption
  /\ Loading!LoadsAssumption
  /\ Expiry!ExpiredTabAssumption
  /\ Selling!SellAssumption

Parts == {"sign-in", "archives", "whereabouts", "views", "expiry", "entry", "selling", "desk"}

signInVars   == <<admin, flow, signing, panel, acting, call, guarded, codes, made, shown, missed>>
archivesVars == <<row, work, open, list, load, asking, dialog, deleting, strange, undone, unseen>>
placeVars    == <<place, store, asked, capable>>
viewsVars    == <<page, about, display, fetches, loads, version, seen, error, crossed>>
expiryVars   == <<item, at, listed, view, turning, selected, modal, removal, ticks>>
entryVars    == <<path, from, user, restoring, challenge, asks, busy, leaving, resetting, timer, hops>>
sellVars     == <<form, listOf, districts, latest, strayed, auth, phoneModal, saving, locating, sent,
                  success, phoned, listing>>
deskVars     == <<product, report, card, offered, action, cut, lifted>>

Init ==
  /\ part \in Parts
  /\ IF part = "sign-in" THEN SignIn!Init
     ELSE /\ admin = 0 /\ flow = 0 /\ signing = 0 /\ panel = 0 /\ acting = 0 /\ call = 0
          /\ guarded = 0 /\ codes = 0 /\ made = 0 /\ shown = 0 /\ missed = 0
  /\ IF part = "archives" THEN Archives!Init
     ELSE /\ row = 0 /\ work = 0 /\ open = 0 /\ list = 0 /\ load = 0 /\ asking = 0 /\ dialog = 0
          /\ deleting = 0 /\ strange = 0 /\ undone = 0 /\ unseen = 0
  /\ IF part = "whereabouts" THEN Whereabouts!Init
     ELSE place = 0 /\ store = 0 /\ asked = 0 /\ capable = 0
  /\ IF part = "views" THEN Loading!Init
     ELSE /\ page = 0 /\ about = 0 /\ display = 0 /\ fetches = 0 /\ loads = 0 /\ version = 0
          /\ seen = 0 /\ error = 0 /\ crossed = 0
  /\ IF part = "expiry" THEN Expiry!Init
     ELSE /\ item = 0 /\ at = 0 /\ listed = 0 /\ view = 0 /\ turning = 0 /\ selected = 0
          /\ modal = 0 /\ removal = 0 /\ ticks = 0
  /\ IF part = "entry" THEN Entry!Init
     ELSE /\ path = 0 /\ from = 0 /\ user = 0 /\ restoring = 0 /\ challenge = 0 /\ asks = 0
          /\ busy = 0 /\ leaving = 0 /\ resetting = 0 /\ timer = 0 /\ hops = 0
  /\ IF part = "selling" THEN Selling!Init
     ELSE /\ form = 0 /\ listOf = 0 /\ districts = 0 /\ latest = 0 /\ strayed = 0
          /\ auth = 0 /\ phoneModal = 0 /\ saving = 0
          /\ locating = 0 /\ sent = 0 /\ success = 0 /\ phoned = 0 /\ listing = 0
  /\ IF part = "desk" THEN Desk!Init
     ELSE /\ product = 0 /\ report = 0 /\ card = 0 /\ offered = 0 /\ action = 0 /\ cut = 0
          /\ lifted = 0

TypeOK ==
  /\ part \in Parts
  /\ part = "sign-in" => SignIn!TypeOK
  /\ part = "archives" => Archives!TypeOK
  /\ part = "whereabouts" => Whereabouts!TypeOK
  /\ part = "views" => Loading!TypeOK
  /\ part = "expiry" => Expiry!TypeOK
  /\ part = "entry" => Entry!TypeOK
  /\ part = "selling" => Selling!TypeOK
  /\ part = "desk" => Desk!TypeOK

vars == <<part, signInVars, archivesVars, placeVars, viewsVars, expiryVars, entryVars, sellVars, deskVars>>

Next ==
  \/ /\ part = "sign-in"
     /\ SignIn!Next
     /\ UNCHANGED <<part, archivesVars, placeVars, viewsVars, expiryVars, entryVars, sellVars, deskVars>>
  \/ /\ part = "archives"
     /\ Archives!Next
     /\ UNCHANGED <<part, signInVars, placeVars, viewsVars, expiryVars, entryVars, sellVars, deskVars>>
  \/ /\ part = "whereabouts"
     /\ Whereabouts!Next
     /\ UNCHANGED <<part, signInVars, archivesVars, viewsVars, expiryVars, entryVars, sellVars, deskVars>>
  \/ /\ part = "views"
     /\ Loading!Next
     /\ UNCHANGED <<part, signInVars, archivesVars, placeVars, expiryVars, entryVars, sellVars, deskVars>>
  \/ /\ part = "expiry"
     /\ Expiry!Next
     /\ UNCHANGED <<part, signInVars, archivesVars, placeVars, viewsVars, entryVars, sellVars, deskVars>>
  \/ /\ part = "entry"
     /\ Entry!Next
     /\ UNCHANGED <<part, signInVars, archivesVars, placeVars, viewsVars, expiryVars, sellVars, deskVars>>
  \/ /\ part = "selling"
     /\ Selling!Next
     /\ UNCHANGED <<part, signInVars, archivesVars, placeVars, viewsVars, expiryVars, entryVars, deskVars>>
  \/ /\ part = "desk"
     /\ Desk!Next
     /\ UNCHANGED <<part, signInVars, archivesVars, placeVars, viewsVars, expiryVars, entryVars, sellVars>>

Spec == Init /\ [][Next]_vars

(* AdminSignIn: recovery codes are seen by whom they are made for.         *)
CodesReachTheAdmin == part = "sign-in" => SignIn!CodesReachTheAdmin

(* ArchiveTab: a report being made is watched.                             *)
JobIsWatched == part = "archives" => Archives!JobIsWatched

(* LocationContext: a reload finds the visitor where the page had them.    *)
ReloadKeepsLocation == part = "whereabouts" => Whereabouts!ReloadKeepsLocation

(* PageLoads: a page at rest shows the answer to what it is about.         *)
AnswersToTheQuestion == part = "views" => Loading!AnswersToTheQuestion

(* ExpiredTab: a tick stays until it is taken back or acted on.            *)
TicksAreKept == part = "expiry" => Expiry!TicksAreKept

(* EntryPages: redirections come to an end.                                *)
RedirectsEnd == part = "entry" => Entry!RedirectsEnd

(* SellForm: an item is listed in a district of its state.                 *)
ListedWhereItIs == part = "selling" => Selling!ListedWhereItIs

(* DisputeDesk: a product with a genuine complaint is not on sale.         *)
GenuineIsOffSale == part = "desk" => Desk!GenuineIsOffSale

Symmetry == Permutations(Calls) \cup Permutations(Reports)
=============================================================================
