---------------------------- MODULE LocationContext ----------------------------
(***************************************************************************)
(* Where the visitor is (bylot/src/context/LocationContext.jsx): a state   *)
(* of the page, three keys of localStorage, which outlive it, and answers  *)
(* of the browser's geolocation, which come when they come.                *)
(***************************************************************************)
EXTENDS Naturals

CONSTANTS
  Spots,      \* coordinates geolocation may give
  Cities,     \* PRESET_CITIES, each with coordinates of its own
  MaxAsked,   \* bound on the geolocation requests under way
  Nowhere

LocationAssumption ==
  /\ Spots \cap Cities = {} /\ Nowhere \notin Spots \cup Cities /\ "none" \notin Cities
  /\ MaxAsked \in Nat \ {0}   \* the page itself asks once

VARIABLES
  place,   \* locationState
  store,   \* bylot_location_status, bylot_coords, bylot_manual_city
  asked,   \* geolocation requests not answered yet
  capable  \* does the browser have geolocation?

locationVars == <<place, store, asked, capable>>

Coords == Spots \cup Cities \cup {Nowhere}
Place  == [coords : Coords, status : {"prompt", "granted", "manual", "denied"},
           city : Cities \cup {"none", "GPS"}, loading : BOOLEAN]
Store  == [status : {"none", "granted", "manual", "denied"}, coords : Coords, city : Cities \cup {"none"}]

TypeOK ==
  /\ place \in Place /\ store \in Store
  /\ asked \in 0..MaxAsked /\ capable \in BOOLEAN

At(coords, status, city) ==
  [coords |-> coords, status |-> status, city |-> city, loading |-> FALSE]

(* getInitialLocationState.                                                *)
Restored(s) ==
  CASE s.status = "granted" /\ s.coords # Nowhere -> At(s.coords, "granted", "GPS")
    [] s.status = "manual" /\ s.coords # Nowhere /\ s.city # "none" -> At(s.coords, "manual", s.city)
    [] s.status = "denied" -> At(Nowhere, "denied", "none")
    [] OTHER -> At(Nowhere, "prompt", "none")

Init ==
  /\ store = [status |-> "none", coords |-> Nowhere, city |-> "none"]
  /\ place = Restored(store)
  /\ capable \in BOOLEAN
  /\ asked = IF capable THEN 1 ELSE 0

(* The page is opened again; with nothing stored it asks at once.          *)
Reload ==
  /\ place' = Restored(store)
  /\ asked' = IF capable /\ store.status = "none" THEN 1 ELSE 0
  /\ UNCHANGED <<store, capable>>

(* requestLocation.                                                        *)
RequestLocation ==
  /\ IF capable
       THEN /\ asked < MaxAsked   \* bound
            /\ asked' = asked + 1
            /\ place' = [place EXCEPT !.loading = TRUE]
       ELSE /\ place' = At(Nowhere, "denied", "none")
            /\ UNCHANGED asked
  /\ UNCHANGED <<store, capable>>

Located(spot) ==
  /\ asked > 0
  /\ asked' = asked - 1
  /\ place' = At(spot, "granted", "GPS")
  /\ store' = [status |-> "granted", coords |-> spot, city |-> "none"]
  /\ UNCHANGED capable

(* Refused or timed out: the coordinates stay in the store, unread.        *)
NotLocated ==
  /\ asked > 0
  /\ asked' = asked - 1
  /\ place' = At(Nowhere, "denied", "none")
  /\ store' = [store EXCEPT !.status = "denied"]
  /\ UNCHANGED capable

ForgetStatus(city) ==   \* mutant: bylot_location_status is left as it was
  /\ place' = At(city, "manual", city)
  /\ store' = [store EXCEPT !.coords = city, !.city = city]
  /\ UNCHANGED <<asked, capable>>

SetManualLocation(city) ==
  /\ place' = At(city, "manual", city)
  /\ store' = [status |-> "manual", coords |-> city, city |-> city]
  /\ UNCHANGED <<asked, capable>>

Next ==
  \/ Reload \/ RequestLocation \/ NotLocated
  \/ \E s \in Spots : Located(s)
  \/ \E c \in Cities : SetManualLocation(c)

Spec == Init /\ [][Next]_locationVars

------------------------------------------------------------------------------
(***************************************************************************)
(* Opening the page again finds the visitor where the page had them,       *)
(* whatever order choices and late answers of geolocation came in          *)
(* (getInitialLocationState), in a browser that has geolocation.           *)
(***************************************************************************)
ReloadKeepsLocation ==
  capable => Restored(store) = [place EXCEPT !.loading = FALSE]
=============================================================================
