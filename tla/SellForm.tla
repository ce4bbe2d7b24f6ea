------------------------------- MODULE SellForm -------------------------------
(***************************************************************************)
(* The form a seller lists an item with (bylot/src/pages/Sell.jsx): the    *)
(* state and its districts, which are fetched when the state changes, the  *)
(* address, which the browser's location may overwrite, a picture, the     *)
(* telephone number that is asked for first; and the server, which         *)
(* stores what it is given (backend/controllers/locationController.js,     *)
(* sellerController.js).  Nobody but the form keeps a district in its      *)
(* state.  A district is named by the state it is in.                      *)
(***************************************************************************)
EXTENDS Naturals

CONSTANTS
  States,  \* states and union territories
  Asks     \* requests for districts that can be under way at once

SellAssumption == States # {}

VARIABLES
  form,      \* state, district, location, image, and whether the rest is filled in
  listOf,    \* districtsList: the state whose districts can be chosen
  ask,       \* requests for districts
  latest,    \* history: the request of the last change of state, until it is over
  strayed,   \* history: its answer was lost, or an older one came after it
  auth,      \* AuthContext: nothing yet, nobody, a user without or with telephone
  modal,     \* showPhoneModal
  saving,    \* handleSavePhone has not answered
  locating,  \* getCurrentPosition has not answered
  sent,      \* the submission under way, with what the form was
  success,
  phoned,    \* server: the user's row has a telephone, none was given, or spaces were
  listing    \* server: the last listing

sellVars == <<form, listOf, ask, latest, strayed, auth, modal, saving, locating, sent, success, phoned, listing>>

asks == <<ask, latest, strayed>>

Form    == [state : States, district : States, location : {"none", "typed", "gps"},
            image : BOOLEAN, filled : BOOLEAN]
Sent    == [at : {"none", "sent", "stored", "failed"}, state : States, district : States, fits : BOOLEAN]
Default == CHOOSE s \in States : TRUE   \* Tamil Nadu, whose districts the page knows
NoAsk   == [at |-> "none", of |-> Default]
NotSent == [at |-> "none", state |-> Default, district |-> Default, fits |-> FALSE]

TypeOK ==
  /\ form \in Form /\ listOf \in States
  /\ ask \in [Asks -> [at : {"none", "sent", "answered", "lost"}, of : States]]
  /\ auth \in {"loading", "nobody", "user", "phoned"}
  /\ latest \subseteq Asks
  /\ {strayed, modal, saving, locating, success} \subseteq BOOLEAN
  /\ phoned \in {"no", "blank", "yes"}
  /\ sent \in Sent /\ listing \in Sent

Init ==
  /\ form = [state |-> Default, district |-> Default, location |-> "none", image |-> FALSE, filled |-> FALSE]
  /\ listOf = Default /\ ask = [a \in Asks |-> NoAsk] /\ latest = {} /\ strayed = FALSE
  /\ auth = "loading" /\ phoned \in {"no", "yes"}
  /\ modal = FALSE /\ saving = FALSE /\ locating = FALSE /\ success = FALSE
  /\ sent = NotSent /\ listing = NotSent

(* silentRefresh answers: nobody is sent to the sign-in (EntryPages), and  *)
(* a user without a telephone is asked for it; a session may end.          *)
Authenticated(u) ==
  /\ \/ auth = "loading" /\ u \in {"nobody", IF phoned = "yes" THEN "phoned" ELSE "user"}
     \/ auth \in {"user", "phoned"} /\ u = "nobody"
  /\ auth' = u
  /\ modal' = (modal \/ u = "user")
  /\ UNCHANGED <<form, listOf, asks, saving, locating, sent, success, phoned, listing>>

(* What can be used: the dialog covers the form; nobody sees either.       *)
Usable      == auth \in {"user", "phoned"} /\ ~modal
PhoneDialog == auth \in {"user", "phoned"} /\ modal

------------------------------------------------------------------------------
(* handleSavePhone.                                                        *)
SavePhone ==
  /\ PhoneDialog /\ ~saving
  /\ saving' = TRUE
  /\ UNCHANGED <<form, listOf, asks, auth, modal, locating, sent, success, phoned, listing>>

(* The profile is stored; the answer may be lost.  Spaces pass the field,  *)
(* are trimmed and stored as NULL, and are a telephone to the page.        *)
PhoneSaved ==
  /\ saving
  /\ phoned' \in {"yes", "blank"}
  /\ saving' = FALSE
  /\ \/ auth' = "phoned" /\ modal' = FALSE
     \/ UNCHANGED <<auth, modal>>
  /\ UNCHANGED <<form, listOf, asks, locating, sent, success, listing>>

PhoneRefused ==
  /\ saving
  /\ saving' = FALSE
  /\ UNCHANGED <<form, listOf, asks, auth, modal, locating, sent, success, phoned, listing>>

------------------------------------------------------------------------------
Edit(f) ==
  /\ Usable
  /\ form' = f
  /\ UNCHANGED <<auth, modal, saving, sent, success, phoned, listing>>

(* handleStateChange: the state at once, its districts when they come.     *)
StateChange(a, s) ==
  /\ s # form.state /\ ask[a].at = "none"
  /\ Edit([form EXCEPT !.state = s])
  /\ ask' = [ask EXCEPT ![a] = [at |-> "sent", of |-> s]]
  /\ latest' = {a} /\ strayed' = FALSE
  /\ UNCHANGED <<listOf, locating>>

GetDistricts(a) ==
  /\ ask[a].at = "sent"
  /\ \E at \in {"answered", "lost"} : ask' = [ask EXCEPT ![a].at = at]
  /\ UNCHANGED <<form, listOf, latest, strayed, auth, modal, saving, locating, sent, success, phoned, listing>>

ListOnly(a) ==   \* mutant: the first of them is not chosen
  /\ ask[a].at = "answered"
  /\ listOf' = ask[a].of
  /\ latest' = latest \ {a} /\ strayed' = (latest = {})
  /\ ask' = [ask EXCEPT ![a] = NoAsk]
  /\ UNCHANGED <<form, auth, modal, saving, locating, sent, success, phoned, listing>>

DistrictsBack(a) ==   \* whatever the state is by now
  /\ ask[a].at = "answered"
  /\ listOf' = ask[a].of
  /\ latest' = latest \ {a} /\ strayed' = (latest = {})
  /\ form' = [form EXCEPT !.district = ask[a].of]
  /\ ask' = [ask EXCEPT ![a] = NoAsk]
  /\ UNCHANGED <<auth, modal, saving, locating, sent, success, phoned, listing>>

DistrictsLost(a) ==   \* the districts before stay
  /\ ask[a].at = "lost"
  /\ latest' = latest \ {a} /\ strayed' = (strayed \/ a \in latest)
  /\ ask' = [ask EXCEPT ![a] = NoAsk]
  /\ UNCHANGED <<form, listOf, auth, modal, saving, locating, sent, success, phoned, listing>>

PickDistrict ==
  /\ Edit([form EXCEPT !.district = listOf])
  /\ UNCHANGED <<listOf, asks, locating>>

(* handleChange: the address, and all that is not named above.             *)
Type ==
  /\ \E f \in BOOLEAN, l \in {"none", "typed"} : Edit([form EXCEPT !.filled = f, !.location = l])
  /\ UNCHANGED <<listOf, asks, locating>>

(* handleImage and removeImage: the zone is there when there is no         *)
(* picture, the cross when there is one.                                   *)
HandleImage ==
  /\ Edit([form EXCEPT !.image = ~@])
  /\ UNCHANGED <<listOf, asks, locating>>

(* handleGPS: the answer replaces whatever has been typed by then.         *)
HandleGPS ==
  /\ Usable /\ ~locating
  /\ locating' = TRUE
  /\ UNCHANGED <<form, listOf, asks, auth, modal, saving, sent, success, phoned, listing>>

Located ==
  /\ locating
  /\ locating' = FALSE
  /\ form' \in {form, [form EXCEPT !.location = "gps"]}
  /\ UNCHANGED <<listOf, asks, auth, modal, saving, sent, success, phoned, listing>>

------------------------------------------------------------------------------
(* handleSubmit: the checks, then the form as it is now.                   *)
Valid == form.filled /\ form.location # "none"

SubmitButton == Usable /\ sent.at = "none"

HandleSubmit ==
  /\ SubmitButton
  /\ success' = FALSE
  /\ sent' = IF Valid THEN [at |-> "sent", state |-> form.state, district |-> form.district,
                            fits |-> latest = {} /\ ~strayed]
             ELSE NotSent
  /\ UNCHANGED <<form, listOf, asks, auth, modal, saving, locating, phoned, listing>>

(* addProduct: the state is one of India's; the district is not looked at. *)
AddProduct ==
  /\ sent.at = "sent"
  /\ \/ listing' = sent /\ sent' = [sent EXCEPT !.at = "stored"]
     \/ UNCHANGED listing /\ sent' = [sent EXCEPT !.at = "failed"]
  /\ UNCHANGED <<form, listOf, asks, auth, modal, saving, locating, success, phoned>>

SubmitBack ==   \* or the answer is lost; the form stays as it is
  /\ sent.at \in {"stored", "failed"}
  /\ success' \in {FALSE, sent.at = "stored"}
  /\ sent' = NotSent
  /\ UNCHANGED <<form, listOf, asks, auth, modal, saving, locating, phoned, listing>>

Next ==
  \/ \E u \in {"nobody", "user", "phoned"} : Authenticated(u)
  \/ SavePhone \/ PhoneSaved \/ PhoneRefused
  \/ \E a \in Asks : \/ GetDistricts(a) \/ DistrictsBack(a) \/ DistrictsLost(a)
                     \/ \E s \in States : StateChange(a, s)
  \/ PickDistrict \/ Type \/ HandleImage \/ HandleGPS \/ Located
  \/ HandleSubmit \/ AddProduct \/ SubmitBack

Spec == Init /\ [][Next]_sellVars

------------------------------------------------------------------------------
(***************************************************************************)
(* What is listed is of a seller who was asked for a telephone and saved   *)
(* something (Sell.jsx:207 says "A verified phone number is required for    *)
(* all sellers."; it may be spaces, which leave none), in a district of its *)
(* state, unless it was sent while the districts of the last change were  *)
(* on their way, or after they were lost or overtaken by an older answer:  *)
(* the server does not compare the two (sellerController.js:153).          *)
(***************************************************************************)
ListedWhereItIs ==
  listing.at # "none" => phoned # "no" /\ (listing.fits => listing.district = listing.state)
==============================================================================
