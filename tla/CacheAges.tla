------------------------------ MODULE CacheAges ------------------------------
(***************************************************************************)
(* How old a list of products is when a page shows it: it was read from    *)
(* the database, kept by the server (backend/controllers/                  *)
(* productController.js, hotCache) and kept again by the client            *)
(* (bylot/src/api/backendApi.js, apiCache), each for so long after it was  *)
(* stored there.  One list, under one key of each cache.                   *)
(* Ages are counted in ticks; beyond Limit they are not told apart.        *)
(***************************************************************************)
EXTENDS Naturals

CONSTANTS
  HotLife,  \* CACHE_TTL_MS of the server
  ApiLife,  \* CACHE_TTL_MS of the client
  Flight,   \* bound: how long a statement's answer, or a response, is on its way
  Loads     \* requests for the list that can be under way at once

AgesAssumption == HotLife \in Nat /\ ApiLife \in Nat /\ Flight \in Nat

VARIABLES
  hot,    \* the server's entry: the age of its list, how long it is kept
  api,    \* the client's
  load,   \* the requests, how old what they carry is, and since when they wait
  shown   \* the age of the list last shown, when it was

agesVars == <<hot, api, load, shown>>

Limit == HotLife + ApiLife + 2 * Flight
Older(a) == IF a > Limit THEN a ELSE a + 1

Ages   == 0..Limit + 1
Entry  == [age : Ages, kept : Ages]
NoList == [age |-> 0, kept |-> Limit + 1]   \* nothing, or an entry that has lapsed
NoLoad == [at |-> "none", age |-> 0, waits |-> 0]

AgesTypeOK ==
  /\ hot \in Entry /\ api \in Entry
  /\ load \in [Loads -> [at : {"none", "sent", "read", "answered"}, age : Ages, waits : Ages]]
  /\ shown \in Ages

AgesInit ==
  /\ hot = NoList /\ api = NoList
  /\ load = [l \in Loads |-> NoLoad]
  /\ shown = 0

------------------------------------------------------------------------------
(* getCached: an entry is good to the last instant of its life.            *)
GoodForever(entry, life) == entry.kept <= Limit   \* mutant: entries do not lapse
Good(entry, life)        == entry.kept <= life

Stored(age) == [age |-> age, kept |-> 0]

(* fetchProducts: from the client's cache, or by a request.                *)
ShowKept ==
  /\ Good(api, ApiLife)
  /\ shown' = api.age
  /\ UNCHANGED <<hot, api, load>>

Send(l) ==
  /\ ~Good(api, ApiLife)
  /\ load[l].at = "none"
  /\ load' = [load EXCEPT ![l] = [at |-> "sent", age |-> 0, waits |-> 0]]
  /\ UNCHANGED <<hot, api, shown>>

(* getAllProducts: from the server's cache, or the database is asked; what *)
(* it answers is stored when it comes.                                     *)
AnswerKept(l) ==
  /\ load[l].at = "sent" /\ Good(hot, HotLife)
  /\ load' = [load EXCEPT ![l] = [at |-> "answered", age |-> hot.age, waits |-> 0]]
  /\ UNCHANGED <<hot, api, shown>>

ListProducts(l) ==
  /\ load[l].at = "sent" /\ ~Good(hot, HotLife)
  /\ load' = [load EXCEPT ![l] = [at |-> "read", age |-> 0, waits |-> 0]]
  /\ UNCHANGED <<hot, api, shown>>

StoreList(l) ==
  /\ load[l].at = "read"
  /\ hot' = Stored(load[l].age)
  /\ load' = [load EXCEPT ![l] = [at |-> "answered", age |-> load[l].age, waits |-> 0]]
  /\ UNCHANGED <<api, shown>>

(* The response: stored by the client, and shown.                          *)
Show(l) ==
  /\ load[l].at = "answered"
  /\ api' = Stored(load[l].age)
  /\ shown' = load[l].age
  /\ load' = [load EXCEPT ![l] = NoLoad]
  /\ UNCHANGED hot

Lost(l) ==
  /\ load[l].at # "none"
  /\ load' = [load EXCEPT ![l] = NoLoad]
  /\ UNCHANGED <<hot, api, shown>>

(* A write or a restart clears the server's cache; a deletion or another   *)
(* entry takes the client's.                                               *)
HotGone == hot' = NoList /\ UNCHANGED <<api, load, shown>>
ApiGone == api' = NoList /\ UNCHANGED <<hot, load, shown>>

------------------------------------------------------------------------------
(* Time passes; nothing is on its way for longer than Flight.              *)
Aged(entry) == [age |-> Older(entry.age), kept |-> Older(entry.kept)]

Tick ==
  /\ \A l \in Loads : load[l].at \in {"read", "answered"} => load[l].waits < Flight
  /\ hot' = Aged(hot) /\ api' = Aged(api)
  /\ load' = [l \in Loads |-> IF load[l].at \in {"read", "answered"}
                THEN [load[l] EXCEPT !.age = Older(@), !.waits = @ + 1] ELSE load[l]]
  /\ UNCHANGED shown

AgesNext ==
  \/ ShowKept \/ HotGone \/ ApiGone \/ Tick
  \/ \E l \in Loads : Send(l) \/ AnswerKept(l) \/ ListProducts(l) \/ StoreList(l) \/ Show(l) \/ Lost(l)

AgesSpec == AgesInit /\ [][AgesNext]_agesVars

------------------------------------------------------------------------------
(***************************************************************************)
(* The two caches do not add up to more than their lives: what a page      *)
(* shows was in the database at most HotLife + ApiLife ago, and the time   *)
(* it was on its way, whoever stored it and whichever request overtook     *)
(* which.  No handler clears the other's cache (productController.js:31,   *)
(* "30s TTL per Phase 4"; backendApi.js:430, "45s TTL for snappy           *)
(* navigation"), so this is all that bounds it.                            *)
(***************************************************************************)
NothingOlder == shown <= Limit
=============================================================================
