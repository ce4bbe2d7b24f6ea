----------------------------- MODULE Storefront -----------------------------
(***************************************************************************)
(* One product as its owner or an administrator sees it while they delete  *)
(* it: the pages that list it (bylot/src/pages), the client's cache of     *)
(* answers (bylot/src/api/backendApi.js), the server's cache of lists      *)
(* (backend/controllers/productController.js).  A deletion clears the      *)
(* first when it is sent, unless it is sent from the admin panel, and the  *)
(* second when its UPDATE is done; loads of pages the visitor has left,    *)
(* and requests of other visitors, may store what they read before.        *)
(* A cache is the set of keys under which it keeps an answer that shows    *)
(* the product; of other keys it keeps an answer without it, or nothing.   *)
(***************************************************************************)
EXTENDS Naturals, FiniteSets

CONSTANTS
  Loads,  \* bound: requests of the visitor that can be under way at once
  Stops   \* bound: how many of the pages the visitor goes between

VARIABLES
  route,    \* the pages the visitor goes between
  role,     \* the visitor is the product's seller or an administrator
  product,  \* its row: on sale or deleted
  hotCache, \* server
  held,     \* server: lists with the product that requests of others have read and not stored
  apiCache, \* client
  page,     \* the page the visitor is on
  shown,    \* whether it shows the product
  load,     \* the visitor's requests
  removal,  \* the deletion under way, and whether its page is still there
  gone,     \* history: the visitor's deletion was answered, and nobody has relisted it
  left,     \* history: the answers the client's cache still held when the deletion was sent
  crossed   \* history: a load of the visitor was under way while the deletion was, or
            \* somebody else's list was held while the server cleared its cache, or the
            \* product was listed again before the answer

storeVars == <<route, role, product, hotCache, held, apiCache, page, shown, load, removal, gone, left, crossed>>
server    == <<product, hotCache, held>>

(***************************************************************************)
(* The pages: what they ask for, whose deletion drops the card from what   *)
(* they show, what they show after a load that failed.  Home asks for what *)
(* is near once it has the visitor's coordinates, and stays the same page. *)
(***************************************************************************)
Home           == [asks |-> "all", drops |-> {"admin"}, fails |-> "error"]
HomeNearby     == [Home EXCEPT !.asks = "near"]
Category       == [asks |-> "all", drops |-> {}, fails |-> "no"]
Location       == [asks |-> "all", drops |-> {}, fails |-> "no"]
Profile        == [asks |-> "own", drops |-> {"seller"}, fails |-> "same"]
ProductDetails == [asks |-> "item", drops |-> {}, fails |-> "no"]
AdminPanel     == [asks |-> "rows", drops |-> {}, fails |-> "no"]

View == [home |-> Home, nearby |-> HomeNearby, category |-> Category,
         location |-> Location, profile |-> Profile, item |-> ProductDetails,
         panel |-> AdminPanel]
Pages     == DOMAIN View
HomePages == {"home", "nearby"}
HotKeys   == {"all", "around", "seller"}     \* lists the server caches
ApiKeys   == HotKeys \cup {"near", "item"}   \* answers the client caches
Reads     == UNION {CASE View[p].asks = "near" -> {"near", "around"}
                      [] View[p].asks = "own" -> {"seller"}
                      [] OTHER -> {View[p].asks} : p \in route}
NoLoad    == [at |-> "none", key |-> "all", shows |-> FALSE, live |-> FALSE]
NoRemoval == [at |-> "none", from |-> "home", live |-> FALSE]

TypeOK ==
  /\ route \in SUBSET Pages /\ page \in route
  /\ role \in {"seller", "admin"} /\ product \in {"active", "deleted"}
  /\ hotCache \in SUBSET HotKeys /\ held \in SUBSET HotKeys /\ apiCache \in SUBSET ApiKeys
  /\ shown \in {"yes", "no", "error"}
  /\ load \in [Loads -> [at : {"none", "sent", "read", "answered"}, key : ApiKeys \cup {"own"},
                         shows : BOOLEAN, live : BOOLEAN]]
  /\ removal \in [at : {"none", "sent", "found", "updated", "cleared", "failed"},
                  from : Pages, live : BOOLEAN]
  /\ gone \in BOOLEAN /\ left \in SUBSET ApiKeys /\ crossed \in BOOLEAN

Init ==
  /\ route \in {R \in SUBSET Pages : Cardinality(R) = Stops /\ R \cap HomePages # {}}
  /\ role \in {"seller", "admin"}
  /\ "panel" \in route => role = "admin"
  /\ product = "active"
  /\ hotCache = {} /\ held = {} /\ apiCache = {}
  /\ page \in route \cap HomePages /\ shown = "no"
  /\ load = [l \in Loads |-> NoLoad]
  /\ removal = NoRemoval
  /\ gone = FALSE /\ left = {} /\ crossed = FALSE

------------------------------------------------------------------------------
(* Asking for k: from the client's cache, or by a request.  What comes is  *)
(* shown if the page that asked is still there.                            *)
Show(live, s) == shown' = IF live THEN s ELSE shown

Kept(k, loads, live) ==
  /\ k \in ApiKeys
  /\ \/ k \in apiCache /\ Show(live, "yes")
     \/ k \notin apiCache \cup {"item"} /\ Show(live, "no")
  /\ load' = loads
  /\ UNCHANGED crossed

Ask(k, loads, live) ==
  /\ k \notin apiCache
  /\ \E l \in Loads :
       /\ loads[l].at = "none"
       /\ load' = [loads EXCEPT ![l] = [at |-> "sent", key |-> k, shows |-> FALSE, live |-> live]]
  /\ Show(live, "no")
  /\ crossed' = (crossed \/ removal'.at # "none")

Fetch(k, loads, live) == Kept(k, loads, live) \/ Ask(k, loads, live)

Away == [l \in Loads |-> [load[l] EXCEPT !.live = FALSE]]
Left(p) == IF {page, p} \subseteq HomePages THEN load ELSE Away
Without(l) == [load EXCEPT ![l] = NoLoad]

Visit(p) ==
  /\ p \in route \ {page, "panel"}
  /\ page' = p
  /\ removal' = [removal EXCEPT !.live = @ /\ {page, p} \subseteq HomePages]
  /\ Fetch(View[p].asks, Left(p), TRUE)
  /\ UNCHANGED <<route, role, server, apiCache, gone, left>>

(* Its lists are its own requests (adminRequest), which no cache keeps.    *)
VisitPanel ==
  /\ "panel" \in route \ {page}
  /\ page' = "panel"
  /\ removal' = [removal EXCEPT !.live = FALSE]
  /\ load' = Away
  /\ shown' = "no"
  /\ UNCHANGED <<route, role, server, apiCache, gone, left, crossed>>

Retry ==
  /\ page \in HomePages /\ shown = "error"
  /\ UNCHANGED removal
  /\ Fetch(View[page].asks, load, TRUE)
  /\ UNCHANGED <<route, role, server, apiCache, page, gone, left>>

------------------------------------------------------------------------------
(* The server.  A list is answered from its cache, or read, then stored.   *)
Public == product = "active"

Answer(l, shows) == load' = [load EXCEPT ![l].at = "answered", ![l].shows = shows]

GetAllProducts(l) ==
  /\ load[l].at = "sent" /\ load[l].key \in HotKeys
  /\ Answer(l, load[l].key \in hotCache)
  /\ UNCHANGED <<route, role, server, apiCache, page, shown, removal, gone, left, crossed>>

ListProducts(l) ==
  /\ load[l].at = "sent" /\ load[l].key \in HotKeys \ hotCache
  /\ load' = [load EXCEPT ![l].at = "read", ![l].shows = Public]
  /\ UNCHANGED <<route, role, server, apiCache, page, shown, removal, gone, left, crossed>>

Keeping(cache, k, shows) == IF shows THEN cache \cup {k} ELSE cache \ {k}

StoreList(l) ==
  /\ load[l].at = "read"
  /\ hotCache' = Keeping(hotCache, load[l].key, load[l].shows)
  /\ Answer(l, load[l].shows)
  /\ UNCHANGED <<route, role, product, held, apiCache, page, shown, removal, gone, left, crossed>>

(* Not cached by the server: what is near, one product, the seller's own.  *)
Unstored(l, k) ==
  /\ load[l].at = "sent" /\ load[l].key = k
  /\ Answer(l, Public)
  /\ UNCHANGED <<route, role, server, apiCache, page, shown, removal, gone, left, crossed>>

NearbyProducts(l)     == Unstored(l, "near")
GetProductById(l)     == Unstored(l, "item")
ListSellerProducts(l) == Unstored(l, "own")

OtherReads(k) ==
  /\ Public /\ k \notin hotCache
  /\ held' = held \cup {k}
  /\ UNCHANGED <<route, role, product, hotCache, apiCache, page, shown, load, removal, gone, left, crossed>>

OtherStores(k) ==
  /\ k \in held
  /\ hotCache' = hotCache \cup {k} /\ held' = held \ {k}
  /\ UNCHANGED <<route, role, product, apiCache, page, shown, load, removal, gone, left, crossed>>

(* An entry lapses, gives way to another, is cleared by another handler or *)
(* overwritten by a list without the product.                              *)
HotGone(k) ==
  /\ k \in hotCache
  /\ hotCache' = hotCache \ {k}
  /\ UNCHANGED <<route, role, product, held, apiCache, page, shown, load, removal, gone, left, crossed>>

ApiGone(k) ==
  /\ k \in apiCache
  /\ apiCache' = apiCache \ {k}
  /\ UNCHANGED <<route, role, server, page, shown, load, removal, gone, left, crossed>>

------------------------------------------------------------------------------
(* The answer comes, whether or not the page is still there.               *)
Yes(b) == IF b THEN "yes" ELSE "no"

FetchProducts(l) ==
  /\ load[l].at = "answered" /\ load[l].key \in HotKeys
  /\ apiCache' = Keeping(apiCache, load[l].key, load[l].shows)
  /\ Show(load[l].live, Yes(load[l].shows))
  /\ load' = Without(l)
  /\ UNCHANGED <<route, role, server, page, removal, gone, left, crossed>>

(* Nothing near: the whole catalogue is asked for, under a key of its own. *)
FetchNearbyProducts(l) ==
  /\ load[l].at = "answered" /\ load[l].key = "near"
  /\ UNCHANGED <<route, role, server, page, removal, gone, left>>
  /\ \/ /\ apiCache' = Keeping(apiCache, "near", load[l].shows)
        /\ Show(load[l].live, Yes(load[l].shows))
        /\ load' = Without(l)
        /\ UNCHANGED crossed
     \/ /\ ~load[l].shows
        /\ Fetch("around", Without(l), load[l].live)
        /\ UNCHANGED apiCache

FetchProductById(l) ==
  /\ load[l].at = "answered" /\ load[l].key = "item"
  /\ apiCache' = IF load[l].shows THEN apiCache \cup {"item"} ELSE apiCache
  /\ Show(load[l].live, Yes(load[l].shows))
  /\ load' = Without(l)
  /\ UNCHANGED <<route, role, server, page, removal, gone, left, crossed>>

FetchMyItems(l) ==
  /\ load[l].at = "answered" /\ load[l].key = "own"
  /\ Show(load[l].live, Yes(load[l].shows))
  /\ load' = Without(l)
  /\ UNCHANGED <<route, role, server, apiCache, page, removal, gone, left, crossed>>

(* No answer.  The profile then asks for the public list of its seller, if *)
(* it can find out who that is.                                            *)
Lost(l) ==
  /\ load[l].at \in {"sent", "answered"}
  /\ UNCHANGED <<route, role, server, apiCache, page, removal, gone, left>>
  /\ \/ /\ LET f == View[page].fails
           IN  Show(load[l].live /\ f # "same", f)
        /\ load' = Without(l)
        /\ UNCHANGED crossed
     \/ /\ load[l].key = "own" /\ role = "seller"
        /\ Fetch("seller", Without(l), load[l].live)

------------------------------------------------------------------------------
(* The delete button, on the card or on the product's page, and the dialog *)
(* it opens: adminDeleteProduct or deleteProduct.  One deletion at a time. *)
MayDelete ==
  /\ shown = "yes"
  /\ role = "admin" => page \in HomePages \cup {"item"}

SendDeletion(kept) ==
  /\ removal.at = "none"
  /\ removal' = [at |-> "sent", from |-> page, live |-> TRUE]
  /\ gone' = FALSE
  /\ left' = kept
  /\ crossed' = \E l \in Loads : load[l].at # "none"
  /\ UNCHANGED <<route, role, server, page, shown, load>>

KeepApiCache ==   \* mutant: clearApiCache is not called
  /\ MayDelete
  /\ SendDeletion({})
  /\ UNCHANGED apiCache

HandleDelete ==
  /\ MayDelete
  /\ SendDeletion({})
  /\ apiCache' = {}

(* The panel's rows and its search by id: adminRequest clears nothing.     *)
DeleteFromPanel ==
  /\ page = "panel"
  /\ SendDeletion(apiCache)
  /\ UNCHANGED apiCache

FindProduct ==
  /\ removal.at = "sent"
  /\ removal' = [removal EXCEPT !.at = IF product = "deleted" THEN "failed" ELSE "found"]
  /\ UNCHANGED <<route, role, server, apiCache, page, shown, load, gone, left, crossed>>

DeleteProduct ==
  /\ removal.at = "found"
  /\ product' = "deleted"
  /\ removal' = [removal EXCEPT !.at = "updated"]
  /\ UNCHANGED <<route, role, hotCache, held, apiCache, page, shown, load, gone, left, crossed>>

ClearHotCache ==
  /\ removal.at = "updated"
  /\ hotCache' = {}
  /\ crossed' = (crossed \/ held # {})
  /\ removal' = [removal EXCEPT !.at = "cleared"]
  /\ UNCHANGED <<route, role, product, held, apiCache, page, shown, load, gone, left>>

(* The answer: some pages drop the card; that of the product goes home,    *)
(* which is opened anew unless the visitor is there (not at /browse).      *)
DeleteBack ==
  /\ removal.at = "cleared"
  /\ removal' = NoRemoval
  /\ gone' = (product = "deleted")
  /\ \/ /\ removal.from = "item"
        /\ \E p \in HomePages \cap route :
             /\ page' = p
             /\ Fetch(View[p].asks, Away, TRUE)
     \/ /\ removal.from = "item" => page \in HomePages
        /\ shown' = IF removal.live /\ role \in View[removal.from].drops /\ shown = "yes"
                       THEN "no" ELSE shown
        /\ UNCHANGED <<page, load, crossed>>
  /\ UNCHANGED <<route, role, server, apiCache, left>>

DeleteFails ==
  /\ removal.at \in {"sent", "failed", "cleared"}
  /\ removal' = NoRemoval
  /\ UNCHANGED <<route, role, server, apiCache, page, shown, load, gone, left, crossed>>

(* Somebody else deletes it; its seller lists it again.                    *)
Elsewhere(s) ==
  /\ product' = s
  /\ gone' = (gone /\ s = "deleted")
  /\ crossed' = (crossed \/ (s = "active" /\ removal.at \notin {"none", "sent", "found"}))
  /\ UNCHANGED <<route, role, hotCache, held, apiCache, page, shown, load, removal, left>>

Next ==
  \/ \E p \in Pages : Visit(p)
  \/ Retry
  \/ \E l \in Loads : \/ GetAllProducts(l) \/ ListProducts(l) \/ StoreList(l)
                      \/ NearbyProducts(l) \/ GetProductById(l) \/ ListSellerProducts(l)
                      \/ FetchProducts(l) \/ FetchNearbyProducts(l) \/ FetchProductById(l)
                      \/ FetchMyItems(l) \/ Lost(l)
  \/ \E k \in HotKeys \cap Reads : OtherReads(k) \/ OtherStores(k) \/ HotGone(k)
  \/ \E k \in ApiKeys : ApiGone(k)
  \/ VisitPanel
  \/ HandleDelete \/ DeleteFromPanel \/ FindProduct \/ DeleteProduct \/ ClearHotCache
  \/ DeleteBack \/ DeleteFails
  \/ \E s \in {"active", "deleted"} : Elsewhere(s)

Spec == Init /\ [][Next]_storeVars

------------------------------------------------------------------------------
(***************************************************************************)
(* What the visitor has deleted does not come back: once the deletion is   *)
(* answered neither cache shows the product and no load will, whatever     *)
(* lapsed, failed or was answered from a cache before (backendApi.js:547,  *)
(* adminController.js:225, sellerController.js:459).  The loads it crossed *)
(* are excepted: these may store what they read before, for 30 seconds     *)
(* there and 45 here.  So are deletions from the admin panel: they leave   *)
(* the client's cache what it held when they were sent (left), and no      *)
(* more, until its 45 seconds are over.                                    *)
(***************************************************************************)
DeletedIsGone ==
  gone /\ ~crossed =>
    /\ apiCache \subseteq left /\ hotCache = {}
    /\ \A l \in Loads : ~load[l].shows
=============================================================================
