----------------------------- MODULE ProductLife -----------------------------
(***************************************************************************)
(* One product and the shop it belongs to: what sellers, administrators    *)
(* and the expiry clean-up write to its row, each handler in statements    *)
(* that others run between (backend/controllers/sellerController.js,       *)
(* adminController.js, productController.js), and the lists customers are  *)
(* given, which are kept in memory for half a minute.                      *)
(* Prices are in PriceEdits, stock in OrderBook.                           *)
(***************************************************************************)
EXTENDS Integers

CONSTANTS
  Handlers,   \* requests that can be at work at once
  LastDay,    \* bound: the last day
  Keep        \* a form's field that is not there

LifeAssumption == LastDay \in Nat \ {0} /\ Keep \notin Nat

VARIABLES
  row,      \* the row of products: status and expiry_date
  shop,     \* approval_status of sellers (whose status goes with it; pending stands for
            \* rejected too) and the status of its user
  today,    \* CURDATE()
  job,      \* each handler: where it stands and what it is to write
  lock,     \* the sweep's transaction holds the row
  cache,    \* hotCache: whether there is a list, and whether it shows the product
  barred,   \* history: an administrator blocked the product while no other handler was
            \* about to write it, and none has lifted that
  spoilt    \* history: the list in the cache was read before a write and stored
            \* after it, or has outlived a write that clears no cache

vars == <<row, shop, today, job, lock, cache, barred, spoilt>>

Statuses == {"active", "inactive", "out_of_stock", "blocked", "deleted"}
Days     == 1..LastDay
Row      == [status : Statuses \cup {"none"}, expires : Days]
Optional(S) == S \cup {Keep}
Change   == [status : Optional(Statuses), expires : Optional(Days)]
NoChange == [status |-> Keep, expires |-> Keep]
Ops      == {"edit", "inventory", "delete", "resolve", "sweep", "list", "add"}
Job      == [pc : {"idle", "profile", "writing", "blocking", "clearing", "storing"},
             op : Ops, set : Change, admin : BOOLEAN, shows : BOOLEAN, overtaken : BOOLEAN]
Rest     == [pc |-> "idle", op |-> "list", set |-> NoChange, admin |-> FALSE,
             shows |-> FALSE, overtaken |-> FALSE]
Empty    == [filled |-> FALSE, shows |-> FALSE]

TypeOK ==
  /\ row \in Row
  /\ shop \in [approval : {"none", "pending", "approved"}, user : {"active", "blocked"}]
  /\ today \in Days
  /\ job \in [Handlers -> Job]
  /\ lock \in BOOLEAN
  /\ cache \in [filled : BOOLEAN, shows : BOOLEAN]
  /\ barred \in BOOLEAN /\ spoilt \in BOOLEAN

Init ==
  /\ row = [status |-> "none", expires |-> LastDay]
  /\ shop = [approval |-> "none", user |-> "active"]
  /\ today = 1
  /\ job = [h \in Handlers |-> Rest]
  /\ lock = FALSE
  /\ cache = Empty
  /\ barred = FALSE /\ spoilt = FALSE

(* PUBLIC_PRODUCT_CONDITION.                                               *)
Public(r, s) ==
  /\ r.status = "active"
  /\ s.approval = "approved" /\ s.user = "active"

Exists == row.status # "none"

(* requireApprovedSeller, without the profile it makes.                    *)
Approved == shop.user = "active" /\ shop.approval = "approved"

(* What an UPDATE leaves of a row: the fields it does not name stay.       *)
Written(set) ==
  [f \in DOMAIN row |-> IF set[f] = Keep THEN row[f] ELSE set[f]]

Become(h, j) == job' = [job EXCEPT ![h] = j]

(* A write that lists or unlists the product spoils the list in the cache  *)
(* until it is cleared, and those that handlers have read and not stored.  *)
Overtaken(h, r, s) ==
  IF Public(r, s) = Public(row, shop) THEN {}
  ELSE {g \in Handlers \ {h} : job[g].pc = "storing"}

Onwards(h, pc, late) ==
  job' = [g \in Handlers |-> IF g = h THEN [job[g] EXCEPT !.pc = pc]
                             ELSE IF g \in late THEN [job[g] EXCEPT !.overtaken = TRUE]
                             ELSE job[g]]

------------------------------------------------------------------------------
(* upsertSellerProfile: a first profile is pending, a later one keeps the  *)
(* decision.                                                               *)
UpsertProfile ==
  /\ shop.approval = "none"
  /\ shop' = [shop EXCEPT !.approval = "pending"]
  /\ UNCHANGED <<row, today, job, lock, cache, barred, spoilt>>

(* approveSeller and blockUser: one statement each, and no cache cleared.  *)
SetShop(s) ==
  /\ shop' = s
  /\ job' = [h \in Handlers |-> IF job[h].pc = "storing" /\ Public(row, s) # Public(row, shop)
                                THEN [job[h] EXCEPT !.overtaken = TRUE] ELSE job[h]]
  /\ spoilt' = (spoilt \/ Public(row, s) # Public(row, shop))
  /\ UNCHANGED <<row, today, lock, cache, barred>>

ApproveSeller(to) ==
  /\ shop.approval # "none"
  /\ SetShop([shop EXCEPT !.approval = to])

BlockUser(to) == SetShop([shop EXCEPT !.user = to])

------------------------------------------------------------------------------
(* addProduct: ensureSellerProfile makes an approved profile where there   *)
(* is none; then the INSERT.                                               *)
EnsureProfile(h) ==
  /\ job[h].pc = "idle" /\ ~Exists
  /\ shop.user = "active" /\ shop.approval = "none"
  /\ Become(h, [Rest EXCEPT !.pc = "profile", !.op = "add"])
  /\ UNCHANGED <<row, shop, today, lock, cache, barred, spoilt>>

(* The INSERT; the user's second of two fails, user_id being unique.       *)
InsertProfile(h) ==
  /\ job[h].pc = "profile"
  /\ shop' = IF shop.approval = "none"
               THEN [shop EXCEPT !.approval = "approved"] ELSE shop
  /\ Become(h, Rest)
  /\ UNCHANGED <<row, today, lock, cache, barred, spoilt>>

(* A product without stock is out_of_stock unless it is to be inactive.    *)
FirstStatus(status, empty) ==
  CASE status = "inactive"            -> "inactive"
    [] status # "inactive" /\ empty   -> "out_of_stock"
    [] OTHER                          -> "active"

AddProduct(h, status, empty, expires) ==
  /\ job[h].pc = "idle" /\ ~Exists
  /\ Approved
  /\ row' = [status |-> FirstStatus(status, empty), expires |-> expires]
  /\ LET late == Overtaken(h, row', shop)
     IN  /\ Onwards(h, "clearing", late)
         /\ spoilt' = (spoilt \/ late # {})
  /\ UNCHANGED <<shop, today, lock, cache, barred>>

------------------------------------------------------------------------------
(* The status an edit asks for and the one it writes.                      *)
MaySet(admin) ==
  IF admin THEN Statuses \ {"deleted"} ELSE {"active", "inactive"}

EditedStatus(status, empty) ==
  IF empty /\ status \in {Keep, "active"} THEN "out_of_stock" ELSE status

(* editProduct up to its UPDATE: the row is read, and what is to be        *)
(* written is made of the form and of what was read.                       *)
FindForEdit(h, admin, f) ==
  /\ job[h].pc = "idle" /\ Exists
  /\ admin \/ (Approved /\ row.status # "blocked")
  /\ f.status \in Optional(MaySet(admin))
  /\ Become(h, [Rest EXCEPT !.pc = "writing", !.op = "edit", !.admin = admin,
       !.set = [status |-> EditedStatus(f.status, f.empty), expires |-> f.expires]])
  /\ UNCHANGED <<row, shop, today, lock, cache, barred, spoilt>>

(* updateInventory up to its UPDATE: the status is the request's or goes   *)
(* by the stock.                                                           *)
FindForInventory(h, status) ==
  /\ job[h].pc = "idle" /\ Exists
  /\ Approved /\ row.status # "blocked"
  /\ Become(h, [Rest EXCEPT !.pc = "writing", !.op = "inventory",
                            !.set = [NoChange EXCEPT !.status = status]])
  /\ UNCHANGED <<row, shop, today, lock, cache, barred, spoilt>>

(* deleteProduct, of a seller or an administrator, up to its UPDATE.       *)
FindForDelete(h) ==
  /\ job[h].pc = "idle" /\ Exists
  /\ row.status # "deleted"
  /\ Become(h, [Rest EXCEPT !.pc = "writing", !.op = "delete",
                            !.set = [NoChange EXCEPT !.status = "deleted"]])
  /\ UNCHANGED <<row, shop, today, lock, cache, barred, spoilt>>

(* The history of blocks after handler h of an administrator wrote status. *)
Barred(h, status) ==
  CASE status = "blocked" -> barred \/ \A g \in Handlers \ {h} : job[g].pc # "writing"
    [] status = Keep      -> barred
    [] OTHER              -> FALSE

(* The UPDATE; it waits for the sweep's lock.                              *)
Update(h) ==
  LET j == job[h]
      r == Written(j.set)
      late == Overtaken(h, r, shop)
  IN
  /\ j.pc = "writing" /\ j.op # "sweep"
  /\ ~lock
  /\ row' = r
  /\ Onwards(h, "clearing", late)
  /\ spoilt' = (spoilt \/ late # {})
  /\ barred' = IF j.op = "edit" /\ j.admin THEN Barred(h, j.set.status) ELSE barred
  /\ UNCHANGED <<shop, today, lock, cache>>

(* Mutant: the handler ends without clearing.                              *)
KeepCache(h) ==
  /\ job[h].pc = "clearing"
  /\ Become(h, Rest)
  /\ UNCHANGED <<row, shop, today, lock, cache, barred, spoilt>>

(* clearHotCache, when the answer of the UPDATE has come.                  *)
Clear(h) ==
  /\ job[h].pc = "clearing"
  /\ cache' = Empty
  /\ spoilt' = FALSE
  /\ Become(h, Rest)
  /\ UNCHANGED <<row, shop, today, lock, barred>>

------------------------------------------------------------------------------
(* Statements of administrators that clear no cache: updateProductStatus,  *)
(* and the block that closes a dispute.                                    *)
SetStatus(h, status) ==
  /\ Exists /\ ~lock
  /\ row' = [row EXCEPT !.status = status]
  /\ barred' = Barred(h, status)
  /\ spoilt' = (spoilt \/ Public(row', shop) # Public(row, shop))

UpdateProductStatus(h, status) ==
  /\ job[h].pc = "idle"
  /\ SetStatus(h, status)
  /\ Onwards(h, "idle", Overtaken(h, row', shop))
  /\ UNCHANGED <<shop, today, lock, cache>>

(* resolveReport: the dispute is closed, its product read, then blocked.   *)
CloseDispute(h) ==
  /\ job[h].pc = "idle" /\ Exists
  /\ Become(h, [Rest EXCEPT !.pc = "blocking", !.op = "resolve"])
  /\ UNCHANGED <<row, shop, today, lock, cache, barred, spoilt>>

BlockDisputed(h) ==
  /\ job[h].pc = "blocking"
  /\ SetStatus(h, "blocked")
  /\ Onwards(h, "idle", Overtaken(h, row', shop))
  /\ UNCHANGED <<shop, today, lock, cache>>

------------------------------------------------------------------------------
(* The expiry handlers.  Past is CURDATE()'s test; deleteSingleExpired-    *)
(* Product compares with the instant, which midnight of the last day is    *)
(* before.                                                                 *)
Past(single) == IF single THEN row.expires <= today ELSE row.expires < today

(* Mutant: the SELECT takes no lock.                                       *)
SelectUnlocked(h, single) ==
  /\ job[h].pc = "idle" /\ ~lock
  /\ row.status \notin {"none", "deleted"} /\ Past(single)
  /\ Become(h, [Rest EXCEPT !.pc = "writing", !.op = "sweep",
                            !.set = [NoChange EXCEPT !.status = "deleted"]])
  /\ UNCHANGED <<row, shop, today, lock, cache, barred, spoilt>>

SelectExpired(h, single) ==
  /\ job[h].pc = "idle" /\ ~lock
  /\ row.status \notin {"none", "deleted"} /\ Past(single)
  /\ lock' = TRUE
  /\ Become(h, [Rest EXCEPT !.pc = "writing", !.op = "sweep",
                            !.set = [NoChange EXCEPT !.status = "deleted"]])
  /\ UNCHANGED <<row, shop, today, cache, barred, spoilt>>

(* The UPDATE and the commit.                                              *)
Sweep(h) ==
  /\ job[h].pc = "writing" /\ job[h].op = "sweep"
  /\ row' = [row EXCEPT !.status = "deleted"]
  /\ lock' = FALSE
  /\ LET late == Overtaken(h, row', shop)
     IN  /\ Onwards(h, "clearing", late)
         /\ spoilt' = (spoilt \/ late # {})
  /\ UNCHANGED <<shop, today, cache, barred>>

(* A statement fails: a transaction is rolled back, the handler answers    *)
(* with an error and clears nothing.                                       *)
Fail(h) ==
  /\ job[h].pc \in {"profile", "writing", "blocking", "storing"}
  /\ lock' = (lock /\ job[h].op # "sweep")
  /\ Become(h, Rest)
  /\ UNCHANGED <<row, shop, today, cache, barred, spoilt>>

------------------------------------------------------------------------------
(* getAllProducts and the other lists: from the cache, or read and stored. *)
ReadList(h) ==
  /\ job[h].pc = "idle"
  /\ ~cache.filled
  /\ Become(h, [Rest EXCEPT !.pc = "storing", !.shows = Public(row, shop)])
  /\ UNCHANGED <<row, shop, today, lock, cache, barred, spoilt>>

StoreList(h) ==
  /\ job[h].pc = "storing"
  /\ cache' = [filled |-> TRUE, shows |-> job[h].shows]
  /\ spoilt' = job[h].overtaken
  /\ Become(h, Rest)
  /\ UNCHANGED <<row, shop, today, lock, barred>>

(* getCached past CACHE_TTL_MS, or setCached of the hundredth other list.  *)
AgeOut ==
  /\ cache.filled
  /\ cache' = Empty
  /\ spoilt' = FALSE
  /\ UNCHANGED <<row, shop, today, job, lock, barred>>

Midnight ==
  /\ today < LastDay
  /\ today' = today + 1
  /\ UNCHANGED <<row, shop, job, lock, cache, barred, spoilt>>

(* A form changes status and stock, or the expiry date.                    *)
Forms ==
  LET Form == [status : Optional(Statuses), empty : BOOLEAN, expires : Optional(Days)]
  IN  {f \in Form : f.expires = Keep \/ (f.status = Keep /\ ~f.empty)}

Next ==
  \/ UpsertProfile
  \/ \E to \in {"approved", "pending"} : ApproveSeller(to)
  \/ \E to \in {"active", "blocked"} : BlockUser(to)
  \/ \E h \in Handlers :
       \/ EnsureProfile(h) \/ InsertProfile(h)
       \/ \E status \in {"active", "inactive"}, empty \in BOOLEAN, expires \in Days :
            AddProduct(h, status, empty, expires)
       \/ \E admin \in BOOLEAN, f \in Forms : FindForEdit(h, admin, f)
       \/ \E status \in {"active", "inactive", "out_of_stock"} : FindForInventory(h, status)
       \/ FindForDelete(h) \/ Update(h) \/ Clear(h)
       \/ \E status \in Statuses \ {"deleted"} : UpdateProductStatus(h, status)
       \/ CloseDispute(h) \/ BlockDisputed(h)
       \/ \E single \in BOOLEAN : SelectExpired(h, single)
       \/ Sweep(h) \/ Fail(h) \/ ReadList(h) \/ StoreList(h)
  \/ AgeOut \/ Midnight

Spec == Init /\ [][Next]_vars

------------------------------------------------------------------------------
(* An expiry clean-up takes no product whose last day is still to come,    *)
(* though sellers may extend it while the clean-up is at work              *)
(* (deleteAllExpiredProducts, deleteSelectedExpiredProducts and            *)
(* deleteSingleExpiredProduct, "Cannot delete active or non-expired").     *)
OnlyPastIsSwept ==
  [][\A h \in Handlers :
       job[h].op = "sweep" /\ job[h].pc = "writing" /\ job'[h].pc = "clearing"
         => row.expires <= today]_vars

(* A list in the cache shows the product as it stands, unless it was read  *)
(* before a write and stored after it, or the write was one that clears no *)
(* cache (updateProductStatus, resolveReport, approveSeller, blockUser),   *)
(* or a handler is between its write and clearHotCache.                    *)
CacheKeepsUp ==
  cache.filled /\ ~spoilt /\ (\A h \in Handlers : job[h].pc # "clearing")
    => cache.shows = Public(row, shop)

(* "Sellers CANNOT modify or unblock a product the admin blocked"          *)
(* (sellerController.js): what an administrator blocked, no other handler  *)
(* being about to write it, is not listed until an administrator lists it. *)
BlockedStaysBlocked == barred => row.status # "active"
==============================================================================
