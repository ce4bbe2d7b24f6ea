------------------------------- MODULE OrderTxn -------------------------------
(***************************************************************************)
(* The order handlers of backend/controllers/orderController.js as MySQL   *)
(* transactions.  A handler takes InnoDB row locks one at a time, writes   *)
(* rows in place while it holds their locks, and ends by COMMIT or by the  *)
(* ROLLBACK of its catch block; between any two of its statements the      *)
(* other handlers run.  An autocommit UPDATE (editProduct, approveSeller,  *)
(* blockUser, ...) is one step that waits for the row's lock.              *)
(***************************************************************************)
EXTENDS OrderRules, FiniteSets

CONSTANTS
  Txns,   \* database connections a handler can hold
  NoTxn   \* "nobody holds this row"

ASSUME NoTxnAssumption == NoTxn \notin Txns

VARIABLES
  product, order, shop,   \* the three tables, uncommitted writes included
  plock, olock, slock,    \* exclusive row locks
  pc,                     \* where each transaction's handler stands
  job,                    \* the request it serves and the order row it read
  undo,                   \* rows of products as they were before its UPDATE
  done,                   \* products it has updated
  supply, reopened        \* history, as in OrderBook

tables   == <<product, order, shop>>
locks    == <<plock, olock, slock>>
handlers == <<pc, job, undo, done>>
history  == <<supply, reopened>>
vars     == <<tables, locks, handlers, history>>

(***************************************************************************)
(* A request.  "create" carries a seller and a cart; "cancel" and "update" *)
(* carry an order, the status to give it and whether the user is an        *)
(* administrator.  ord is the order row the transaction holds, before the  *)
(* row as it was when the lock was granted (order / current in the code).  *)
(***************************************************************************)
CONSTANT NoId   \* no seller or no order

ASSUME NoIdAssumption == NoId \notin Orders /\ NoId \notin Sellers

NoJob  == [kind |-> "none", seller |-> NoId, cart |-> NoLines, ord |-> NoId,
           to |-> "pending", admin |-> FALSE, before |-> NoOrder]
Kinds  == {"none", "create", "cancel", "update"}
Job    == [kind : Kinds, seller : Sellers \cup {NoId}, cart : Carts \cup {NoLines},
           ord : Orders \cup {NoId}, to : OrderStatus, admin : BOOLEAN,
           before : OrderRow]
Steps  == {"idle", "locking", "deducting", "finding", "restoring", "committing"}

BlankRow  == [stock |-> 0, status |-> "unlisted"]
NoUndo    == [p \in Products |-> BlankRow]

TypeOK ==
  /\ product \in [Products -> ProductRow]
  /\ order \in [Orders -> OrderRow]
  /\ shop \in [Sellers -> BOOLEAN]
  /\ plock \in [Products -> Txns \cup {NoTxn}]
  /\ olock \in [Orders -> Txns \cup {NoTxn}]
  /\ slock \in [Sellers -> Txns \cup {NoTxn}]
  /\ pc \in [Txns -> Steps]
  /\ job \in [Txns -> Job]
  /\ undo \in [Txns -> [Products -> ProductRow]]
  /\ done \in [Txns -> SUBSET Products]
  /\ supply \in [Products -> Int]
  /\ reopened \subseteq Orders

Init ==
  /\ product \in [Products -> {[stock |-> v, status |-> "active"] : v \in StockLevels}]
  /\ order = [o \in Orders |-> NoOrder]
  /\ shop = [s \in Sellers |-> TRUE]
  /\ plock = [p \in Products |-> NoTxn]
  /\ olock = [o \in Orders |-> NoTxn]
  /\ slock = [s \in Sellers |-> NoTxn]
  /\ pc = [t \in Txns |-> "idle"]
  /\ job = [t \in Txns |-> NoJob]
  /\ undo = [t \in Txns |-> NoUndo]
  /\ done = [t \in Txns |-> {}]
  /\ supply = [p \in Products |-> product[p].stock]
  /\ reopened = {}

------------------------------------------------------------------------------
(* Ending a transaction: its locks go and its handler forgets everything.  *)

Free(lock, t)  == [r \in DOMAIN lock |-> IF lock[r] = t THEN NoTxn ELSE lock[r]]

Finish(t) ==
  /\ plock' = Free(plock, t)
  /\ olock' = Free(olock, t)
  /\ slock' = Free(slock, t)
  /\ pc' = [pc EXCEPT ![t] = "idle"]
  /\ job' = [job EXCEPT ![t] = NoJob]
  /\ undo' = [undo EXCEPT ![t] = NoUndo]
  /\ done' = [done EXCEPT ![t] = {}]

(* Mutant: the transaction ends without undoing its UPDATEs of products.   *)
HalfRollback(t) ==
  /\ order' = [o \in Orders |-> IF olock[o] = t THEN job[t].before ELSE order[o]]
  /\ Finish(t)
  /\ UNCHANGED <<product, shop, supply, reopened>>

(* The undo log puts back every row the transaction wrote.                 *)
Rollback(t) ==
  /\ product' = [p \in Products |-> IF p \in done[t] THEN undo[t][p] ELSE product[p]]
  /\ order' = [o \in Orders |-> IF olock[o] = t THEN job[t].before ELSE order[o]]
  /\ Finish(t)
  /\ UNCHANGED <<shop, supply, reopened>>

------------------------------------------------------------------------------
(* createOrder *)

(* Bound: a create starts only while an unused order id is left for it.    *)
IdsLeft ==
  Cardinality({t \in Txns : pc[t] = "locking"}) <
    Cardinality({o \in Orders : order[o] = NoOrder})

BeginCreate(t, s, c) ==
  /\ pc[t] = "idle"
  /\ IdsLeft
  /\ pc' = [pc EXCEPT ![t] = "locking"]
  /\ job' = [job EXCEPT ![t] = [NoJob EXCEPT !.kind = "create", !.seller = s, !.cart = c]]
  /\ UNCHANGED <<tables, locks, undo, done, history>>

(* SELECT ... FOR UPDATE locks each joined row as the plan reaches it.     *)
LockProduct(t, p) ==
  /\ pc[t] = "locking"
  /\ p \in Lines(job[t].cart)
  /\ plock[p] = NoTxn
  /\ plock' = [plock EXCEPT ![p] = t]
  /\ UNCHANGED <<tables, olock, slock, handlers, history>>

LockSeller(t, s) ==
  /\ pc[t] = "locking"
  /\ s = job[t].seller
  /\ slock[s] = NoTxn
  /\ slock' = [slock EXCEPT ![s] = t]
  /\ UNCHANGED <<tables, plock, olock, handlers, history>>

PlainSelect(t) == TRUE   \* mutant: the SELECT without FOR UPDATE

AllLocked(t) ==
  /\ \A p \in Lines(job[t].cart) : plock[p] = t
  /\ slock[job[t].seller] = t

(* The rows the locking SELECT returns, then the stock check on each.      *)
Available(s, c) ==
  /\ shop[s]
  /\ \A p \in Lines(c) : SellerOf[p] = s /\ Sellable(product[p], c[p])

InsertOrder(t, o) ==
  /\ pc[t] = "locking"
  /\ AllLocked(t)
  /\ Available(job[t].seller, job[t].cart)
  /\ order[o] = NoOrder
  /\ olock[o] = NoTxn
  /\ order' = [order EXCEPT ![o] = [status |-> "pending", cart |-> job[t].cart]]
  /\ olock' = [olock EXCEPT ![o] = t]
  /\ pc' = [pc EXCEPT ![t] = "deducting"]
  /\ job' = [job EXCEPT ![t].ord = o]
  /\ UNCHANGED <<product, shop, plock, slock, undo, done, history>>

(* Mutant: an early return that forgets the ROLLBACK.                      *)
RefuseAndLeak(t) ==
  /\ pc[t] = "locking"
  /\ AllLocked(t)
  /\ ~Available(job[t].seller, job[t].cart)
  /\ pc' = [pc EXCEPT ![t] = "idle"]
  /\ job' = [job EXCEPT ![t] = NoJob]
  /\ UNCHANGED <<tables, locks, undo, done, history>>

RefuseCreate(t) ==
  /\ pc[t] = "locking"
  /\ AllLocked(t)
  /\ ~Available(job[t].seller, job[t].cart)
  /\ Rollback(t)

(* One UPDATE products of the transaction: the old row goes to its undo.   *)
Write(t, p, row) ==
  /\ product' = [product EXCEPT ![p] = row]
  /\ undo' = [undo EXCEPT ![t][p] = product[p]]
  /\ done' = [done EXCEPT ![t] = @ \cup {p}]

Deduct(t, p) ==
  /\ pc[t] = "deducting"
  /\ p \in Lines(job[t].cart) \ done[t]
  /\ Write(t, p, Deducted(product[p], job[t].cart[p]))
  /\ UNCHANGED <<order, shop, locks, pc, job, history>>

CommitCreate(t) ==
  /\ pc[t] = "deducting"
  /\ done[t] = Lines(job[t].cart)
  /\ Finish(t)
  /\ UNCHANGED <<tables, history>>

------------------------------------------------------------------------------
(* cancelOrder and updateSellerOrderStatus *)

BeginCancel(t, o) ==
  /\ pc[t] = "idle"
  /\ pc' = [pc EXCEPT ![t] = "finding"]
  /\ job' = [job EXCEPT ![t] = [NoJob EXCEPT !.kind = "cancel", !.ord = o,
                                             !.to = "cancelled"]]
  /\ UNCHANGED <<tables, locks, undo, done, history>>

BeginUpdate(t, o, to, admin) ==
  /\ pc[t] = "idle"
  /\ pc' = [pc EXCEPT ![t] = "finding"]
  /\ job' = [job EXCEPT ![t] = [NoJob EXCEPT !.kind = "update", !.ord = o,
                                             !.to = to, !.admin = admin]]
  /\ UNCHANGED <<tables, locks, undo, done, history>>

(* The status test each handler makes on the order row it has locked.      *)
Accepts(t, row) ==
  /\ row # NoOrder
  /\ row.status = "cancelled" => job[t].ord \notin reopened   \* bound
  /\ \/ job[t].kind = "cancel" /\ row.status \in CustomerCancellable
     \/ job[t].kind = "update" /\ MayMove(row.status, job[t].to, job[t].admin)

(* Mutant: the order is read without waiting for its lock.                 *)
PeekOrder(t, o) ==
  /\ pc[t] = "finding"
  /\ o = job[t].ord
  /\ Accepts(t, order[o])
  /\ olock' = [olock EXCEPT ![o] = t]
  /\ job' = [job EXCEPT ![t].before = order[o]]
  /\ pc' = [pc EXCEPT ![t] = "restoring"]
  /\ UNCHANGED <<tables, plock, slock, undo, done, history>>

(* SELECT * FROM orders ... FOR UPDATE, and the test of its status.        *)
LockOrder(t, o) ==
  /\ pc[t] = "finding"
  /\ o = job[t].ord
  /\ olock[o] = NoTxn
  /\ Accepts(t, order[o])
  /\ olock' = [olock EXCEPT ![o] = t]
  /\ job' = [job EXCEPT ![t].before = order[o]]
  /\ pc' = [pc EXCEPT ![t] = "restoring"]
  /\ UNCHANGED <<tables, plock, slock, undo, done, history>>

RefuseOrder(t) ==
  /\ pc[t] = "finding"
  /\ olock[job[t].ord] = NoTxn
  /\ ~Accepts(t, order[job[t].ord])
  /\ Rollback(t)

(* The lines whose stock this transaction gives back.                      *)
ToRestore(t) ==
  IF Restores(job[t].before.status, job[t].to) THEN Lines(job[t].before.cart) ELSE {}

(* UPDATE products SET stock_quantity = stock_quantity + ? for one line.   *)
Restore(t, p) ==
  /\ pc[t] = "restoring"
  /\ p \in ToRestore(t) \ done[t]
  /\ plock[p] = NoTxn
  /\ plock' = [plock EXCEPT ![p] = t]
  /\ Write(t, p, PutBack(product[p], job[t].before.cart[p]))
  /\ UNCHANGED <<order, shop, olock, slock, pc, job, history>>

(* Mutant: the loop over the lines stops early.                            *)
SetStatusEarly(t) ==
  /\ pc[t] = "restoring"
  /\ order' = [order EXCEPT ![job[t].ord].status = job[t].to]
  /\ pc' = [pc EXCEPT ![t] = "committing"]
  /\ UNCHANGED <<product, shop, locks, job, undo, done, history>>

(* UPDATE orders SET status = ?                                            *)
SetStatus(t) ==
  /\ pc[t] = "restoring"
  /\ done[t] = ToRestore(t)
  /\ order' = [order EXCEPT ![job[t].ord].status = job[t].to]
  /\ pc' = [pc EXCEPT ![t] = "committing"]
  /\ UNCHANGED <<product, shop, locks, job, undo, done, history>>

CommitStatus(t) ==
  /\ pc[t] = "committing"
  /\ reopened' = IF job[t].before.status = "cancelled" /\ job[t].to # "cancelled"
                   THEN reopened \cup {job[t].ord} ELSE reopened
  /\ Finish(t)
  /\ UNCHANGED <<tables, supply>>

------------------------------------------------------------------------------
(***************************************************************************)
(* Any statement can fail before COMMIT: lost connection, lock wait        *)
(* timeout, deadlock victim, process death.  Every catch block rolls back. *)
(***************************************************************************)
Fail(t) ==
  /\ pc[t] # "idle"
  /\ Rollback(t)

(* The holders of the locks t still has to be granted.                     *)
Awaited(t) ==
  CASE pc[t] = "locking" ->
         ({plock[p] : p \in Lines(job[t].cart)} \cup {slock[job[t].seller]}) \ {t}
    [] pc[t] = "finding"   -> {olock[job[t].ord]}
    [] pc[t] = "restoring" -> {plock[p] : p \in ToRestore(t) \ done[t]}
    [] OTHER -> {}

(* InnoDB's deadlock detector rolls back a member of a circular wait.      *)
Deadlocked(S) ==
  \A t \in S : Awaited(t) # {} /\ Awaited(t) \subseteq S

Victim(t) ==
  /\ \E S \in SUBSET Txns : t \in S /\ Deadlocked(S)
  /\ Rollback(t)

------------------------------------------------------------------------------
(* Autocommit updates of other handlers.                                   *)

EditProduct(p, v, st) ==
  /\ plock[p] = NoTxn
  /\ supply[p] + v - product[p].stock <= MaxSupply   \* bound
  /\ product' = [product EXCEPT ![p] = [stock |-> v, status |-> EditedStatus(@, v, st)]]
  /\ supply' = [supply EXCEPT ![p] = @ + v - product[p].stock]
  /\ UNCHANGED <<order, shop, locks, handlers, reopened>>

UpdateProductStatus(p, st) ==
  /\ plock[p] = NoTxn
  /\ product' = [product EXCEPT ![p].status = st]
  /\ UNCHANGED <<order, shop, locks, handlers, history>>

SetShop(s, open) ==
  /\ slock[s] = NoTxn
  /\ shop' = [shop EXCEPT ![s] = open]
  /\ UNCHANGED <<product, order, locks, handlers, history>>

------------------------------------------------------------------------------
(* What a granted lock lets a handler do, and its other steps.             *)
Granted(t) ==
  \/ \E p \in Products : LockProduct(t, p) \/ Restore(t, p)
  \/ \E s \in Sellers : LockSeller(t, s)
  \/ \E o \in Orders : LockOrder(t, o)
  \/ RefuseOrder(t)

Proceed(t) ==
  \/ \E o \in Orders : InsertOrder(t, o)
  \/ RefuseCreate(t)
  \/ \E p \in Products : Deduct(t, p)
  \/ CommitCreate(t)
  \/ SetStatus(t)
  \/ CommitStatus(t)

Begin(t) ==
  \/ \E s \in Sellers, c \in Carts : BeginCreate(t, s, c)
  \/ \E o \in Orders : BeginCancel(t, o)
  \/ \E o \in Orders, to \in Settable, admin \in AdminFlags : BeginUpdate(t, o, to, admin)

Environment ==
  \/ \E p \in Products, v \in StockLevels, st \in ProductStatus \cup {"keep"} :
       EditProduct(p, v, st)
  \/ \E p \in Products, st \in ProductStatus : UpdateProductStatus(p, st)
  \/ \E s \in Sellers, open \in BOOLEAN : SetShop(s, open)

Next ==
  \/ \E t \in Txns : Begin(t) \/ Granted(t) \/ Proceed(t) \/ Fail(t) \/ Victim(t)
  \/ Environment

Spec == Init /\ [][Next]_vars

(***************************************************************************)
(* A handler that can go on does; InnoDB hands a lock to its waiters in    *)
(* turn, so one that can take a lock again and again does take it; the     *)
(* deadlock detector acts.  Nothing makes clients send requests.           *)
(***************************************************************************)
Fairness ==
  \A t \in Txns : /\ WF_vars(Proceed(t))
                  /\ SF_vars(Granted(t))
                  /\ WF_vars(Victim(t))

FairSpec == Spec /\ Fairness

------------------------------------------------------------------------------
(***************************************************************************)
(* The committed state, which is what every other connection sees: a row   *)
(* with an uncommitted write stands as its writer's undo log has it.       *)
(***************************************************************************)
CommittedProduct ==
  [p \in Products |->
     IF plock[p] # NoTxn /\ p \in done[plock[p]] THEN undo[plock[p]][p] ELSE product[p]]

CommittedOrder ==
  [o \in Orders |-> IF olock[o] # NoTxn THEN job[olock[o]].before ELSE order[o]]

Book == INSTANCE OrderBook
          WITH product <- CommittedProduct, order <- CommittedOrder

(* Each handler, however interleaved, acts on the committed tables at one  *)
(* instant and by the rules of OrderBook, or not at all.                   *)
Atomic == Book!Spec

(* The stock account of OrderLedger, kept by what is committed: every unit *)
(* put on sale is on the shelf or in an order that stands.                 *)
Ledger == INSTANCE OrderLedger
            WITH product <- CommittedProduct, order <- CommittedOrder
StockConserved == Ledger!StockConserved

------------------------------------------------------------------------------
(***************************************************************************)
(* The inductive invariant, by parts.  A transaction writes only rows it   *)
(* has locked, its locks are those its statements took, and what its       *)
(* handler read under a lock is still so when it acts on it.               *)
(***************************************************************************)

(* Who may hold a lock, and for what.                                      *)
ProductLockExplained(t, p) ==
  plock[p] = t => \/ pc[t] \in {"locking", "deducting"} /\ p \in Lines(job[t].cart)
                  \/ pc[t] \in {"restoring", "committing"} /\ p \in done[t]
OrderLockExplained(t, o) ==
  olock[o] = t => pc[t] \in {"deducting", "restoring", "committing"} /\ job[t].ord = o
SellerLockExplained(t, s) ==
  slock[s] = t => pc[t] \in {"locking", "deducting"} /\ job[t].seller = s

LocksExplained ==
  \A t \in Txns : /\ \A p \in Products : ProductLockExplained(t, p)
                  /\ \A o \in Orders : OrderLockExplained(t, o)
                  /\ \A s \in Sellers : SellerLockExplained(t, s)

(* A row with an uncommitted write is locked by its writer.                *)
WritesLocked == \A t \in Txns : \A p \in done[t] : plock[p] = t

(* What a create has found true of its rows and relies on until COMMIT.    *)
CreateCovered(t) ==
  LET j == job[t] IN
  /\ j.cart \in Carts /\ j.seller \in Sellers /\ j.ord \in Orders
  /\ j.before = NoOrder
  /\ AllLocked(t)
  /\ shop[j.seller]
  /\ olock[j.ord] = t
  /\ order[j.ord] = [status |-> "pending", cart |-> j.cart]
  /\ done[t] \subseteq Lines(j.cart)
  /\ \A p \in Lines(j.cart) :
       LET row == IF p \in done[t] THEN undo[t][p] ELSE product[p] IN
       /\ SellerOf[p] = j.seller
       /\ Sellable(row, j.cart[p])
       /\ p \in done[t] => product[p] = Deducted(row, j.cart[p])

(* The same of a handler that has read the order it cancels or moves.      *)
MoveCovered(t) ==
  LET j == job[t] IN
  /\ j.kind \in {"cancel", "update"} /\ j.ord \in Orders
  /\ j.kind = "cancel" => j.to = "cancelled"
  /\ j.kind = "update" => j.admin \in AdminFlags
  /\ j.to \in Settable
  /\ olock[j.ord] = t
  /\ Accepts(t, j.before)
  /\ done[t] \subseteq ToRestore(t)
  /\ \A p \in done[t] : product[p] = PutBack(undo[t][p], j.before.cart[p])
  /\ pc[t] = "restoring" => order[j.ord] = j.before
  /\ pc[t] = "committing" =>
       /\ done[t] = ToRestore(t)
       /\ order[j.ord] = [j.before EXCEPT !.status = j.to]

HandlerInv(t) ==
  /\ pc[t] \in {"idle", "locking", "finding"} => done[t] = {} /\ job[t].before = NoOrder
  /\ pc[t] = "locking" => job[t].cart \in Carts /\ job[t].seller \in Sellers
  /\ pc[t] = "deducting" => CreateCovered(t)
  /\ pc[t] = "finding" => /\ job[t].kind \in {"cancel", "update"}
                          /\ job[t].ord \in Orders
                          /\ job[t].kind = "cancel" => job[t].to = "cancelled"
                          /\ job[t].kind = "update" => job[t].admin \in AdminFlags
                          /\ job[t].to \in Settable
  /\ pc[t] \in {"restoring", "committing"} => MoveCovered(t)

(***************************************************************************)
(* No interleaving of orders, cancellations, edits and failures leaves a   *)
(* product's stock below zero, uncommitted writes and the rows a ROLLBACK  *)
(* would put back included (orderController.js:90, :114).                  *)
(***************************************************************************)
StockNeverNegative ==
  /\ \A p \in Products : product[p].stock >= 0
  /\ \A t \in Txns : \A p \in done[t] : undo[t][p].stock >= 0

IInv ==
  /\ TypeOK
  /\ LocksExplained
  /\ WritesLocked
  /\ \A t \in Txns : HandlerInv(t)
  /\ StockNeverNegative

(***************************************************************************)
(* Every handler ends, by commit or by rollback: the row locks it waits    *)
(* for come, or it is rolled back out of a circular wait (cancelOrder      *)
(* takes its rows in another order than createOrder does).                 *)
(***************************************************************************)
EveryHandlerEnds == \A t \in Txns : pc[t] # "idle" ~> pc[t] = "idle"
=============================================================================
