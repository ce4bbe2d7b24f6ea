---------------------------- MODULE OrderTxnProofs ----------------------------
(***************************************************************************)
(* Theorems about OrderTxn, for every number of products, orders, sellers  *)
(* and transactions: the types, the inductive invariant and with it that   *)
(* stock never drops below zero; that the transactions implement the       *)
(* atomic OrderBook; and that what they commit keeps the stock account,    *)
(* which is proved of OrderBook (OrderLedgerProofs).                       *)
(***************************************************************************)
EXTENDS OrderTxn, TLAPS

------------------------------------------------------------------------------
(* The rules of one row keep the row's type.                               *)

(* A sale and a return both leave a product row, stock moved by q.         *)
LEMMA RowRules ==
  ASSUME NEW row \in ProductRow, NEW q \in Int
  PROVE  /\ Deducted(row, q) \in ProductRow
         /\ Deducted(row, q).stock = row.stock - q
         /\ PutBack(row, q) \in ProductRow
         /\ PutBack(row, q).stock = row.stock + q
BY DEF Deducted, PutBack, ProductRow, ProductStatus

(* An edit writes a product row.                                           *)
LEMMA EditedRow ==
  ASSUME NEW row \in ProductRow, NEW v \in StockLevels,
         NEW st \in ProductStatus \cup {"keep"}
  PROVE  [stock |-> v, status |-> EditedStatus(row, v, st)] \in ProductRow
<1>1. v \in Int
  BY OrderDataAssumption
<1>2. EditedStatus(row, v, st) \in ProductStatus
  BY DEF EditedStatus, ProductRow, ProductStatus
<1>. QED
  BY <1>1, <1>2 DEF ProductRow

(* The lines of a cart carry positive natural quantities.                  *)
LEMMA CartLines ==
  ASSUME NEW c \in Carts \cup {NoLines}
  PROVE  /\ c \in [Products -> Nat]
         /\ Lines(c) \subseteq Products
         /\ \A p \in Lines(c) : c[p] \in Nat /\ c[p] > 0
<1>1. c \in [Products -> Nat]
  BY OrderDataAssumption DEF Carts, NoLines
<1>. QED
  BY <1>1 DEF Lines

(* The constants that stand for "nothing" have the types they stand in.    *)
LEMMA Blanks ==
  /\ NoOrder \in OrderRow
  /\ NoJob \in Job
  /\ NoUndo \in [Products -> ProductRow]
  /\ NoTxn \notin Txns
BY NoTxnAssumption
   DEF NoOrder, OrderRow, NoJob, Job, Kinds, OrderStatus, NoUndo, BlankRow,
       ProductRow, ProductStatus

------------------------------------------------------------------------------
(***************************************************************************)
(* A step of one handler leaves the other handlers' invariant alone: what  *)
(* a handler relies on is its own state and rows it has locked.            *)
(***************************************************************************)
Undisturbed(u) ==
  /\ pc'[u] = pc[u] /\ job'[u] = job[u] /\ undo'[u] = undo[u] /\ done'[u] = done[u]
  /\ \A p \in Products : plock[p] = u => plock'[p] = u /\ product'[p] = product[p]
  /\ \A o \in Orders : olock[o] = u => /\ olock'[o] = u /\ order'[o] = order[o]
                                       /\ o \in reopened' => o \in reopened
  /\ \A s \in Sellers : slock[s] = u => slock'[s] = u /\ shop'[s] = shop[s]

LEMMA OthersUndisturbed ==
  ASSUME IInv, NEW u \in Txns, Undisturbed(u)
  PROVE  HandlerInv(u)'
<1>. USE DEF Undisturbed
<1>1. HandlerInv(u) /\ WritesLocked /\ TypeOK
  BY DEF IInv
<1>2. CASE pc[u] \in {"idle", "locking", "finding"}
  BY <1>1, <1>2 DEF HandlerInv
<1>3. CASE pc[u] = "deducting"
  <2>1. CreateCovered(u)
    BY <1>1, <1>3 DEF HandlerInv
  <2>2. Lines(job[u].cart) \subseteq Products
    BY <2>1, CartLines DEF CreateCovered
  <2>3. \A p \in Lines(job[u].cart) : plock'[p] = u /\ product'[p] = product[p]
    BY <2>1, <2>2 DEF CreateCovered, AllLocked
  <2>4. /\ slock'[job[u].seller] = u /\ shop'[job[u].seller] = shop[job[u].seller]
        /\ olock'[job[u].ord] = u /\ order'[job[u].ord] = order[job[u].ord]
    BY <2>1 DEF CreateCovered, AllLocked
  <2>5. CreateCovered(u)'
    BY <2>1, <2>3, <2>4 DEF CreateCovered, AllLocked
  <2>. QED
    BY <1>3, <2>5 DEF HandlerInv
<1>4. CASE pc[u] \in {"restoring", "committing"}
  <2>1. MoveCovered(u)
    BY <1>1, <1>4 DEF HandlerInv
  <2>2. \A p \in done[u] : product'[p] = product[p]
    BY <1>1 DEF WritesLocked, TypeOK
  <2>3. /\ olock'[job[u].ord] = u /\ order'[job[u].ord] = order[job[u].ord]
        /\ job[u].ord \in reopened' => job[u].ord \in reopened
    BY <2>1 DEF MoveCovered
  <2>4. Accepts(u, job[u].before)'
    BY <2>1, <2>3 DEF MoveCovered, Accepts
  <2>5. ToRestore(u)' = ToRestore(u)
    BY DEF ToRestore
  <2>6. MoveCovered(u)'
    BY <2>1, <2>2, <2>3, <2>4, <2>5 DEF MoveCovered
  <2>. QED
    BY <1>4, <2>6 DEF HandlerInv
<1>. QED
  BY <1>1, <1>2, <1>3, <1>4 DEF TypeOK, Steps

------------------------------------------------------------------------------
(* Ends of transactions.                                                   *)

(* What Finish comes to: t idle and without locks, the others as before.   *)
Finished(t) ==
  /\ plock' \in [Products -> Txns \cup {NoTxn}]
  /\ olock' \in [Orders -> Txns \cup {NoTxn}]
  /\ slock' \in [Sellers -> Txns \cup {NoTxn}]
  /\ pc' \in [Txns -> Steps] /\ job' \in [Txns -> Job]
  /\ undo' \in [Txns -> [Products -> ProductRow]]
  /\ done' \in [Txns -> SUBSET Products]
  /\ \A p \in Products : plock'[p] = IF plock[p] = t THEN NoTxn ELSE plock[p]
  /\ \A o \in Orders : olock'[o] = IF olock[o] = t THEN NoTxn ELSE olock[o]
  /\ \A s \in Sellers : slock'[s] = IF slock[s] = t THEN NoTxn ELSE slock[s]
  /\ pc'[t] = "idle" /\ job'[t] = NoJob /\ undo'[t] = NoUndo /\ done'[t] = {}
  /\ \A u \in Txns \ {t} : /\ pc'[u] = pc[u] /\ job'[u] = job[u]
                           /\ undo'[u] = undo[u] /\ done'[u] = done[u]

LEMMA FinishFrees ==
  ASSUME TypeOK, NEW t \in Txns, Finish(t)
  PROVE  Finished(t)
BY Blanks DEF Finished, Finish, Free, TypeOK, Steps

(* The locks and writes left are explained, and t's handler is at rest.    *)
LEMMA FinishKeepsLocks ==
  ASSUME IInv, NEW t \in Txns, Finished(t)
  PROVE  LocksExplained' /\ WritesLocked' /\ HandlerInv(t)'
<1>. USE DEF IInv, Finished
<1>1. LocksExplained'
  <2>1. SUFFICES ASSUME NEW u \in Txns
                 PROVE  /\ \A p \in Products : ProductLockExplained(u, p)'
                        /\ \A o \in Orders : OrderLockExplained(u, o)'
                        /\ \A s \in Sellers : SellerLockExplained(u, s)'
    BY DEF LocksExplained
  <2>2. CASE u = t
    BY <2>2, Blanks DEF ProductLockExplained, OrderLockExplained, SellerLockExplained
  <2>3. CASE u # t
    <3>1. /\ \A p \in Products : plock'[p] = u => plock[p] = u
          /\ \A o \in Orders : olock'[o] = u => olock[o] = u
          /\ \A s \in Sellers : slock'[s] = u => slock[s] = u
          /\ pc'[u] = pc[u] /\ job'[u] = job[u] /\ done'[u] = done[u]
      BY <2>3, Blanks
    <3>2. /\ \A p \in Products : ProductLockExplained(u, p)
          /\ \A o \in Orders : OrderLockExplained(u, o)
          /\ \A s \in Sellers : SellerLockExplained(u, s)
      BY DEF LocksExplained
    <3>. QED
      BY <3>1, <3>2 DEF ProductLockExplained, OrderLockExplained, SellerLockExplained
  <2>. QED
    BY <2>2, <2>3
<1>2. WritesLocked'
  BY DEF WritesLocked, TypeOK
<1>3. HandlerInv(t)'
  <2>1. job'[t].before = NoOrder
    BY DEF NoJob
  <2>. QED
    BY <2>1 DEF HandlerInv
<1>. QED
  BY <1>1, <1>2, <1>3

(* A ROLLBACK restores a state of the invariant.                           *)
LEMMA RollbackStep ==
  ASSUME IInv, NEW t \in Txns, Rollback(t)
  PROVE  IInv'
<1>. USE DEF IInv
<1>0. Finished(t)
  BY FinishFrees DEF Rollback
<1>1. TypeOK'
  <2>1. product' \in [Products -> ProductRow]
    BY DEF Rollback, TypeOK
  <2>2. order' \in [Orders -> OrderRow]
    BY DEF Rollback, TypeOK, Job
  <2>. QED
    BY <1>0, <2>1, <2>2 DEF Rollback, TypeOK, Finished
<1>2. LocksExplained' /\ WritesLocked' /\ HandlerInv(t)'
  BY <1>0, FinishKeepsLocks
<1>3. \A u \in Txns \ {t} : HandlerInv(u)'
  <2>1. SUFFICES ASSUME NEW u \in Txns \ {t}
                 PROVE  Undisturbed(u)
    BY OthersUndisturbed
  <2>2. \A p \in done[t] : plock[p] = t
    BY DEF WritesLocked
  <2>. QED
    BY <1>0, <2>2 DEF Finished, Undisturbed, Rollback, TypeOK
<1>4. StockNeverNegative'
  <2>1. \A u \in Txns : \A p \in done'[u] : u # t /\ p \in done[u] /\ undo'[u][p] = undo[u][p]
    BY <1>0 DEF Finished
  <2>2. \A p \in Products : product'[p].stock >= 0
    BY DEF Rollback, StockNeverNegative
  <2>. QED
    BY <2>1, <2>2 DEF StockNeverNegative
<1>. QED
  BY <1>1, <1>2, <1>3, <1>4

(* A COMMIT, of either kind of handler.                                    *)
LEMMA CommitStep ==
  ASSUME IInv, NEW t \in Txns, Finish(t), UNCHANGED <<tables, supply>>,
         reopened' \subseteq Orders,
         \A o \in Orders : o \in reopened' \ reopened => olock[o] = t
  PROVE  IInv'
<1>. USE DEF IInv, tables
<1>0. Finished(t)
  BY FinishFrees
<1>1. TypeOK'
  BY <1>0 DEF TypeOK, Finished
<1>2. LocksExplained' /\ WritesLocked' /\ HandlerInv(t)'
  BY <1>0, FinishKeepsLocks
<1>3. \A u \in Txns \ {t} : HandlerInv(u)'
  <2>1. SUFFICES ASSUME NEW u \in Txns \ {t}
                 PROVE  Undisturbed(u)
    BY OthersUndisturbed
  <2>. QED
    BY <1>0 DEF Finished, Undisturbed, TypeOK
<1>4. StockNeverNegative'
  <2>1. \A u \in Txns : \A p \in done'[u] : u # t /\ p \in done[u] /\ undo'[u][p] = undo[u][p]
    BY <1>0 DEF Finished
  <2>. QED
    BY <2>1 DEF StockNeverNegative
<1>. QED
  BY <1>1, <1>2, <1>3, <1>4

------------------------------------------------------------------------------
(***************************************************************************)
(* The invariant after a step of t follows from what the step does to t's  *)
(* own part of the state, when it neither disturbs the other handlers nor  *)
(* gives them locks.                                                       *)
(***************************************************************************)
OwnPart(t) ==
  /\ \A p \in Products : ProductLockExplained(t, p)
  /\ \A o \in Orders : OrderLockExplained(t, o)
  /\ \A s \in Sellers : SellerLockExplained(t, s)
  /\ \A p \in done[t] : plock[p] = t /\ undo[t][p].stock >= 0
  /\ HandlerInv(t)

GainsNothing(u) ==
  /\ \A p \in Products : plock'[p] = u => plock[p] = u
  /\ \A o \in Orders : olock'[o] = u => olock[o] = u
  /\ \A s \in Sellers : slock'[s] = u => slock[s] = u

LEMMA OwnParts == IInv => \A u \in Txns : OwnPart(u)
BY DEF IInv, OwnPart, LocksExplained, WritesLocked, StockNeverNegative

LEMMA OthersKeepTheirPart ==
  ASSUME IInv, NEW u \in Txns, Undisturbed(u), GainsNothing(u)
  PROVE  OwnPart(u)'
<1>1. OwnPart(u)
  BY OwnParts
<1>2. HandlerInv(u)'
  BY OthersUndisturbed
<1>3. /\ \A p \in Products : ProductLockExplained(u, p)'
      /\ \A o \in Orders : OrderLockExplained(u, o)'
      /\ \A s \in Sellers : SellerLockExplained(u, s)'
  BY <1>1 DEF OwnPart, Undisturbed, GainsNothing,
              ProductLockExplained, OrderLockExplained, SellerLockExplained
<1>4. \A p \in done'[u] : plock'[p] = u /\ undo'[u][p].stock >= 0
  <2>1. done[u] \subseteq Products
    BY DEF IInv, TypeOK
  <2>. QED
    BY <1>1, <2>1 DEF OwnPart, Undisturbed
<1>. QED
  BY <1>2, <1>3, <1>4 DEF OwnPart

LEMMA Assemble ==
  ASSUME IInv, NEW t \in Txns, TypeOK', OwnPart(t)',
         \A u \in Txns \ {t} : Undisturbed(u) /\ GainsNothing(u),
         \A p \in Products : product'[p].stock >= 0
  PROVE  IInv'
<1>1. \A u \in Txns : OwnPart(u)'
  BY OthersKeepTheirPart
<1>. QED
  BY <1>1 DEF IInv, OwnPart, LocksExplained, WritesLocked, StockNeverNegative

------------------------------------------------------------------------------
(* createOrder, step by step.                                              *)

LEMMA BeginCreateStep ==
  ASSUME IInv, NEW t \in Txns, NEW s \in Sellers, NEW c \in Carts, BeginCreate(t, s, c)
  PROVE  IInv'
<1>. USE DEF BeginCreate, tables, locks, history
<1>1. OwnPart(t) /\ TypeOK /\ StockNeverNegative
  BY OwnParts DEF IInv
<1>2. /\ job'[t].kind = "create" /\ job'[t].seller = s /\ job'[t].cart = c
      /\ job'[t].before = NoOrder /\ job'[t] \in Job
  BY <1>1, Blanks DEF TypeOK, NoJob, Job, Kinds
<1>3. TypeOK'
  BY <1>1, <1>2 DEF TypeOK, Steps
<1>4. \A u \in Txns \ {t} : Undisturbed(u) /\ GainsNothing(u)
  BY <1>1 DEF TypeOK, Undisturbed, GainsNothing
<1>5. OwnPart(t)'
  <2>1. pc[t] = "idle" /\ pc'[t] = "locking" /\ done'[t] = {}
    BY <1>1 DEF TypeOK, OwnPart, HandlerInv
  <2>2. HandlerInv(t)'
    BY <1>2, <2>1 DEF HandlerInv
  <2>. QED
    BY <1>1, <2>1, <2>2
       DEF OwnPart, ProductLockExplained, OrderLockExplained, SellerLockExplained
<1>. QED
  BY <1>1, <1>3, <1>4, <1>5, Assemble DEF StockNeverNegative

LEMMA LockProductStep ==
  ASSUME IInv, NEW t \in Txns, NEW p \in Products, LockProduct(t, p)
  PROVE  IInv'
<1>. USE DEF LockProduct, tables, handlers, history
<1>1. OwnPart(t) /\ TypeOK /\ StockNeverNegative
  BY OwnParts DEF IInv
<1>2. TypeOK'
  BY <1>1 DEF TypeOK
<1>3. \A u \in Txns \ {t} : Undisturbed(u) /\ GainsNothing(u)
  BY <1>1, Blanks DEF TypeOK, Undisturbed, GainsNothing
<1>4. OwnPart(t)'
  <2>1. done[t] = {}
    BY <1>1 DEF OwnPart, HandlerInv
  <2>2. HandlerInv(t)'
    BY <1>1 DEF OwnPart, HandlerInv
  <2>. QED
    BY <1>1, <2>1, <2>2
       DEF OwnPart, TypeOK, ProductLockExplained, OrderLockExplained, SellerLockExplained
<1>. QED
  BY <1>1, <1>2, <1>3, <1>4, Assemble DEF StockNeverNegative

LEMMA LockSellerStep ==
  ASSUME IInv, NEW t \in Txns, NEW s \in Sellers, LockSeller(t, s)
  PROVE  IInv'
<1>. USE DEF LockSeller, tables, handlers, history
<1>1. OwnPart(t) /\ TypeOK /\ StockNeverNegative
  BY OwnParts DEF IInv
<1>2. TypeOK'
  BY <1>1 DEF TypeOK
<1>3. \A u \in Txns \ {t} : Undisturbed(u) /\ GainsNothing(u)
  BY <1>1, Blanks DEF TypeOK, Undisturbed, GainsNothing
<1>4. OwnPart(t)'
  <2>1. done[t] = {}
    BY <1>1 DEF OwnPart, HandlerInv
  <2>2. HandlerInv(t)'
    BY <1>1 DEF OwnPart, HandlerInv
  <2>. QED
    BY <1>1, <2>1, <2>2
       DEF OwnPart, TypeOK, ProductLockExplained, OrderLockExplained, SellerLockExplained
<1>. QED
  BY <1>1, <1>2, <1>3, <1>4, Assemble DEF StockNeverNegative

(* The rows the check found good are the transaction's own until it ends.  *)
LEMMA InsertOrderStep ==
  ASSUME IInv, NEW t \in Txns, NEW o \in Orders, InsertOrder(t, o)
  PROVE  IInv'
<1>. USE DEF InsertOrder, history
<1>1. OwnPart(t) /\ TypeOK /\ StockNeverNegative
  BY OwnParts DEF IInv
<1>2. /\ job[t].cart \in Carts /\ job[t].seller \in Sellers /\ job[t].before = NoOrder
      /\ done[t] = {} /\ pc'[t] = "deducting" /\ job'[t] = [job[t] EXCEPT !.ord = o]
  BY <1>1 DEF OwnPart, HandlerInv, TypeOK
<1>3. job'[t] \in Job /\ job'[t].cart = job[t].cart /\ job'[t].seller = job[t].seller
      /\ job'[t].before = NoOrder /\ job'[t].ord = o
  BY <1>1, <1>2 DEF TypeOK, Job
<1>4. TypeOK'
  BY <1>1, <1>2, <1>3 DEF TypeOK, Steps, OrderRow, OrderStatus
<1>5. \A u \in Txns \ {t} : Undisturbed(u) /\ GainsNothing(u)
  BY <1>1, Blanks DEF TypeOK, Undisturbed, GainsNothing
<1>6. OwnPart(t)'
  <2>1. AllLocked(t)'
    BY <1>3 DEF AllLocked
  <2>2. CreateCovered(t)'
    BY <1>1, <1>2, <1>3, <2>1 DEF CreateCovered, Available, TypeOK
  <2>3. HandlerInv(t)'
    BY <1>2, <2>2 DEF HandlerInv
  <2>. QED
    BY <1>1, <1>2, <1>3, <2>3
       DEF OwnPart, TypeOK, ProductLockExplained, OrderLockExplained, SellerLockExplained
<1>. QED
  BY <1>1, <1>4, <1>5, <1>6, Assemble DEF StockNeverNegative

(* A sale finds the stock its check found, whoever ran in between.         *)
LEMMA DeductStep ==
  ASSUME IInv, NEW t \in Txns, NEW p \in Products, Deduct(t, p)
  PROVE  IInv'
<1>. USE DEF Deduct, Write, locks, history
<1>1. OwnPart(t) /\ TypeOK /\ StockNeverNegative
  BY OwnParts DEF IInv
<1>2. CreateCovered(t)
  BY <1>1 DEF OwnPart, HandlerInv
<1>3. /\ plock[p] = t /\ product[p] \in ProductRow
      /\ job[t].cart[p] \in Nat /\ product[p].stock >= job[t].cart[p]
      /\ done[t] \subseteq Lines(job[t].cart) /\ Lines(job[t].cart) \subseteq Products
  BY <1>1, <1>2, CartLines DEF CreateCovered, AllLocked, Sellable, TypeOK
<1>4. /\ Deducted(product[p], job[t].cart[p]) \in ProductRow
      /\ Deducted(product[p], job[t].cart[p]).stock >= 0
  BY <1>3, RowRules DEF ProductRow
<1>5. TypeOK'
  BY <1>1, <1>3, <1>4 DEF TypeOK
<1>6. \A u \in Txns \ {t} : Undisturbed(u) /\ GainsNothing(u)
  BY <1>1, <1>3 DEF TypeOK, Undisturbed, GainsNothing
<1>7. OwnPart(t)'
  <2>1. /\ done'[t] = done[t] \cup {p}
        /\ undo'[t][p] = product[p]
        /\ product'[p] = Deducted(product[p], job[t].cart[p])
        /\ \A q \in Products \ {p} : undo'[t][q] = undo[t][q] /\ product'[q] = product[q]
    BY <1>1 DEF TypeOK
  <2>2. CreateCovered(t)'
    BY <1>2, <1>3, <2>1 DEF CreateCovered, AllLocked
  <2>3. HandlerInv(t)'
    BY <2>2 DEF HandlerInv
  <2>4. \A q \in done'[t] : plock'[q] = t /\ undo'[t][q].stock >= 0
    BY <1>1, <1>3, <2>1 DEF OwnPart, StockNeverNegative
  <2>. QED
    BY <1>1, <2>3, <2>4
       DEF OwnPart, ProductLockExplained, OrderLockExplained, SellerLockExplained
<1>8. \A q \in Products : product'[q].stock >= 0
  BY <1>1, <1>4 DEF TypeOK, StockNeverNegative
<1>. QED
  BY <1>5, <1>6, <1>7, <1>8, Assemble

LEMMA CommitCreateStep ==
  ASSUME IInv, NEW t \in Txns, CommitCreate(t)
  PROVE  IInv'
<1>1. reopened' = reopened /\ reopened \subseteq Orders
  BY DEF CommitCreate, history, IInv, TypeOK
<1>. QED
  BY <1>1, CommitStep DEF CommitCreate, history

------------------------------------------------------------------------------
(* cancelOrder and updateSellerOrderStatus, step by step.                  *)

(* Either handler starts with a request to look for its order.             *)
LEMMA BeginFindStep ==
  ASSUME IInv, NEW t \in Txns, NEW j \in Job,
         j.kind \in {"cancel", "update"}, j.ord \in Orders, j.to \in Settable,
         j.kind = "cancel" => j.to = "cancelled", j.before = NoOrder,
         j.kind = "update" => j.admin \in AdminFlags,
         pc[t] = "idle", pc' = [pc EXCEPT ![t] = "finding"],
         job' = [job EXCEPT ![t] = j],
         UNCHANGED <<tables, locks, undo, done, history>>
  PROVE  IInv'
<1>. USE DEF tables, locks, history
<1>1. OwnPart(t) /\ TypeOK /\ StockNeverNegative
  BY OwnParts DEF IInv
<1>2. job'[t] = j
  BY <1>1 DEF TypeOK
<1>3. TypeOK'
  BY <1>1, <1>2 DEF TypeOK, Steps
<1>4. \A u \in Txns \ {t} : Undisturbed(u) /\ GainsNothing(u)
  BY <1>1 DEF TypeOK, Undisturbed, GainsNothing
<1>5. OwnPart(t)'
  <2>1. pc'[t] = "finding" /\ done'[t] = {}
    BY <1>1 DEF TypeOK, OwnPart, HandlerInv
  <2>2. HandlerInv(t)'
    BY <1>2, <2>1 DEF HandlerInv
  <2>. QED
    BY <1>1, <2>1, <2>2
       DEF OwnPart, ProductLockExplained, OrderLockExplained, SellerLockExplained
<1>. QED
  BY <1>1, <1>3, <1>4, <1>5, Assemble DEF StockNeverNegative

LEMMA BeginCancelStep ==
  ASSUME IInv, NEW t \in Txns, NEW o \in Orders, BeginCancel(t, o)
  PROVE  IInv'
<1> DEFINE j == [NoJob EXCEPT !.kind = "cancel", !.ord = o, !.to = "cancelled"]
<1>1. "cancelled" \in Settable
  BY DEF Settable, OrderStatus
<1>2. /\ j \in Job /\ j.kind = "cancel" /\ j.ord = o /\ j.to = "cancelled"
      /\ j.before = NoOrder
  BY <1>1, Blanks DEF NoJob, Job, Kinds, Settable
<1>3. pc[t] = "idle" /\ pc' = [pc EXCEPT ![t] = "finding"] /\ job' = [job EXCEPT ![t] = j]
  BY DEF BeginCancel
<1> HIDE DEF j
<1>. QED
  BY <1>1, <1>2, <1>3, BeginFindStep DEF BeginCancel

LEMMA BeginUpdateStep ==
  ASSUME IInv, NEW t \in Txns, NEW o \in Orders, NEW to \in Settable,
         NEW a \in AdminFlags, BeginUpdate(t, o, to, a)
  PROVE  IInv'
<1> DEFINE j == [NoJob EXCEPT !.kind = "update", !.ord = o, !.to = to, !.admin = a]
<1>1. a \in BOOLEAN
  BY OrderDataAssumption
<1>2. /\ j \in Job /\ j.kind = "update" /\ j.ord = o /\ j.to = to
      /\ j.before = NoOrder /\ j.admin = a
  BY <1>1, Blanks DEF NoJob, Job, Kinds, Settable
<1>3. pc[t] = "idle" /\ pc' = [pc EXCEPT ![t] = "finding"] /\ job' = [job EXCEPT ![t] = j]
  BY DEF BeginUpdate
<1> HIDE DEF j
<1>. QED
  BY <1>2, <1>3, BeginFindStep DEF BeginUpdate

LEMMA LockOrderStep ==
  ASSUME IInv, NEW t \in Txns, NEW o \in Orders, LockOrder(t, o)
  PROVE  IInv'
<1>. USE DEF LockOrder, tables, history
<1>1. OwnPart(t) /\ TypeOK /\ StockNeverNegative
  BY OwnParts DEF IInv
<1>2. /\ done[t] = {} /\ pc'[t] = "restoring" /\ job'[t] = [job[t] EXCEPT !.before = order[o]]
      /\ job[t].kind \in {"cancel", "update"} /\ job[t].to \in Settable
      /\ job[t].kind = "cancel" => job[t].to = "cancelled"
      /\ job[t].kind = "update" => job[t].admin \in AdminFlags
  BY <1>1 DEF OwnPart, HandlerInv, TypeOK
<1>3. /\ job'[t] \in Job /\ job'[t].kind = job[t].kind /\ job'[t].ord = o
      /\ job'[t].to = job[t].to /\ job'[t].admin = job[t].admin
      /\ job'[t].before = order[o]
  <2>1. job[t] \in Job /\ order[o] \in OrderRow
    BY <1>1 DEF TypeOK
  <2>2. o = job[t].ord
    OBVIOUS
  <2>. HIDE DEF LockOrder
  <2>3. [job[t] EXCEPT !.before = order[o]] \in Job
    BY <2>1 DEF Job
  <2>. QED
    BY <1>2, <2>1, <2>2, <2>3 DEF Job
<1>4. TypeOK'
  BY <1>1, <1>3 DEF TypeOK, Steps
<1>5. \A u \in Txns \ {t} : Undisturbed(u) /\ GainsNothing(u)
  BY <1>1, Blanks DEF TypeOK, Undisturbed, GainsNothing
<1>6. OwnPart(t)'
  <2>1. Accepts(t, job[t].before)'
    BY <1>3 DEF Accepts
  <2>2. MoveCovered(t)'
    BY <1>1, <1>2, <1>3, <2>1 DEF MoveCovered, TypeOK
  <2>3. HandlerInv(t)'
    BY <1>2, <2>2 DEF HandlerInv
  <2>. QED
    BY <1>1, <1>2, <1>3, <2>3
       DEF OwnPart, TypeOK, ProductLockExplained, OrderLockExplained, SellerLockExplained
<1>. QED
  BY <1>1, <1>4, <1>5, <1>6, Assemble DEF StockNeverNegative

(* Giving stock back takes the lock of the row and keeps the old row.      *)
LEMMA RestoreStep ==
  ASSUME IInv, NEW t \in Txns, NEW p \in Products, Restore(t, p)
  PROVE  IInv'
<1>. USE DEF Restore, Write, history
<1>1. OwnPart(t) /\ TypeOK /\ StockNeverNegative
  BY OwnParts DEF IInv
<1>2. MoveCovered(t)
  BY <1>1 DEF OwnPart, HandlerInv
<1>3. job[t].before \in [status : OrderStatus, cart : Carts]
  BY <1>1, <1>2 DEF TypeOK, Job, OrderRow, MoveCovered, Accepts
<1>4. /\ product[p] \in ProductRow
      /\ job[t].before.cart[p] \in Nat /\ job[t].before.cart[p] > 0
  <2>1. p \in Lines(job[t].before.cart)
    BY <1>2 DEF ToRestore
  <2>. QED
    BY <1>1, <1>3, <2>1, CartLines DEF TypeOK
<1>5. /\ PutBack(product[p], job[t].before.cart[p]) \in ProductRow
      /\ PutBack(product[p], job[t].before.cart[p]).stock >= 0
  <2>1. product[p].stock >= 0 /\ product[p].stock \in Int
    BY <1>1, <1>4 DEF StockNeverNegative, ProductRow
  <2>2. job[t].before.cart[p] \in Int
    BY <1>4
  <2>3. /\ PutBack(product[p], job[t].before.cart[p]) \in ProductRow
        /\ PutBack(product[p], job[t].before.cart[p]).stock
             = product[p].stock + job[t].before.cart[p]
    BY <1>4, <2>2, RowRules
  <2>. QED
    BY <1>4, <2>1, <2>3
<1>6. TypeOK'
  BY <1>1, <1>5 DEF TypeOK
<1>7. \A u \in Txns \ {t} : Undisturbed(u) /\ GainsNothing(u)
  BY <1>1, Blanks DEF TypeOK, Undisturbed, GainsNothing
<1>8. OwnPart(t)'
  <2>1. /\ done'[t] = done[t] \cup {p}
        /\ undo'[t][p] = product[p]
        /\ product'[p] = PutBack(product[p], job[t].before.cart[p])
        /\ \A q \in Products \ {p} : /\ undo'[t][q] = undo[t][q]
                                     /\ product'[q] = product[q]
                                     /\ plock'[q] = plock[q]
        /\ plock'[p] = t
        /\ done[t] \subseteq Products
    BY <1>1 DEF TypeOK
  <2>2. ToRestore(t)' = ToRestore(t) /\ Accepts(t, job[t].before)'
    BY <1>2 DEF ToRestore, MoveCovered, Accepts
  <2>3. MoveCovered(t)'
    BY <1>2, <2>1, <2>2 DEF MoveCovered
  <2>4. HandlerInv(t)'
    BY <2>3 DEF HandlerInv
  <2>5. \A q \in done'[t] : plock'[q] = t /\ undo'[t][q].stock >= 0
    BY <1>1, <2>1 DEF OwnPart, StockNeverNegative
  <2>6. \A q \in Products : ProductLockExplained(t, q)'
    BY <1>1, <2>1 DEF OwnPart, ProductLockExplained
  <2>. QED
    BY <1>1, <2>4, <2>5, <2>6 DEF OwnPart, OrderLockExplained, SellerLockExplained
<1>9. \A q \in Products : product'[q].stock >= 0
  BY <1>1, <1>5 DEF TypeOK, StockNeverNegative
<1>. QED
  BY <1>6, <1>7, <1>8, <1>9, Assemble

LEMMA SetStatusStep ==
  ASSUME IInv, NEW t \in Txns, SetStatus(t)
  PROVE  IInv'
<1>. USE DEF SetStatus, locks, history
<1>1. OwnPart(t) /\ TypeOK /\ StockNeverNegative
  BY OwnParts DEF IInv
<1>2. MoveCovered(t)
  BY <1>1 DEF OwnPart, HandlerInv
<1>3. /\ order[job[t].ord] = job[t].before /\ job[t].ord \in Orders
      /\ olock[job[t].ord] = t /\ job[t].to \in OrderStatus
      /\ job[t].before \in [status : OrderStatus, cart : Carts]
  BY <1>1, <1>2 DEF MoveCovered, TypeOK, Job, OrderRow, Accepts
<1>4. TypeOK'
  BY <1>1, <1>3 DEF TypeOK, Steps, OrderRow
<1>5. \A u \in Txns \ {t} : Undisturbed(u) /\ GainsNothing(u)
  BY <1>1, <1>3 DEF TypeOK, Undisturbed, GainsNothing
<1>6. OwnPart(t)'
  <2>1. pc'[t] = "committing"
    BY <1>1 DEF TypeOK
  <2>2. order'[job[t].ord] = [job[t].before EXCEPT !.status = job[t].to]
    BY <1>1, <1>3 DEF TypeOK
  <2>3. ToRestore(t)' = ToRestore(t) /\ Accepts(t, job[t].before)'
    BY <1>2 DEF ToRestore, MoveCovered, Accepts
  <2>4. MoveCovered(t)'
    BY <1>2, <2>1, <2>2, <2>3 DEF MoveCovered
  <2>5. HandlerInv(t)'
    BY <2>1, <2>4 DEF HandlerInv
  <2>. QED
    BY <1>1, <2>1, <2>5
       DEF OwnPart, ProductLockExplained, OrderLockExplained, SellerLockExplained
<1>. QED
  BY <1>1, <1>4, <1>5, <1>6, Assemble DEF StockNeverNegative

LEMMA CommitStatusStep ==
  ASSUME IInv, NEW t \in Txns, CommitStatus(t)
  PROVE  IInv'
<1>1. OwnPart(t) /\ TypeOK
  BY OwnParts DEF IInv
<1>2. job[t].ord \in Orders /\ olock[job[t].ord] = t
  BY <1>1 DEF OwnPart, HandlerInv, MoveCovered, CommitStatus
<1>3. reopened' \subseteq reopened \cup {job[t].ord} /\ reopened \subseteq Orders
  BY <1>1 DEF CommitStatus, TypeOK
<1>. QED
  BY <1>2, <1>3, CommitStep DEF CommitStatus

------------------------------------------------------------------------------
(* The autocommit updates touch only rows nobody holds.                    *)

LEMMA EnvironmentStep ==
  ASSUME IInv, Environment
  PROVE  IInv'
<1>. USE DEF tables, locks, handlers, history
<1>1. TypeOK /\ StockNeverNegative /\ \A u \in Txns : OwnPart(u)
  BY OwnParts DEF IInv
<1>2. SUFFICES /\ TypeOK'
               /\ \A u \in Txns : Undisturbed(u) /\ GainsNothing(u)
               /\ \A p \in Products : product'[p].stock >= 0
  <2>1. \A u \in Txns : Undisturbed(u) /\ GainsNothing(u) => OwnPart(u)'
    BY OthersKeepTheirPart
  <2>. QED
    BY <2>1 DEF IInv, OwnPart, LocksExplained, WritesLocked, StockNeverNegative
<1>3. ASSUME NEW p \in Products, NEW v \in StockLevels,
             NEW st \in ProductStatus \cup {"keep"}, EditProduct(p, v, st)
      PROVE  /\ TypeOK'
             /\ \A u \in Txns : Undisturbed(u) /\ GainsNothing(u)
             /\ \A q \in Products : product'[q].stock >= 0
  <2>1. /\ [stock |-> v, status |-> EditedStatus(product[p], v, st)] \in ProductRow
        /\ v \in Int /\ v >= 0 /\ product[p].stock \in Int
    BY <1>1, EditedRow, OrderDataAssumption DEF TypeOK, ProductRow
  <2>2. TypeOK'
    BY <1>1, <1>3, <2>1 DEF TypeOK, EditProduct
  <2>3. \A u \in Txns : Undisturbed(u) /\ GainsNothing(u)
    BY <1>1, <1>3, Blanks DEF TypeOK, EditProduct, Undisturbed, GainsNothing
  <2>4. \A q \in Products : product'[q].stock >= 0
    BY <1>1, <1>3, <2>1 DEF TypeOK, EditProduct, StockNeverNegative
  <2>. QED
    BY <2>2, <2>3, <2>4
<1>4. ASSUME NEW p \in Products, NEW st \in ProductStatus, UpdateProductStatus(p, st)
      PROVE  /\ TypeOK'
             /\ \A u \in Txns : Undisturbed(u) /\ GainsNothing(u)
             /\ \A q \in Products : product'[q].stock >= 0
  <2>1. product[p] \in ProductRow
    BY <1>1 DEF TypeOK
  <2>2. TypeOK'
    BY <1>1, <1>4, <2>1 DEF TypeOK, UpdateProductStatus, ProductRow
  <2>3. \A u \in Txns : Undisturbed(u) /\ GainsNothing(u)
    BY <1>1, <1>4, Blanks DEF TypeOK, UpdateProductStatus, Undisturbed, GainsNothing
  <2>4. \A q \in Products : product'[q].stock >= 0
    BY <1>1, <1>4, <2>1 DEF TypeOK, UpdateProductStatus, StockNeverNegative, ProductRow
  <2>. QED
    BY <2>2, <2>3, <2>4
<1>5. ASSUME NEW s \in Sellers, NEW open \in BOOLEAN, SetShop(s, open)
      PROVE  /\ TypeOK'
             /\ \A u \in Txns : Undisturbed(u) /\ GainsNothing(u)
             /\ \A q \in Products : product'[q].stock >= 0
  BY <1>1, <1>5, Blanks
     DEF TypeOK, SetShop, Undisturbed, GainsNothing, StockNeverNegative
<1>. QED
  BY <1>3, <1>4, <1>5 DEF Environment

------------------------------------------------------------------------------
(***************************************************************************)
(* The inductive invariant, and what it gives.                             *)
(***************************************************************************)
LEMMA InitIInv == Init => IInv
<1>. SUFFICES ASSUME Init PROVE IInv
  OBVIOUS
<1>. USE DEF Init
<1>1. product \in [Products -> ProductRow] /\ \A p \in Products : product[p].stock >= 0
  <2>1. ASSUME NEW v \in StockLevels
        PROVE  /\ [stock |-> v, status |-> "active"] \in ProductRow
               /\ [stock |-> v, status |-> "active"].stock >= 0
    BY OrderDataAssumption DEF ProductRow, ProductStatus
  <2>. QED
    BY <2>1
<1>2. TypeOK
  BY <1>1, Blanks DEF TypeOK, Steps, ProductRow
<1>3. LocksExplained /\ WritesLocked /\ StockNeverNegative
  BY <1>1, Blanks DEF LocksExplained, WritesLocked, StockNeverNegative,
       ProductLockExplained, OrderLockExplained, SellerLockExplained
<1>4. \A t \in Txns : HandlerInv(t)
  BY DEF HandlerInv, NoJob
<1>. QED
  BY <1>2, <1>3, <1>4 DEF IInv

LEMMA StepIInv == IInv /\ [Next]_vars => IInv'
<1>. SUFFICES ASSUME IInv, [Next]_vars PROVE IInv'
  OBVIOUS
<1>1. ASSUME NEW t \in Txns, Begin(t) PROVE IInv'
  BY <1>1, BeginCreateStep, BeginCancelStep, BeginUpdateStep DEF Begin
<1>2. ASSUME NEW t \in Txns, Granted(t) PROVE IInv'
  BY <1>2, LockProductStep, LockSellerStep, LockOrderStep, RestoreStep, RollbackStep
     DEF Granted, RefuseOrder
<1>3. ASSUME NEW t \in Txns, Proceed(t) PROVE IInv'
  BY <1>3, InsertOrderStep, DeductStep, CommitCreateStep, SetStatusStep,
     CommitStatusStep, RollbackStep DEF Proceed, RefuseCreate
<1>4. ASSUME NEW t \in Txns, Fail(t) \/ Victim(t) PROVE IInv'
  BY <1>4, RollbackStep DEF Fail, Victim
<1>5. CASE UNCHANGED vars
  <2>1. TypeOK' /\ StockNeverNegative'
    BY <1>5 DEF IInv, TypeOK, StockNeverNegative, vars, tables, locks, handlers, history
  <2>2. \A u \in Txns : OwnPart(u)'
    <3>1. \A u \in Txns : Undisturbed(u) /\ GainsNothing(u)
      BY <1>5 DEF Undisturbed, GainsNothing, vars, tables, locks, handlers, history
    <3>. QED
      BY <3>1, OthersKeepTheirPart
  <2>. QED
    BY <2>1, <2>2 DEF IInv, OwnPart, LocksExplained, WritesLocked
<1>. QED
  BY <1>1, <1>2, <1>3, <1>4, <1>5, EnvironmentStep DEF Next

(* The inductive invariant holds in every reachable state.                 *)
THEOREM Invariance == Spec => []IInv
BY InitIInv, StepIInv, PTL DEF Spec

(* Every variable keeps its type, in every instance.                       *)
THEOREM TypeCorrect == Spec => []TypeOK
<1>1. IInv => TypeOK
  BY DEF IInv
<1>. QED
  BY <1>1, Invariance, PTL

(* No run of createOrder, cancelOrder, updateSellerOrderStatus and the     *)
(* product edits, interleaved in any way, sells stock a product lacks.     *)
THEOREM NeverOversold == Spec => []StockNeverNegative
<1>1. IInv => StockNeverNegative
  BY DEF IInv
<1>. QED
  BY <1>1, Invariance, PTL

------------------------------------------------------------------------------
(***************************************************************************)
(* The transactions implement the atomic OrderBook: to every other         *)
(* connection an order is placed, cancelled or moved at its COMMIT, whole, *)
(* and a statement before that shows nothing.                              *)
(***************************************************************************)

(* What other connections see of one row.                                  *)
SeenProduct(p) ==
  IF plock[p] # NoTxn /\ p \in done[plock[p]] THEN undo[plock[p]][p] ELSE product[p]
SeenOrder(o) == IF olock[o] # NoTxn THEN job[olock[o]].before ELSE order[o]

LEMMA Seen ==
  /\ CommittedProduct = [p \in Products |-> SeenProduct(p)]
  /\ CommittedOrder = [o \in Orders |-> SeenOrder(o)]
BY DEF CommittedProduct, CommittedOrder, SeenProduct, SeenOrder

(* A step that changes no row as others see it, nor the rest.              *)
ShowsNothing ==
  /\ \A p \in Products : SeenProduct(p)' = SeenProduct(p)
  /\ \A o \in Orders : SeenOrder(o)' = SeenOrder(o)
  /\ UNCHANGED <<shop, supply, reopened>>

LEMMA NothingShown == ShowsNothing => UNCHANGED Book!bookVars
BY Seen DEF ShowsNothing, CommittedProduct, CommittedOrder, SeenProduct, SeenOrder,
            Book!bookVars

------------------------------------------------------------------------------
(* The statements before COMMIT, and ROLLBACK, show nothing.               *)

LEMMA BeginShowsNothing ==
  ASSUME IInv, NEW t \in Txns, Begin(t)
  PROVE  ShowsNothing
<1>1. /\ UNCHANGED <<tables, locks, undo, done, history>>
      /\ pc[t] = "idle"
      /\ \A u \in Txns \ {t} : job'[u] = job[u]
  BY DEF Begin, BeginCreate, BeginCancel, BeginUpdate, IInv, TypeOK
<1>2. \A o \in Orders : olock[o] # t /\ olock[o] \in Txns \cup {NoTxn}
  BY <1>1 DEF IInv, TypeOK, LocksExplained, OrderLockExplained
<1>. QED
  BY <1>1, <1>2 DEF ShowsNothing, SeenProduct, SeenOrder, tables, locks, history

LEMMA LockRowShowsNothing ==
  ASSUME IInv, NEW t \in Txns,
         \/ \E p \in Products : LockProduct(t, p)
         \/ \E s \in Sellers : LockSeller(t, s)
  PROVE  ShowsNothing
<1>. USE DEF tables, handlers, history
<1>1. ASSUME NEW p \in Products, LockProduct(t, p) PROVE ShowsNothing
  <2>1. done[t] = {}
    BY <1>1 DEF IInv, HandlerInv, LockProduct
  <2>2. \A q \in Products : SeenProduct(q)' = SeenProduct(q)
    BY <1>1, <2>1 DEF LockProduct, IInv, TypeOK, SeenProduct
  <2>. QED
    BY <1>1, <2>2 DEF LockProduct, ShowsNothing, SeenOrder
<1>2. ASSUME NEW s \in Sellers, LockSeller(t, s) PROVE ShowsNothing
  BY <1>2 DEF LockSeller, ShowsNothing, SeenProduct, SeenOrder
<1>. QED
  BY <1>1, <1>2

LEMMA InsertShowsNothing ==
  ASSUME IInv, NEW t \in Txns, NEW o \in Orders, InsertOrder(t, o)
  PROVE  ShowsNothing
<1>1. job[t].before = NoOrder /\ job'[t].before = NoOrder
  BY DEF IInv, TypeOK, HandlerInv, InsertOrder, Job
<1>2. \A p \in Products : SeenProduct(p)' = SeenProduct(p)
  BY DEF InsertOrder, SeenProduct
<1>3. \A u \in Txns \ {t} : job'[u] = job[u]
  BY DEF InsertOrder, IInv, TypeOK
<1>4. ASSUME NEW q \in Orders PROVE SeenOrder(q)' = SeenOrder(q)
  <2>1. t # NoTxn /\ olock[q] \in Txns \cup {NoTxn}
    BY Blanks DEF IInv, TypeOK
  <2>2. CASE q = o
    <3>1. olock'[o] = t /\ olock[o] = NoTxn /\ order[o] = NoOrder
      BY DEF InsertOrder, IInv, TypeOK
    <3>. QED
      BY <1>1, <2>1, <2>2, <3>1 DEF SeenOrder
  <2>3. CASE q # o
    <3>1. olock'[q] = olock[q] /\ order'[q] = order[q]
      BY <2>3 DEF InsertOrder, IInv, TypeOK
    <3>. QED
      BY <1>1, <1>3, <2>1, <3>1 DEF SeenOrder
  <2>. QED
    BY <2>2, <2>3
<1>5. \A q \in Orders : SeenOrder(q)' = SeenOrder(q)
  BY <1>4
<1>6. UNCHANGED <<shop, supply, reopened>>
  BY DEF InsertOrder, history
<1>. QED
  BY <1>2, <1>5, <1>6 DEF ShowsNothing

LEMMA LockOrderShowsNothing ==
  ASSUME IInv, NEW t \in Txns, NEW o \in Orders, LockOrder(t, o)
  PROVE  ShowsNothing
<1>1. job'[t].before = order[o] /\ t # NoTxn
  BY Blanks DEF IInv, TypeOK, LockOrder, Job
<1>2. \A u \in Txns \ {t} : job'[u] = job[u]
  BY DEF IInv, TypeOK, LockOrder
<1>3. \A q \in Orders : olock[q] # t
  BY DEF IInv, LocksExplained, OrderLockExplained, LockOrder
<1>4. \A q \in Orders : SeenOrder(q)' = SeenOrder(q)
  BY <1>1, <1>2, <1>3 DEF LockOrder, IInv, TypeOK, SeenOrder, tables
<1>. QED
  BY <1>4 DEF LockOrder, ShowsNothing, SeenProduct, tables, history

(* An UPDATE of a row the transaction holds and has not written yet.       *)
LEMMA WriteShowsNothing ==
  ASSUME IInv, NEW t \in Txns, NEW p \in Products \ done[t], NEW row,
         Write(t, p, row),
         plock[p] \in {t, NoTxn}, plock' = [plock EXCEPT ![p] = t],
         UNCHANGED <<order, shop, olock, slock, pc, job, history>>
  PROVE  ShowsNothing
<1>1. t # NoTxn /\ SeenProduct(p) = product[p]
  BY Blanks DEF SeenProduct
<1>2. plock'[p] = t /\ p \in done'[t] /\ undo'[t][p] = product[p]
  BY DEF IInv, TypeOK, Write
<1>3. SeenProduct(p)' = product[p]
  BY <1>1, <1>2 DEF SeenProduct
<1>4. ASSUME NEW q \in Products \ {p} PROVE SeenProduct(q)' = SeenProduct(q)
  <2>1. /\ plock'[q] = plock[q] /\ product'[q] = product[q] /\ undo'[t][q] = undo[t][q]
        /\ q \in done'[t] <=> q \in done[t]
        /\ \A u \in Txns \ {t} : undo'[u] = undo[u] /\ done'[u] = done[u]
        /\ plock[q] \in Txns \cup {NoTxn}
    BY DEF IInv, TypeOK, Write
  <2>. QED
    BY <2>1 DEF SeenProduct
<1>. QED
  BY <1>1, <1>3, <1>4 DEF ShowsNothing, SeenOrder, history

LEMMA DeductShowsNothing ==
  ASSUME IInv, NEW t \in Txns, NEW p \in Products, Deduct(t, p)
  PROVE  ShowsNothing
<1> DEFINE row == Deducted(product[p], job[t].cart[p])
<1>1. plock[p] = t
  <2>1. CreateCovered(t) /\ p \in Lines(job[t].cart)
    BY DEF IInv, HandlerInv, Deduct
  <2>. QED
    BY <2>1 DEF CreateCovered, AllLocked
<1>2. plock' = [plock EXCEPT ![p] = t]
  BY <1>1 DEF IInv, TypeOK, Deduct, locks
<1>3. /\ p \in Products \ done[t] /\ Write(t, p, row)
      /\ UNCHANGED <<order, shop, olock, slock, pc, job, history>>
  BY DEF Deduct, locks
<1>4. plock[p] \in {t, NoTxn}
  BY <1>1
<1>. HIDE DEF row
<1>. QED
  BY <1>2, <1>3, <1>4, WriteShowsNothing

LEMMA RestoreShowsNothing ==
  ASSUME IInv, NEW t \in Txns, NEW p \in Products, Restore(t, p)
  PROVE  ShowsNothing
BY WriteShowsNothing DEF Restore

LEMMA SetStatusShowsNothing ==
  ASSUME IInv, NEW t \in Txns, SetStatus(t)
  PROVE  ShowsNothing
<1>1. job[t].ord \in Orders /\ olock[job[t].ord] = t /\ t # NoTxn
  BY Blanks DEF IInv, HandlerInv, MoveCovered, SetStatus
<1>2. \A o \in Orders : SeenOrder(o)' = SeenOrder(o)
  BY <1>1 DEF SetStatus, locks, SeenOrder, IInv, TypeOK
<1>. QED
  BY <1>2 DEF SetStatus, ShowsNothing, SeenProduct, locks, history

LEMMA RollbackShowsNothing ==
  ASSUME IInv, NEW t \in Txns, Rollback(t)
  PROVE  ShowsNothing
<1>1. Finished(t) /\ t # NoTxn
  BY FinishFrees, Blanks DEF Rollback, IInv
<1>2. ASSUME NEW p \in Products PROVE SeenProduct(p)' = SeenProduct(p)
  <2>1. /\ plock[p] \in Txns \cup {NoTxn}
        /\ p \in done[t] => plock[p] = t
        /\ product'[p] = IF p \in done[t] THEN undo[t][p] ELSE product[p]
    BY DEF IInv, TypeOK, WritesLocked, Rollback
  <2>. QED
    BY <1>1, <2>1, Blanks DEF Finished, SeenProduct
<1>3. ASSUME NEW o \in Orders PROVE SeenOrder(o)' = SeenOrder(o)
  <2>1. /\ olock[o] \in Txns \cup {NoTxn}
        /\ order'[o] = IF olock[o] = t THEN job[t].before ELSE order[o]
    BY DEF IInv, TypeOK, Rollback
  <2>. QED
    BY <1>1, <2>1, Blanks DEF Finished, SeenOrder
<1>. QED
  BY <1>2, <1>3 DEF Rollback, ShowsNothing

------------------------------------------------------------------------------
(* COMMIT shows the whole of the transaction at once.                      *)

(* OrderBook applies the same rules to a row.                              *)
LEMMA SameRules ==
  /\ Book!NoOrder = NoOrder /\ Book!CustomerCancellable = CustomerCancellable
  /\ \A c : Book!Lines(c) = Lines(c)
  /\ \A row, q : /\ Book!Deducted(row, q) = Deducted(row, q)
                 /\ Book!PutBack(row, q) = PutBack(row, q)
  /\ \A row, q : Book!Sellable(row, q) <=> Sellable(row, q)
  /\ \A row, v, st : Book!EditedStatus(row, v, st) = EditedStatus(row, v, st)
  /\ \A from, to : Book!Restores(from, to) <=> Restores(from, to)
  /\ \A from, to, admin : Book!MayMove(from, to, admin) <=> MayMove(from, to, admin)
<1>1. /\ Book!NoOrder = NoOrder /\ Book!CustomerCancellable = CustomerCancellable
      /\ \A c : Book!Lines(c) = Lines(c)
  BY DEF Book!NoOrder, NoOrder, Book!NoLines, NoLines, Book!CustomerCancellable,
         CustomerCancellable, Book!Lines, Lines
<1>2. \A row, q : /\ Book!Deducted(row, q) = Deducted(row, q)
                 /\ Book!PutBack(row, q) = PutBack(row, q)
  BY DEF Book!Deducted, Deducted, Book!PutBack, PutBack
<1>3. \A row, v, st : Book!EditedStatus(row, v, st) = EditedStatus(row, v, st)
  BY DEF Book!EditedStatus, EditedStatus
<1>4. \A from, to : Book!Restores(from, to) <=> Restores(from, to)
  BY DEF Book!Restores, Restores
<1>5. \A from, to, admin : Book!MayMove(from, to, admin) <=> MayMove(from, to, admin)
  BY DEF Book!MayMove, MayMove, Book!Successors, Successors
<1>6. \A row, q : Book!Sellable(row, q) <=> Sellable(row, q)
  BY DEF Book!Sellable, Sellable
<1>. QED
  BY <1>1, <1>2, <1>3, <1>4, <1>5, <1>6

LEMMA CommitCreatePlaces ==
  ASSUME IInv, NEW t \in Txns, CommitCreate(t)
  PROVE  Book!Place(job[t].ord, job[t].seller, job[t].cart)
<1> DEFINE o == job[t].ord
           c == job[t].cart
<1>1. /\ CreateCovered(t) /\ done[t] = Lines(c) /\ t # NoTxn
      /\ pc[t] = "deducting" /\ Finished(t)
  BY FinishFrees, Blanks DEF IInv, HandlerInv, CommitCreate
<1>2. /\ o \in Orders /\ SeenOrder(o) = NoOrder
      /\ order[o] = [status |-> "pending", cart |-> c] /\ olock[o] = t
  BY <1>1 DEF CreateCovered, SeenOrder
<1>3. Lines(c) \subseteq Products
  BY <1>1, CartLines DEF CreateCovered
<1>4. ASSUME NEW p \in Lines(c)
      PROVE  /\ SeenProduct(p) = undo[t][p] /\ SellerOf[p] = job[t].seller
             /\ Sellable(SeenProduct(p), c[p])
             /\ product[p] = Deducted(SeenProduct(p), c[p])
             /\ plock[p] = t
  BY <1>1 DEF CreateCovered, AllLocked, SeenProduct
<1>5. ASSUME NEW p \in Products
      PROVE  SeenProduct(p)' = IF p \in Lines(c) THEN Deducted(SeenProduct(p), c[p])
                                                 ELSE SeenProduct(p)
  <2>1. product'[p] = product[p] /\ plock[p] \in Txns \cup {NoTxn}
    BY DEF CommitCreate, tables, IInv, TypeOK
  <2>2. CASE p \in Lines(c)
    BY <1>1, <1>4, <2>1, <2>2 DEF Finished, SeenProduct
  <2>3. CASE p \notin Lines(c)
    BY <1>1, <2>1, <2>3 DEF Finished, SeenProduct
  <2>. QED
    BY <2>2, <2>3
<1>6. ASSUME NEW q \in Orders
      PROVE  SeenOrder(q)' = IF q = o THEN [status |-> "pending", cart |-> c]
                                      ELSE SeenOrder(q)
  <2>1. order'[q] = order[q] /\ olock[q] \in Txns \cup {NoTxn}
    BY DEF CommitCreate, tables, IInv, TypeOK
  <2>2. CASE q = o
    BY <1>1, <1>2, <2>1, <2>2 DEF Finished, SeenOrder
  <2>3. CASE q # o
    <3>1. olock[q] # t
      BY <1>1, <2>3 DEF IInv, LocksExplained, OrderLockExplained
    <3>. QED
      BY <1>1, <2>1, <2>3, <3>1 DEF Finished, SeenOrder
  <2>. QED
    BY <2>2, <2>3
<1>7. shop[job[t].seller]
  BY <1>1 DEF CreateCovered
<1>8. UNCHANGED <<shop, supply, reopened>>
  BY DEF CommitCreate, tables, history
<1>9. CommittedOrder' = [CommittedOrder EXCEPT ![o] = [status |-> "pending", cart |-> c]]
  <2>1. /\ CommittedOrder = [q \in Orders |-> SeenOrder(q)]
        /\ CommittedOrder' = [q \in Orders |-> SeenOrder(q)']
    BY Seen DEF CommittedOrder, SeenOrder
  <2>. QED
    BY <1>6, <2>1
<1>10. CommittedProduct' =
         [p \in Products |-> IF p \in Lines(c) THEN Deducted(CommittedProduct[p], c[p])
                                               ELSE CommittedProduct[p]]
  <2>1. /\ CommittedProduct = [p \in Products |-> SeenProduct(p)]
        /\ CommittedProduct' = [p \in Products |-> SeenProduct(p)']
    BY Seen DEF CommittedProduct, SeenProduct
  <2>. QED
    BY <1>5, <2>1
<1>11. CommittedOrder[o] = NoOrder
  BY <1>2, Seen
<1>12. \A p \in Lines(c) : /\ SellerOf[p] = job[t].seller
                           /\ Sellable(CommittedProduct[p], c[p])
  BY <1>3, <1>4, Seen
<1>. QED
  BY <1>7, <1>8, <1>9, <1>10, <1>11, <1>12, SameRules DEF Book!Place

LEMMA CommitStatusMoves ==
  ASSUME IInv, NEW t \in Txns, CommitStatus(t)
  PROVE  \/ Book!Cancel(job[t].ord)
         \/ /\ job[t].to \in Settable /\ job[t].admin \in AdminFlags
            /\ Book!Move(job[t].ord, job[t].to, job[t].admin)
<1> DEFINE o == job[t].ord
           b == job[t].before
<1>1. /\ MoveCovered(t) /\ t # NoTxn /\ Finished(t)
      /\ done[t] = ToRestore(t) /\ o \in Orders /\ olock[o] = t
      /\ order[o] = [b EXCEPT !.status = job[t].to]
  BY FinishFrees, Blanks DEF IInv, HandlerInv, CommitStatus, MoveCovered
<1>2. b \in [status : OrderStatus, cart : Carts]
  BY <1>1 DEF MoveCovered, Accepts, IInv, TypeOK, Job, OrderRow
<1>3. Lines(b.cart) \subseteq Products
  BY <1>2, CartLines
<1>4. ASSUME NEW p \in ToRestore(t)
      PROVE  /\ SeenProduct(p) = undo[t][p] /\ plock[p] = t
             /\ product[p] = PutBack(SeenProduct(p), b.cart[p])
  BY <1>1 DEF IInv, WritesLocked, MoveCovered, SeenProduct
<1>5. ASSUME NEW p \in Products
      PROVE  SeenProduct(p)' = IF p \in ToRestore(t) THEN PutBack(SeenProduct(p), b.cart[p])
                                                     ELSE SeenProduct(p)
  <2>1. product'[p] = product[p] /\ plock[p] \in Txns \cup {NoTxn}
    BY DEF CommitStatus, tables, IInv, TypeOK
  <2>2. CASE p \in ToRestore(t)
    BY <1>1, <1>4, <2>1, <2>2 DEF Finished, SeenProduct
  <2>3. CASE p \notin ToRestore(t)
    BY <1>1, <2>1, <2>3 DEF Finished, SeenProduct
  <2>. QED
    BY <2>2, <2>3
<1>6. ASSUME NEW q \in Orders
      PROVE  SeenOrder(q)' = IF q = o THEN [b EXCEPT !.status = job[t].to]
                                      ELSE SeenOrder(q)
  <2>1. order'[q] = order[q] /\ olock[q] \in Txns \cup {NoTxn}
    BY DEF CommitStatus, tables, IInv, TypeOK
  <2>2. CASE q = o
    BY <1>1, <2>1, <2>2 DEF Finished, SeenOrder
  <2>3. CASE q # o
    <3>1. olock[q] # t
      BY <1>1, <2>3 DEF IInv, LocksExplained, OrderLockExplained
    <3>. QED
      BY <1>1, <2>1, <2>3, <3>1 DEF Finished, SeenOrder
  <2>. QED
    BY <2>2, <2>3
<1>7. /\ CommittedOrder = [q \in Orders |-> SeenOrder(q)]
      /\ CommittedOrder' = [q \in Orders |-> SeenOrder(q)']
      /\ CommittedProduct = [p \in Products |-> SeenProduct(p)]
      /\ CommittedProduct' = [p \in Products |-> SeenProduct(p)']
  BY Seen DEF CommittedOrder, SeenOrder, CommittedProduct, SeenProduct
<1>8. CommittedOrder[o] = b
  BY <1>1, <1>7 DEF SeenOrder
<1>9. CommittedOrder' = [CommittedOrder EXCEPT ![o].status = job[t].to]
  BY <1>1, <1>6, <1>7, <1>8
<1>10. CommittedProduct' = IF Restores(b.status, job[t].to) THEN Book!Returned(b.cart)
                                                         ELSE CommittedProduct
  <2>1. CASE Restores(b.status, job[t].to)
    <3>1. ToRestore(t) = Lines(b.cart)
      BY <2>1 DEF ToRestore
    <3>. QED
      BY <1>5, <1>7, <2>1, <3>1, SameRules DEF Book!Returned
  <2>2. CASE ~Restores(b.status, job[t].to)
    <3>1. ToRestore(t) = {}
      BY <2>2 DEF ToRestore
    <3>. QED
      BY <1>5, <1>7, <2>2, <3>1
  <2>. QED
    BY <2>1, <2>2
<1>11. /\ UNCHANGED <<shop, supply>>
       /\ reopened' = IF b.status = "cancelled" /\ job[t].to # "cancelled"
                        THEN reopened \cup {o} ELSE reopened
  BY DEF CommitStatus, tables
<1>12. CASE job[t].kind = "cancel"
  <2>1. b.status \in CustomerCancellable /\ job[t].to = "cancelled"
    BY <1>1, <1>12 DEF MoveCovered, Accepts
  <2>2. Restores(b.status, job[t].to) /\ reopened' = reopened
    BY <1>11, <2>1 DEF Restores, CustomerCancellable
  <2>. QED
    BY <1>8, <1>9, <1>10, <1>11, <2>1, <2>2, SameRules DEF Book!Cancel
<1>13. CASE job[t].kind = "update"
  <2>1. /\ b # NoOrder /\ MayMove(b.status, job[t].to, job[t].admin)
        /\ b.status = "cancelled" => o \notin reopened
        /\ job[t].to \in Settable /\ job[t].admin \in AdminFlags
    BY <1>1, <1>13 DEF MoveCovered, Accepts
  <2>. QED
    BY <1>8, <1>9, <1>10, <1>11, <2>1, SameRules DEF Book!Move
<1>. QED
  BY <1>1, <1>12, <1>13 DEF MoveCovered

------------------------------------------------------------------------------
(* An autocommit UPDATE of a free row is an edit of the book.              *)

LEMMA EnvironmentEdits ==
  ASSUME IInv, Environment
  PROVE  Book!Next
<1>. USE DEF locks, handlers, history
<1>1. /\ CommittedProduct = [q \in Products |-> SeenProduct(q)]
      /\ CommittedProduct' = [q \in Products |-> SeenProduct(q)']
  BY Seen DEF CommittedProduct, SeenProduct
<1>2. ASSUME UNCHANGED <<order, locks, handlers>>
      PROVE  UNCHANGED CommittedOrder
  BY <1>2 DEF CommittedOrder
<1>3. ASSUME NEW p \in Products, NEW row, plock[p] = NoTxn,
             product' = [product EXCEPT ![p] = row], UNCHANGED <<locks, handlers>>
      PROVE  /\ CommittedProduct[p] = product[p]
             /\ CommittedProduct' = [CommittedProduct EXCEPT ![p] = row]
  <2>1. SeenProduct(p) = product[p] /\ SeenProduct(p)' = row
    BY <1>3 DEF SeenProduct, IInv, TypeOK
  <2>2. \A q \in Products \ {p} : SeenProduct(q)' = SeenProduct(q)
    BY <1>3 DEF SeenProduct, IInv, TypeOK
  <2>. QED
    BY <1>1, <2>1, <2>2
<1>4. ASSUME NEW p \in Products, NEW v \in StockLevels,
             NEW st \in ProductStatus \cup {"keep"}, EditProduct(p, v, st)
      PROVE  Book!Restock(p, v, st)
  <2> DEFINE row == [stock |-> v, status |-> EditedStatus(product[p], v, st)]
  <2>1. plock[p] = NoTxn /\ product' = [product EXCEPT ![p] = row]
    BY <1>4 DEF EditProduct, IInv, TypeOK
  <2>2. UNCHANGED <<locks, handlers>> /\ UNCHANGED <<order, shop, reopened>>
    BY <1>4 DEF EditProduct
  <2>3. row = [stock |-> v, status |-> EditedStatus(CommittedProduct[p], v, st)]
        /\ CommittedProduct[p] = product[p]
    BY <1>3, <2>1, <2>2
  <2>4. CommittedProduct' = [CommittedProduct EXCEPT ![p] = row]
    <3>. HIDE DEF row
    <3>. QED
      BY <1>3, <2>1, <2>2
  <2>5. UNCHANGED CommittedOrder
    BY <1>2, <2>2
  <2>. QED
    BY <1>4, <2>2, <2>3, <2>4, <2>5, SameRules DEF EditProduct, Book!Restock
<1>5. ASSUME NEW p \in Products, NEW st \in ProductStatus, UpdateProductStatus(p, st)
      PROVE  Book!Relist(p, st)
  <2> DEFINE row == [product[p] EXCEPT !.status = st]
  <2>1. plock[p] = NoTxn /\ product' = [product EXCEPT ![p] = row]
    BY <1>5 DEF UpdateProductStatus, IInv, TypeOK
  <2>2. UNCHANGED <<locks, handlers>> /\ UNCHANGED <<order, shop, supply, reopened>>
    BY <1>5 DEF UpdateProductStatus
  <2>3. CommittedProduct[p] = product[p]
        /\ CommittedProduct' = [CommittedProduct EXCEPT ![p] = row]
    <3>. HIDE DEF row
    <3>. QED
      BY <1>3, <2>1, <2>2
  <2>4. UNCHANGED CommittedOrder
    BY <1>2, <2>2
  <2>5. CommittedProduct' = [CommittedProduct EXCEPT ![p].status = st]
    BY <2>3
  <2>. QED
    BY <2>2, <2>4, <2>5 DEF Book!Relist
<1>6. ASSUME NEW s \in Sellers, NEW open \in BOOLEAN, SetShop(s, open)
      PROVE  Book!SetShop(s, open)
  <2>1. UNCHANGED CommittedProduct
    BY <1>6 DEF SetShop, CommittedProduct
  <2>2. UNCHANGED CommittedOrder
    BY <1>2, <1>6 DEF SetShop
  <2>. QED
    BY <1>6, <2>1, <2>2 DEF SetShop, Book!SetShop
<1>7. Book!ProductStatus = ProductStatus
  BY DEF Book!ProductStatus, ProductStatus
<1>. QED
  BY <1>4, <1>5, <1>6, <1>7 DEF Environment, Book!Next

------------------------------------------------------------------------------
LEMMA InitMaps == Init => Book!Init
<1>. SUFFICES ASSUME Init PROVE Book!Init
  OBVIOUS
<1>1. CommittedProduct = product /\ CommittedOrder = order
  BY Blanks DEF Init, CommittedProduct, CommittedOrder
<1>2. Book!NoOrder = NoOrder
  BY SameRules
<1>. QED
  BY <1>1, <1>2 DEF Init, Book!Init

LEMMA StepMaps == IInv /\ [Next]_vars => [Book!Next]_(Book!bookVars)
<1>. SUFFICES ASSUME IInv, [Next]_vars
              PROVE  Book!Next \/ UNCHANGED Book!bookVars
  OBVIOUS
<1>1. ASSUME NEW t \in Txns, Begin(t) PROVE ShowsNothing
  BY <1>1, BeginShowsNothing
<1>2. ASSUME NEW t \in Txns, Granted(t) PROVE ShowsNothing
  BY <1>2, LockRowShowsNothing, LockOrderShowsNothing, RestoreShowsNothing,
     RollbackShowsNothing DEF Granted, RefuseOrder
<1>3. ASSUME NEW t \in Txns, CommitCreate(t) PROVE Book!Next
  <2>1. Book!Place(job[t].ord, job[t].seller, job[t].cart)
    BY <1>3, CommitCreatePlaces
  <2>2. job[t].ord \in Orders /\ job[t].seller \in Sellers /\ job[t].cart \in Carts
    BY <1>3 DEF IInv, HandlerInv, CreateCovered, CommitCreate
  <2>3. Book!Carts = Carts
    BY DEF Book!Carts, Carts, Book!NoLines, NoLines
  <2>. QED
    BY <2>1, <2>2, <2>3 DEF Book!Next
<1>4. ASSUME NEW t \in Txns, CommitStatus(t) PROVE Book!Next
  <2>1. job[t].ord \in Orders
    BY <1>4 DEF IInv, HandlerInv, MoveCovered, CommitStatus
  <2>2. Book!Settable = Settable
    BY DEF Book!Settable, Settable, Book!OrderStatus, OrderStatus
  <2>3. \/ Book!Cancel(job[t].ord)
        \/ /\ job[t].to \in Settable /\ job[t].admin \in AdminFlags
           /\ Book!Move(job[t].ord, job[t].to, job[t].admin)
    BY <1>4, CommitStatusMoves
  <2>. QED
    BY <2>1, <2>2, <2>3 DEF Book!Next
<1>5. ASSUME NEW t \in Txns, Proceed(t) PROVE ShowsNothing \/ Book!Next
  BY <1>3, <1>4, <1>5, InsertShowsNothing, DeductShowsNothing, SetStatusShowsNothing,
     RollbackShowsNothing DEF Proceed, RefuseCreate
<1>6. ASSUME NEW t \in Txns, Fail(t) \/ Victim(t) PROVE ShowsNothing
  BY <1>6, RollbackShowsNothing DEF Fail, Victim
<1>7. CASE UNCHANGED vars
  BY <1>7 DEF vars, tables, locks, handlers, history, Book!bookVars,
              CommittedProduct, CommittedOrder
<1>. QED
  BY <1>1, <1>2, <1>5, <1>6, <1>7, NothingShown, EnvironmentEdits DEF Next

(***************************************************************************)
(* Each handler of orderController.js, however its statements interleave   *)
(* with the others' and wherever it fails, acts on the committed tables    *)
(* at one instant and by the rules of OrderBook, or not at all.            *)
(***************************************************************************)
THEOREM TransactionsAreAtomic == Spec => Atomic
BY InitMaps, StepMaps, Invariance, PTL DEF Spec, Atomic, Book!Spec

------------------------------------------------------------------------------
(***************************************************************************)
(* What is proved of OrderBook holds of what the transactions commit.      *)
(***************************************************************************)
Account == INSTANCE OrderLedgerProofs
             WITH product <- CommittedProduct, order <- CommittedOrder

(* The book whose account is kept is the book that is implemented.         *)
LEMMA SameBook ==
  /\ Book!Init => Account!Init
  /\ [Book!Next]_(Book!bookVars) => [Account!Next]_(Account!bookVars)
  /\ Account!StockConserved => StockConserved
<1>1. Book!Init => Account!Init
  BY DEF Book!Init, Account!Init, Book!NoOrder, Account!NoOrder, Book!NoLines, Account!NoLines
<1>2. [Book!Next]_(Book!bookVars) => [Account!Next]_(Account!bookVars)
  <2>1. UNCHANGED Book!bookVars => UNCHANGED Account!bookVars
    BY DEF Book!bookVars, Account!bookVars
  <2>2. Book!Next => Account!Next
    BY Zenon
       DEF Book!Next, Account!Next, Book!Place, Account!Place, Book!Cancel, Account!Cancel,
           Book!Move, Account!Move, Book!Restock, Account!Restock, Book!Relist, Account!Relist,
           Book!SetShop, Account!SetShop, Book!Carts, Account!Carts, Book!NoLines, Account!NoLines,
           Book!Settable, Account!Settable, Book!OrderStatus, Account!OrderStatus,
           Book!ProductStatus, Account!ProductStatus, Book!NoOrder, Account!NoOrder,
           Book!Lines, Account!Lines, Book!Sellable, Account!Sellable,
           Book!Deducted, Account!Deducted, Book!PutBack, Account!PutBack,
           Book!Returned, Account!Returned, Book!CustomerCancellable, Account!CustomerCancellable,
           Book!MayMove, Account!MayMove, Book!Successors, Account!Successors,
           Book!Restores, Account!Restores, Book!EditedStatus, Account!EditedStatus
  <2>. QED
    BY <2>1, <2>2
<1>3. Account!StockConserved => StockConserved
  BY DEF Account!StockConserved, StockConserved, Ledger!StockConserved,
         Account!Balanced, Ledger!Balanced, Account!Sold, Ledger!Sold, Account!Live, Ledger!Live,
         Account!Units, Ledger!Units, Account!SumFunctionOnSet, Ledger!SumFunctionOnSet,
         Account!FoldFunctionOnSet, Ledger!FoldFunctionOnSet,
         Account!MapThenFoldSet, Ledger!MapThenFoldSet
<1>. QED
  BY <1>1, <1>2, <1>3

(***************************************************************************)
(* createOrder, cancelOrder and updateSellerOrderStatus: in what is        *)
(* committed every unit put on sale is on the shelf or in an order that    *)
(* stands, however the statements of the handlers interleave and wherever  *)
(* they fail, except for products of orders taken out of cancelled.        *)
(***************************************************************************)
THEOREM StockIsConserved == Spec => []StockConserved
<1>1. Account!Init => Account!LedgerInv
  BY Account!AccountInit, OrderDataAssumption DEF Account!OrderDataAssumption
<1>2. Account!LedgerInv /\ [Account!Next]_(Account!bookVars) => Account!LedgerInv'
  BY Account!AccountStep, OrderDataAssumption DEF Account!OrderDataAssumption
<1>3. Account!LedgerInv => Account!StockConserved
  BY DEF Account!LedgerInv
<1>. QED
  BY <1>1, <1>2, <1>3, SameBook, TransactionsAreAtomic, PTL DEF Atomic, Book!Spec
=============================================================================
