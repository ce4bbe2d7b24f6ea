------------------------------ MODULE OrderBook ------------------------------
(***************************************************************************)
(* What the order service promises: placing, cancelling and moving an      *)
(* order each happen at once, with the stock they take or give back.       *)
(* OrderTxn, where every handler is a database transaction of many         *)
(* statements interleaved with the others, is shown to implement this      *)
(* specification.                                                          *)
(***************************************************************************)
EXTENDS OrderRules

VARIABLES
  product,    \* [Products -> ProductRow]
  order,      \* [Orders -> OrderRow]
  shop,       \* [Sellers -> BOOLEAN]: approved, active, and its user active
  supply,     \* history: units of each product ever put on sale
  reopened    \* history: orders an administrator took out of "cancelled"

bookVars == <<product, order, shop, supply, reopened>>

BookTypeOK ==
  /\ product \in [Products -> ProductRow]
  /\ order \in [Orders -> OrderRow]
  /\ shop \in [Sellers -> BOOLEAN]
  /\ supply \in [Products -> Int]
  /\ reopened \subseteq Orders

Init ==
  /\ product \in [Products -> {[stock |-> v, status |-> "active"] : v \in StockLevels}]
  /\ order = [o \in Orders |-> NoOrder]
  /\ shop = [s \in Sellers |-> TRUE]
  /\ supply = [p \in Products |-> product[p].stock]
  /\ reopened = {}

(***************************************************************************)
(* createOrder: every line is of seller s, whose shop is open, is listed,  *)
(* and has the stock; then all of it is taken and the order is pending.    *)
(***************************************************************************)
Place(o, s, c) ==
  /\ order[o] = NoOrder
  /\ shop[s]
  /\ \A p \in Lines(c) : SellerOf[p] = s /\ Sellable(product[p], c[p])
  /\ order' = [order EXCEPT ![o] = [status |-> "pending", cart |-> c]]
  /\ product' = [p \in Products |->
                   IF p \in Lines(c) THEN Deducted(product[p], c[p]) ELSE product[p]]
  /\ UNCHANGED <<shop, supply, reopened>>

(* The stock of a cancelled order goes back, all lines together.           *)
Returned(c) ==
  [p \in Products |-> IF p \in Lines(c) THEN PutBack(product[p], c[p]) ELSE product[p]]

(* cancelOrder, by the customer or an administrator.                       *)
Cancel(o) ==
  /\ order[o].status \in CustomerCancellable
  /\ order' = [order EXCEPT ![o].status = "cancelled"]
  /\ product' = Returned(order[o].cart)
  /\ UNCHANGED <<shop, supply, reopened>>

(* updateSellerOrderStatus, by the shop or by an administrator.            *)
Move(o, to, admin) ==
  LET from == order[o].status IN
  /\ order[o] # NoOrder
  /\ from = "cancelled" => o \notin reopened   \* bound: reopened once
  /\ MayMove(from, to, admin)
  /\ order' = [order EXCEPT ![o].status = to]
  /\ product' = IF Restores(from, to) THEN Returned(order[o].cart) ELSE product
  /\ reopened' = IF from = "cancelled" /\ to # "cancelled"
                   THEN reopened \cup {o} ELSE reopened
  /\ UNCHANGED <<shop, supply>>

(* editProduct: the shop or an administrator writes stock, status or both. *)
Restock(p, v, st) ==
  /\ supply[p] + v - product[p].stock <= MaxSupply   \* bound
  /\ product' = [product EXCEPT ![p] = [stock |-> v, status |-> EditedStatus(@, v, st)]]
  /\ supply' = [supply EXCEPT ![p] = @ + v - product[p].stock]
  /\ UNCHANGED <<order, shop, reopened>>

Relist(p, st) ==
  /\ product' = [product EXCEPT ![p].status = st]
  /\ UNCHANGED <<order, shop, supply, reopened>>

(* approveSeller and blockUser open or shut a shop.                        *)
SetShop(s, open) ==
  /\ shop' = [shop EXCEPT ![s] = open]
  /\ UNCHANGED <<product, order, supply, reopened>>

Next ==
  \/ \E o \in Orders, s \in Sellers, c \in Carts : Place(o, s, c)
  \/ \E o \in Orders : Cancel(o)
  \/ \E o \in Orders, to \in Settable, admin \in AdminFlags : Move(o, to, admin)
  \/ \E p \in Products, v \in StockLevels, st \in ProductStatus \cup {"keep"} :
       Restock(p, v, st)
  \/ \E p \in Products, st \in ProductStatus : Relist(p, st)
  \/ \E s \in Sellers, open \in BOOLEAN : SetShop(s, open)

Spec == Init /\ [][Next]_bookVars
=============================================================================
