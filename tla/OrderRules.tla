----------------------------- MODULE OrderRules -----------------------------
(***************************************************************************)
(* The data of orders and stock and the pure rules the order handlers      *)
(* apply to one row (backend/controllers/orderController.js).  Shared by   *)
(* the atomic specification OrderBook and by the transactional one,        *)
(* OrderTxn.                                                               *)
(***************************************************************************)
EXTENDS Integers

CONSTANTS
  Products,     \* rows of table products
  Orders,       \* identifiers the orders table can hand out
  Sellers,      \* rows of table sellers, each joined with its users row
  SellerOf,     \* products.seller_id
  Quantities,   \* quantities an order line may carry; 0 stands for no line
  StockLevels,  \* values an edit may write to products.stock_quantity
  MaxSupply,    \* bound on the units of one product ever put on sale
  AdminFlags    \* which of FALSE (a shop), TRUE (an administrator) move orders

ASSUME OrderDataAssumption ==
  /\ SellerOf \in [Products -> Sellers]
  /\ Quantities \subseteq Nat
  /\ 0 \in Quantities
  /\ StockLevels \subseteq Nat
  /\ MaxSupply \in Nat
  /\ AdminFlags \subseteq BOOLEAN

(***************************************************************************)
(* products.status, with draft, inactive, blocked and deleted (the values  *)
(* the order handlers treat alike) written "unlisted".  Stock is kept in   *)
(* Int: that it never drops below zero is a theorem, not a type.           *)
(***************************************************************************)
ProductStatus == {"active", "out_of_stock", "unlisted"}
ProductRow    == [stock : Int, status : ProductStatus]

OrderStatus == {"pending", "confirmed", "packed", "shipped", "delivered",
                "cancelled"}
AsReceived  == OrderStatus \cup {"ready"}   \* mutant: the request's status unmapped
Settable    == OrderStatus \ {"pending"}   \* allowedStatuses of the handler

(* An order's merged lines: quantity per product, 0 where it has no line.  *)
NoLines   == [p \in Products |-> 0]
Carts     == [Products -> Quantities] \ {NoLines}
Lines(c)  == {p \in Products : c[p] > 0}

NoOrder   == [status |-> "none", cart |-> NoLines]
OrderRow  == [status : OrderStatus, cart : Carts] \cup {NoOrder}

(* validTransitions: where a shop may take an order from each status.      *)
Successors(st) ==
  CASE st = "pending"   -> {"confirmed", "cancelled"}
    [] st = "confirmed" -> {"packed", "cancelled"}
    [] st = "packed"    -> {"shipped", "cancelled"}
    [] st = "shipped"   -> {"delivered"}
    [] OTHER            -> {}

CustomerCancellable == {"pending", "confirmed"}

(* An administrator is not held to validTransitions.                       *)
MayMove(from, to, admin) == admin \/ to \in Successors(from)

(* What createOrder asks of the row of each line.                          *)
Sellable(row, q) == row.status = "active" /\ row.stock >= q

(* Whether moving an order restores the stock of its lines.                *)
RestoresAgain(from, to) == to = "cancelled"   \* mutant
Restores(from, to)      == to = "cancelled" /\ from # "cancelled"

(***************************************************************************)
(* The two UPDATE products statements.  MySQL evaluates the assignments    *)
(* left to right, so the IF of the sale sees the reduced stock.            *)
(***************************************************************************)
Deducted(row, q) ==
  [stock  |-> row.stock - q,
   status |-> IF row.stock - q <= 0 THEN "out_of_stock" ELSE row.status]

PutBack(row, q) ==
  [stock  |-> row.stock + q,
   status |-> IF row.status = "out_of_stock" THEN "active" ELSE row.status]

(***************************************************************************)
(* The status editProduct writes when it is given stock v and status st    *)
(* ("keep" when the request leaves status out).                            *)
(***************************************************************************)
EditedStatus(row, v, st) ==
  CASE v = 0 /\ st \in {"keep", "active"} -> "out_of_stock"
    [] v # 0 /\ st = "keep"               -> row.status
    [] OTHER                              -> st
=============================================================================
