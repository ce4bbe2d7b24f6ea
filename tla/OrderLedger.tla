----------------------------- MODULE OrderLedger -----------------------------
(***************************************************************************)
(* The stock account that every history of orders must keep, stated over   *)
(* the atomic specification.                                               *)
(***************************************************************************)
EXTENDS OrderBook, Functions

(* The orders whose goods have left the shelf.                             *)
Live == {o \in Orders : order[o].status \notin {"none", "cancelled"}}

Units(p) == [o \in Orders |-> order[o].cart[p]]
Sold(p)  == SumFunctionOnSet(Units(p), Live)

(***************************************************************************)
(* No line of createOrder sells a unit the shop does not have, whatever    *)
(* orders, cancellations and edits came before: stock stays at or above 0. *)
(***************************************************************************)
StockNeverNegative == \A p \in Products : product[p].stock >= 0

(***************************************************************************)
(* Every unit put on sale is on the shelf or in an order that stands:      *)
(* creating takes exactly the lines, cancelling gives back exactly the     *)
(* lines and only once.  Exempt is a product of an order an administrator  *)
(* took out of "cancelled", where the code takes no stock again.           *)
(***************************************************************************)
Balanced(p) == product[p].stock + Sold(p) = supply[p]

StockConserved ==
  \A p \in Products :
    (\A o \in reopened : order[o].cart[p] = 0) => Balanced(p)

(***************************************************************************)
(* orderController.js:311, "If order is cancelled by seller/admin, restore *)
(* stock": a cancellation gives back what the order took, so that a shelf  *)
(* never holds more units than were ever put on sale, reopened orders      *)
(* included.  (A reopened order alone leaves too few units for it; only    *)
(* its second cancellation makes units that nobody put on sale.)           *)
(***************************************************************************)
NoUnitGivenBackTwice == \A p \in Products : product[p].stock <= supply[p]
=============================================================================
