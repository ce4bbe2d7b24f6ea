------------------------------ MODULE MCOrderTxn ------------------------------
EXTENDS OrderTxn, TLC
CONSTANTS p1, p2, o1, o2, s1, t1, t2
MCSellerOf == [p \in Products |-> s1]

(* Transactions, products and orders are interchangeable.                  *)
Symmetry == Permutations(Txns) \cup Permutations(Products) \cup Permutations(Orders)
=============================================================================
