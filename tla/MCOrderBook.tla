------------------------------ MODULE MCOrderBook ------------------------------
EXTENDS OrderLedger, TLC
CONSTANTS p1, p2, o1, o2, s1
MCSellerOf == [p \in Products |-> s1]
=============================================================================
