CONSTANTS
  p1 = p1
  p2 = p2
  o1 = o1
  o2 = o2
  s1 = s1
  t1 = t1
  t2 = t2
  NoTxn = NoTxn
  NoId = NoId
  Products = {p1, p2}
  Orders = {o1, o2}
  Sellers = {s1}
  Txns = {t1, t2}
  SellerOf <- MCSellerOf
  Quantities = {0, 1}
  StockLevels = {1}
  MaxSupply = 1
  AdminFlags = {}
SPECIFICATION FairSpec
INVARIANT IInv
PROPERTY Atomic
PROPERTY EveryHandlerEnds
