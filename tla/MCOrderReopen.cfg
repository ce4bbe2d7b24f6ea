CONSTANTS
  p1 = p1
  p2 = p2
  o1 = o1
  o2 = o2
  s1 = s1
  Products = {p1, p2}
  Orders = {o1, o2}
  Sellers = {s1}
  SellerOf <- MCSellerOf
  Quantities = {0, 1, 2}
  StockLevels = {0, 2}
  MaxSupply = 3
  AdminFlags = {TRUE, FALSE}
SPECIFICATION Spec
INVARIANT NoUnitGivenBackTwice
