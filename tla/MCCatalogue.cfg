CONSTANTS
  h1 = h1
  h2 = h2
  p = p
  i1 = i1
  i2 = i2
  i3 = i3
  l1 = l1
  NoImage = NoImage
  Nothing = Nothing
  Keep = Keep
  Handlers = {h1, h2}
  LastDay = 2
  Prices = {0, 50, 99, 100}
  Products = {p}
  Images = {i1, i2, i3}
  Visits = {l1}
  Loads = {h1, h2}
  Stops = 2
  HotLife = 2
  ApiLife = 3
  Flight = 1
SPECIFICATION Spec
SYMMETRY Symmetry
CHECK_DEADLOCK FALSE
INVARIANT CacheKeepsUp
INVARIANT PricesAgree
INVARIANT ImageThere
INVARIANT DeletedIsGone
INVARIANT NothingOlder
PROPERTY OnlyPastIsSwept
