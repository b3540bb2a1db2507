\* Two products and two calls at a time.
CONSTANTS
  p1 = p1  p2 = p2
  Products = {p1, p2}
  MaxCalls = 2
  NoProduct = NoProduct
SPECIFICATION FairPageSpec
INVARIANTS OneRefresh PollsItsScreen
PROPERTIES ShownIsChosen TokenComesBack
