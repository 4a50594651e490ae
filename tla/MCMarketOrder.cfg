SPECIFICATION FairMarketSpec
CONSTANTS
  o1 = o1  o2 = o2  buyer = buyer  i1 = i1
  NoOrder = NoOrder  NoBuyer = NoBuyer
  Users = {buyer}
  Items = {i1}
  Buyer <- AllByBuyer
  Amount <- PriceTwo
  Share <- NoShares
  Ops <- MarketOps
  Item <- OneItem
  Orders = {o1, o2}
  Calls = {o1, o2}
  Opening <- Four
  MaxFaults = 1  MaxCrashes = 1  MaxSpends = 1
  MaxLost = 1  MaxExpired = 1  MaxRestarts = 1  MaxGoFaults = 1
INVARIANTS AllOrNothing FulfilledIsPaid CapturedIsSold OrderIsSettled
PROPERTY OrderEnds
\* Orders end and nothing starts new ones.
CHECK_DEADLOCK FALSE
