SPECIFICATION Spec
CONSTANTS
  o1 = o1  o2 = o2  buyer = buyer  v1 = v1  v2 = v2  c1 = c1  c2 = c2  c3 = c3
  NoOrder = NoOrder
  Users = {buyer, v1, v2}
  Buyer <- AllByBuyer
  Amount <- PriceTwo
  Share <- Halves
  Opening <- FourEach
  Orders = {o1, o2}
  Ops <- MarketAndCase
  Calls = {c1, c2, c3}
  MaxFaults = 2  MaxCrashes = 1  MaxSpends = 1
SYMMETRY CallSymmetry
INVARIANTS RefundedOnce QuietOrderIsSettled OneOutcome
\* An order may be left alone.
CHECK_DEADLOCK FALSE
