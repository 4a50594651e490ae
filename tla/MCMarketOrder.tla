--------------------------- MODULE MCMarketOrder ---------------------------
(***************************************************************************)
(* Instances of MarketOrder for TLC: orders of one buyer for one item.     *)
(***************************************************************************)
EXTENDS MarketOrder, TLC

CONSTANTS o1, o2, buyer, i1

AllByBuyer == [o \in Orders |-> buyer]

PriceTwo == [o \in Orders |-> 2]

NoShares == [o \in Orders |-> [u \in Users |-> 0]]

MarketOps == [o \in Orders |-> {"reserve", "capture", "release"}]

\* Enough for two orders.
Four == [u \in Users |-> 4]

OneItem == [o \in Orders |-> i1]

=============================================================================
