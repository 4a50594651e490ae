------------------------ MODULE MCMarketReservation ------------------------
(***************************************************************************)
(* Instances of MarketReservation for TLC.                                 *)
(***************************************************************************)
EXTENDS MarketReservation, TLC

CONSTANTS o1, o2, buyer, v1, v2, c1, c2, c3

AllByBuyer == [o \in Orders |-> buyer]

PriceTwo == [o \in Orders |-> 2]

\* The two validators of a case get half the bounty each.
Halves == [o \in Orders |-> [u \in Users |-> IF u = buyer THEN 0 ELSE 1]]

\* o1 is an order of the market, o2 the bounty of a case that its owner may
\* also take back.
MarketAndCase ==
    [o \in Orders |-> IF o = o1 THEN {"reserve", "capture", "release"}
                                ELSE {"reserve", "release", "distribute"}]

FourEach == [u \in Users |-> IF u = buyer THEN 4 ELSE 0]

CallSymmetry == Permutations(Calls) \cup Permutations({v1, v2})

=============================================================================
