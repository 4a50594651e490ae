---------------------------- MODULE MarketOrder ----------------------------
(***************************************************************************)
(* The order workflow of the Go backend (handlers/lzt_market_handler.go)   *)
(* on top of MarketReservation: reserve the buyer's money in the feature   *)
(* service, buy the item from the provider, capture or release the money.  *)
(*                                                                         *)
(* processOrderAsync is a goroutine with one call at a time, so the slot   *)
(* of the service that serves order o is o itself.  A client that has      *)
(* given up leaves the call running: the controllers take no cancellation. *)
(***************************************************************************)
EXTENDS MarketReservation, FiniteSets

CONSTANTS
    Items,
    Item,         \* [Orders -> Items], the item each order is for
    NoBuyer,      \* an item the provider has not sold
    MaxLost,      \* bound: requests or answers lost, or slower than the client's 12 s
    MaxExpired,   \* bound: orders that run out of their 300 s
    MaxRestarts,  \* bound: deaths of the Go process
    MaxGoFaults   \* bound: failed writes of the Go backend's own database

ASSUME MarketOrderAssumption ==
    /\ Calls = Orders
    /\ Item \in [Orders -> Items]
    /\ NoBuyer \notin Orders
    /\ \A o \in Orders : Ops[o] = {"reserve", "capture", "release"}
    /\ MaxLost \in Nat /\ MaxExpired \in Nat /\ MaxRestarts \in Nat
    /\ MaxGoFaults \in Nat

VARIABLES
    order,      \* MarketPurchaseOrder.status and, for a failure, what it claims
    flow,       \* where processOrderAsync of each order stands
    sold,       \* the order the provider has sold each item to
    expired,    \* orders whose context is over
    lost,
    restarts,
    goFaults    \* failed writes of the orders; faults counts those of the service

goVars == <<order, flow, sold, expired, lost, restarts, goFaults>>

marketVars == <<vars, goVars>>

\* no_hold   failed with USER_BALANCE_NOT_ENOUGH, "Gagal mengunci saldo"
\* no_sale   failed with any other code before the capture
\* no_capture   failed with CAPTURE_FAILED
OrderStates == {"none", "processing", "no_hold", "no_sale", "no_capture", "fulfilled"}

\* The steps of processOrderAsync; waiting for an answer has a step of its own.
Waiting == {"reserving", "releasing", "capturing"}
FlowPcs == {"new", "balance", "reserve", "supplier", "item", "buy", "release", "capture", "end"} \cup Waiting

MarketTypeOK ==
    /\ TypeOK
    /\ order \in [Orders -> OrderStates]
    /\ flow \in [Orders -> FlowPcs]
    /\ sold \in [Items -> Orders \cup {NoBuyer}]
    /\ expired \subseteq Orders
    /\ lost \in Nat /\ restarts \in Nat /\ goFaults \in Nat

MarketInit ==
    /\ Init
    /\ order = [o \in Orders |-> "none"]
    /\ flow = [o \in Orders |-> "new"]
    /\ sold = [i \in Items |-> NoBuyer]
    /\ expired = {}
    /\ lost = 0 /\ restarts = 0 /\ goFaults = 0

-----------------------------------------------------------------------------

Lose == lost < MaxLost /\ lost' = lost + 1

GoFault == goFaults < MaxGoFaults /\ goFaults' = goFaults + 1

Step(o, p) == flow' = [flow EXCEPT ![o] = p]

\* markOrderFailed and markOrderFulfilled ignore an error of the database.
End(o, st) ==
    /\ Step(o, "end")
    /\ \/ order' = [order EXCEPT ![o] = st] /\ UNCHANGED goFaults
       \/ GoFault /\ UNCHANGED order

\* What a call that is not answered, or answered with an error, leads to.
FailureOf(p) ==
    CASE p \in {"reserve", "reserving"} -> "no_hold"
      [] p \in {"release", "releasing"} -> "no_sale"
      [] p \in {"capture", "capturing"} -> "no_capture"

-----------------------------------------------------------------------------
(* CreatePublicChatGPTOrder.                                               *)

\* A balance that cannot be read is not held against the buyer.  An order that
\* cannot be saved is not found again by the goroutine.
CreateOrder(o) ==
    /\ flow[o] = "new"
    /\ \/ balance[Buyer[o]] >= Amount[o] /\ UNCHANGED lost
       \/ Lose
    /\ \/ order' = [order EXCEPT ![o] = "processing"] /\ Step(o, "balance") /\ UNCHANGED goFaults
       \/ GoFault /\ Step(o, "end") /\ UNCHANGED order
    /\ UNCHANGED <<vars, sold, expired, restarts>>

-----------------------------------------------------------------------------
(* processOrderAsync.                                                      *)

CheckUserBalance(o) ==
    /\ flow[o] = "balance"
    /\ \/ balance[Buyer[o]] <= 0 /\ End(o, "no_hold") /\ UNCHANGED lost
       \/ balance[Buyer[o]] > 0 /\ Step(o, "reserve") /\ UNCHANGED <<order, lost, goFaults>>
       \/ Lose /\ Step(o, "reserve") /\ UNCHANGED <<order, goFaults>>
    /\ UNCHANGED <<vars, sold, expired, restarts>>

\* postMarketWallet: the request reaches the service.
Send(o, p, q) ==
    /\ flow[o] = p /\ o \notin expired
    /\ Step(o, q)
    /\ UNCHANGED <<order, sold, expired, lost, restarts, goFaults>>

SendReserve(o) == Send(o, "reserve", "reserving") /\ BeginReserve(o, o)
SendRelease(o) == Send(o, "release", "releasing") /\ BeginRelease(o, o)
SendCapture(o) == Send(o, "capture", "capturing") /\ BeginCapture(o, o)

\* Mutant: the error of the capture is overlooked.
IgnoreCaptureError(o) ==
    /\ flow[o] \in Waiting
    /\ IF flow[o] = "reserving" /\ call[o].ok
       THEN Step(o, "supplier") /\ UNCHANGED <<order, goFaults>>
       ELSE End(o, IF flow[o] = "capturing" THEN "fulfilled" ELSE FailureOf(flow[o]))
    /\ Answer(o)
    /\ UNCHANGED <<sold, expired, lost, restarts>>

\* Mutant: a reserve that failed is tried again.
RetryReserve(o) ==
    /\ flow[o] \in Waiting
    /\ CASE flow[o] = "reserving" ->
                /\ Step(o, IF call[o].ok THEN "supplier" ELSE "reserve")
                /\ UNCHANGED <<order, goFaults>>
         [] flow[o] = "capturing" /\ call[o].ok -> End(o, "fulfilled")
         [] OTHER -> End(o, FailureOf(flow[o]))
    /\ Answer(o)
    /\ UNCHANGED <<sold, expired, lost, restarts>>

\* The answer arrives: a reserved order goes on, a captured one is fulfilled,
\* and the answer to a release is ignored.
Receive(o) ==
    /\ flow[o] \in Waiting
    /\ CASE flow[o] = "reserving" /\ call[o].ok -> Step(o, "supplier") /\ UNCHANGED <<order, goFaults>>
         [] flow[o] = "capturing" /\ call[o].ok -> End(o, "fulfilled")
         [] OTHER                               -> End(o, FailureOf(flow[o]))
    /\ Answer(o)
    /\ UNCHANGED <<sold, expired, lost, restarts>>

\* Mutant: the client waits without a time limit.
WaitForever(o) ==
    /\ flow[o] \in {"reserve", "release", "capture"}
    /\ Lose \/ (o \in expired /\ UNCHANGED lost)
    /\ End(o, FailureOf(flow[o]))
    /\ UNCHANGED <<vars, sold, expired, restarts>>

\* No answer: the request was not sent or got lost, the client's 12 seconds or
\* the order's 300 are over, or the service died.  The order fails; a call
\* under way goes on without its client.
NoAnswer(o) ==
    /\ flow[o] \in Waiting \cup {"reserve", "release", "capture"}
    /\ \/ Lose
       \/ /\ o \in expired \/ (flow[o] \in Waiting /\ call[o] = Idle)
          /\ UNCHANGED lost
    /\ End(o, FailureOf(flow[o]))
    /\ UNCHANGED <<vars, sold, expired, restarts>>

\* The answer to a client that has given up.
Unheard(o) ==
    /\ flow[o] \notin Waiting
    /\ Answer(o)
    /\ UNCHANGED goVars

\* checkSupplierBalance: too low or a broken integration ends the order, an
\* unknown balance does not.
CheckSupplier(o) ==
    /\ flow[o] = "supplier"
    /\ \E p \in {"item", "release"} : Step(o, p)
    /\ UNCHANGED <<vars, order, sold, expired, lost, restarts, goFaults>>

\* getProviderItemReadiness; the price it brings changes what the order shows,
\* not what is reserved.
CheckItem(o) ==
    /\ flow[o] = "item"
    /\ \/ Step(o, "release")
       \/ o \notin expired /\ Step(o, "buy")
    /\ UNCHANGED <<vars, order, sold, expired, lost, restarts, goFaults>>

Sell(o) == sold[Item[o]] = NoBuyer /\ sold' = [sold EXCEPT ![Item[o]] = o]

\* Mutant: a refusal of the provider is taken for a purchase.
BuyAnyway(o) ==
    /\ flow[o] = "buy"
    /\ \/ Sell(o) /\ Step(o, "capture")
       \/ UNCHANGED sold /\ Step(o, "capture")
    /\ UNCHANGED <<vars, order, expired, lost, restarts, goFaults>>

\* Mutant: the money is not released when the provider refuses.
BuyWithoutRelease(o) ==
    /\ flow[o] = "buy"
    /\ \/ Sell(o) /\ Step(o, "capture") /\ UNCHANGED <<order, goFaults>>
       \/ UNCHANGED sold /\ End(o, "no_sale")
    /\ UNCHANGED <<vars, expired, lost, restarts>>

\* buyChatGPTItem: the provider sells or refuses; with a transport error nobody
\* knows which, and the order is treated as refused.
Buy(o) ==
    /\ flow[o] = "buy"
    /\ \/ o \notin expired /\ Sell(o) /\ Step(o, "capture") /\ UNCHANGED lost
       \/ UNCHANGED <<sold, lost>> /\ Step(o, "release")
       \/ o \notin expired /\ Lose /\ Sell(o) /\ Step(o, "release")
    /\ UNCHANGED <<vars, order, expired, restarts, goFaults>>

-----------------------------------------------------------------------------

\* context.WithTimeout(300 s) of an order runs out.
Expire(o) ==
    /\ flow[o] \notin {"new", "end"} /\ o \notin expired
    /\ Cardinality(expired) < MaxExpired
    /\ expired' = expired \cup {o}
    /\ UNCHANGED <<vars, order, flow, sold, lost, restarts, goFaults>>

\* The Go process dies: its goroutines are gone, nothing resumes them.
Restart ==
    /\ restarts < MaxRestarts
    /\ restarts' = restarts + 1
    /\ flow' = [o \in Orders |-> IF flow[o] = "new" THEN "new" ELSE "end"]
    /\ UNCHANGED <<vars, order, sold, expired, lost, goFaults>>

Serve(o) == ServiceStep(o) /\ UNCHANGED goVars

CrashService == Crash /\ UNCHANGED goVars

\* The buyer's money is also spent elsewhere.
SpendElsewhere == (\E u \in Users : Spend(u)) /\ UNCHANGED goVars

Workflow(o) ==
    \/ CheckUserBalance(o) \/ SendReserve(o) \/ SendRelease(o) \/ SendCapture(o)
    \/ Receive(o) \/ NoAnswer(o)
    \/ CheckSupplier(o) \/ CheckItem(o) \/ Buy(o)

MarketNext ==
    \/ \E o \in Orders : CreateOrder(o) \/ Workflow(o) \/ Serve(o) \/ Unheard(o) \/ Expire(o)
    \/ CrashService \/ SpendElsewhere
    \/ Restart

MarketSpec == MarketInit /\ [][MarketNext]_marketVars

\* A goroutine and a request of the feature service keep running while their
\* process lives: every wait of theirs has a time limit.
FairMarketSpec ==
    /\ MarketSpec
    /\ \A o \in Orders : WF_marketVars(Workflow(o)) /\ WF_marketVars(Serve(o))

-----------------------------------------------------------------------------
(* Properties.                                                             *)

\* A fulfilled order has been bought for the buyer and paid by the buyer, once
\* and for good, whatever was lost, late or dead on the way (processOrderAsync,
\* CaptureAsync, ReleaseAsync).
FulfilledIsPaid ==
    \A o \in Orders :
        order[o] = "fulfilled" =>
            sold[Item[o]] = o /\ status[o] = "captured" /\ debited[o] = 1 /\ refunds[o] = 0

\* Money is captured only for an item that the provider has sold for this order.
CapturedIsSold == \A o \in Orders : status[o] = "captured" => sold[Item[o]] = o

Untroubled == faults = 0 /\ crashes = 0 /\ lost = 0 /\ restarts = 0 /\ goFaults = 0

\* While every call is answered in time a finished order is all or nothing: the
\* item and the payment, or neither.
AllOrNothing ==
    Untroubled /\ expired = {} =>
        \A o \in Orders :
            flow[o] = "end" =>
                \/ order[o] = "fulfilled" /\ sold[Item[o]] = o /\ debited[o] = 1 /\ refunds[o] = 0
                \/ order[o] \in {"no_hold", "no_sale"} /\ sold[Item[o]] # o /\ debited[o] = refunds[o]

\* The buyer pays an order once at most and gets back no more, whatever fails
\* (ReserveAsync keeps its debit when the insert fails, so it must not be
\* called again).  While the feature service neither fails nor dies, what it
\* holds of an order it serves no call of is settled, whichever calls of
\* postMarketWallet are lost, late or not sent: no capture meets a release.
OrderIsSettled ==
    \A o \in Orders :
        /\ refunds[o] <= debited[o] /\ debited[o] <= 1
        /\ faults = 0 /\ crashes = 0 /\ Serving(o) = {} => Settled(o)

\* An order that was accepted is decided, unless the Go process dies or its
\* database fails, whatever happens to the feature service.
OrderEnds ==
    \A o \in Orders :
        order[o] = "processing" ~> (order[o] # "processing" \/ restarts > 0 \/ goFaults > 0)

=============================================================================
