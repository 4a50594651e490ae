------------------------- MODULE MarketReservation -------------------------
(***************************************************************************)
(* Services/MarketPurchaseWalletService.cs: money of a buyer is reserved   *)
(* for an order of the Go backend, then captured, released to the buyer,   *)
(* or distributed to the validators of a case.                             *)
(*                                                                         *)
(* Every step is one awaited call.  A call that has its result stays in    *)
(* its slot as "answered" until the controller's answer has left; the      *)
(* client may be gone by then.                                             *)
(***************************************************************************)
EXTENDS Integers, FiniteSets

CONSTANTS
    Orders,
    Users,
    Buyer,         \* [Orders -> Users]
    Amount,        \* [Orders -> Nat], the price that is reserved
    Share,         \* [Orders -> [Users -> Nat]], what DistributeAsync is asked to pay
    Ops,           \* [Orders -> SUBSET OpNames], the calls clients make for an order
    Opening,       \* [Users -> Nat], wallet balances at first
    Calls,         \* slots of concurrent requests
    NoOrder,       \* the order of an idle slot
    MaxFaults,     \* bound: database or wallet calls that throw
    MaxCrashes,    \* bound: deaths of the service process
    MaxSpends      \* bound: amounts that users spend elsewhere

OpNames == {"reserve", "capture", "release", "distribute"}

ASSUME ReservationAssumption ==
    /\ Buyer \in [Orders -> Users]
    /\ Amount \in [Orders -> Nat \ {0}]
    /\ Share \in [Orders -> [Users -> Nat]]
    /\ Ops \in [Orders -> SUBSET OpNames]
    /\ Opening \in [Users -> Nat]
    /\ NoOrder \notin Orders
    /\ MaxFaults \in Nat /\ MaxCrashes \in Nat /\ MaxSpends \in Nat

VARIABLES
    status,     \* MarketPurchaseReservation.Status, "None" before the insert
    balance,    \* UserWallet.Balance
    debited,    \* history: debits of the buyer less compensations, per order
    refunds,    \* history: credits of ReleaseAsync, per order
    payouts,    \* history: credits of DistributeAsync less compensations, per order and user
    call,       \* the request each slot serves
    faults,
    crashes,
    spends

vars == <<status, balance, debited, refunds, payouts, call, faults, crashes, spends>>

Statuses == {"reserved", "releasing", "captured", "released"}

(***************************************************************************)
(* ReserveAsync     deduct, insert, compensate (the order was reserved     *)
(*                  meanwhile, the debit goes back)                        *)
(* CaptureAsync     capture                                                *)
(* ReleaseAsync     claim, credit, undo, finalize                          *)
(* DistributeAsync  share (about to claim), pay, unpay, reopen, settle     *)
(***************************************************************************)
CallPcs == {"idle", "answered", "deduct", "insert", "compensate", "capture",
            "claim", "credit", "undo", "finalize",
            "share", "pay", "unpay", "reopen", "settle"}

\* ok: the result of an answered call; paid: the recipients credited so far.
CallType == [pc : CallPcs, o : Orders \cup {NoOrder}, ok : BOOLEAN, paid : SUBSET Users]

Idle == [pc |-> "idle", o |-> NoOrder, ok |-> FALSE, paid |-> {}]

TypeOK ==
    /\ status \in [Orders -> Statuses \cup {"None"}]
    /\ balance \in [Users -> Int]
    /\ debited \in [Orders -> Int]
    /\ refunds \in [Orders -> Nat]
    /\ payouts \in [Orders -> [Users -> Int]]
    /\ call \in [Calls -> CallType]
    /\ faults \in Nat /\ crashes \in Nat /\ spends \in Nat

Init ==
    /\ status = [o \in Orders |-> "None"]
    /\ balance = Opening
    /\ debited = [o \in Orders |-> 0]
    /\ refunds = [o \in Orders |-> 0]
    /\ payouts = [o \in Orders |-> [u \in Users |-> 0]]
    /\ call = [s \in Calls |-> Idle]
    /\ faults = 0 /\ crashes = 0 /\ spends = 0

-----------------------------------------------------------------------------

Fault == faults < MaxFaults /\ faults' = faults + 1

SetStatus(o, st) == status' = [status EXCEPT ![o] = st]

At(s, p) == call[s].pc = p

Start(s, o, p) == call' = [call EXCEPT ![s] = [Idle EXCEPT !.pc = p, !.o = o]]

Reply(s, o, ok) == call' = [call EXCEPT ![s] = [Idle EXCEPT !.pc = "answered", !.o = o, !.ok = ok]]

Goto(s, p) == call' = [call EXCEPT ![s].pc = p]

\* A compare-and-set of the status; ModifiedCount = 0 leaves it alone.
CompareAndSet(o, from, to) == status' = IF status[o] = from THEN [status EXCEPT ![o] = to] ELSE status

Add(u, n) == balance' = [balance EXCEPT ![u] = @ + n]

Recipients(o) == {u \in Users : Share[o][u] > 0}

money == <<balance, debited, refunds, payouts>>

-----------------------------------------------------------------------------
(* ReserveAsync.                                                           *)

\* An order that is being released is looked up, not recognised, and debited.
BeginReserve(s, o) ==
    /\ call[s] = Idle /\ "reserve" \in Ops[o]
    /\ CASE status[o] \in {"reserved", "captured"} -> Reply(s, o, TRUE)
         [] status[o] = "released"                 -> Reply(s, o, FALSE)
         [] OTHER                                  -> Start(s, o, "deduct")
    /\ UNCHANGED <<status, money, faults, crashes, spends>>

Deduct(s) ==
    LET o == call[s].o IN
    /\ At(s, "deduct")
    /\ \/ /\ balance[Buyer[o]] >= Amount[o]
          /\ Add(Buyer[o], -Amount[o])
          /\ debited' = [debited EXCEPT ![o] = @ + 1]
          /\ Goto(s, "insert")
          /\ UNCHANGED faults
       \/ /\ \/ balance[Buyer[o]] < Amount[o] /\ UNCHANGED faults
             \/ Fault
          /\ Reply(s, o, FALSE)
          /\ UNCHANGED <<balance, debited>>
    /\ UNCHANGED <<status, refunds, payouts, crashes, spends>>

\* Mutant: the insert is made without the unique index.
InsertUnindexed(s) ==
    /\ At(s, "insert")
    /\ SetStatus(call[s].o, "reserved") /\ Reply(s, call[s].o, TRUE)
    /\ UNCHANGED <<money, faults, crashes, spends>>

\* Only a duplicate key is caught; any other failure keeps the debit.
Insert(s) ==
    LET o == call[s].o IN
    /\ At(s, "insert")
    /\ \/ status[o] = "None" /\ SetStatus(o, "reserved") /\ Reply(s, o, TRUE) /\ UNCHANGED faults
       \/ status[o] # "None" /\ Goto(s, "compensate") /\ UNCHANGED <<status, faults>>
       \/ Fault /\ Reply(s, o, FALSE) /\ UNCHANGED status
    /\ UNCHANGED <<money, crashes, spends>>

\* A failed compensation is logged only; the existing reservation is returned.
Compensate(s) ==
    LET o == call[s].o IN
    /\ At(s, "compensate")
    /\ \/ /\ Add(Buyer[o], Amount[o])
          /\ debited' = [debited EXCEPT ![o] = @ - 1]
          /\ UNCHANGED faults
       \/ Fault /\ UNCHANGED <<balance, debited>>
    /\ Reply(s, o, TRUE)
    /\ UNCHANGED <<status, refunds, payouts, crashes, spends>>

-----------------------------------------------------------------------------
(* CaptureAsync.                                                           *)

BeginCapture(s, o) ==
    /\ call[s] = Idle /\ "capture" \in Ops[o]
    /\ CASE status[o] = "captured"                -> Reply(s, o, TRUE)
         [] status[o] \in {"None", "released"}    -> Reply(s, o, FALSE)
         [] status[o] \in {"reserved", "releasing"} -> Start(s, o, "capture")
    /\ UNCHANGED <<status, money, faults, crashes, spends>>

\* The update is filtered by order and user only.
Capture(s) ==
    LET o == call[s].o IN
    /\ At(s, "capture")
    /\ SetStatus(o, "captured") /\ Reply(s, o, TRUE)
    /\ UNCHANGED <<money, faults, crashes, spends>>

-----------------------------------------------------------------------------
(* ReleaseAsync.                                                           *)

BeginRelease(s, o) ==
    /\ call[s] = Idle /\ "release" \in Ops[o]
    /\ IF status[o] = "reserved" THEN Start(s, o, "claim") ELSE Reply(s, o, FALSE)
    /\ UNCHANGED <<status, money, faults, crashes, spends>>

\* Mutant: the claim is not filtered by status.
ClaimReleaseBlind(s) ==
    /\ At(s, "claim")
    /\ SetStatus(call[s].o, "releasing") /\ Goto(s, "credit")
    /\ UNCHANGED <<money, faults, crashes, spends>>

ClaimRelease(s) ==
    LET o == call[s].o IN
    /\ At(s, "claim")
    /\ CompareAndSet(o, "reserved", "releasing")
    /\ IF status[o] = "reserved" THEN Goto(s, "credit") ELSE Reply(s, o, FALSE)
    /\ UNCHANGED <<money, faults, crashes, spends>>

CreditBuyer(s) ==
    LET o == call[s].o IN
    /\ At(s, "credit")
    /\ \/ /\ Add(Buyer[o], Amount[o])
          /\ refunds' = [refunds EXCEPT ![o] = @ + 1]
          /\ Goto(s, "finalize")
          /\ UNCHANGED faults
       \/ Fault /\ Goto(s, "undo") /\ UNCHANGED <<balance, refunds>>
    /\ UNCHANGED <<status, debited, payouts, crashes, spends>>

UndoRelease(s) ==
    LET o == call[s].o IN
    /\ At(s, "undo")
    /\ CompareAndSet(o, "releasing", "reserved") /\ Reply(s, o, FALSE)
    /\ UNCHANGED <<money, faults, crashes, spends>>

FinalizeRelease(s) ==
    LET o == call[s].o IN
    /\ At(s, "finalize")
    /\ CompareAndSet(o, "releasing", "released") /\ Reply(s, o, status[o] = "releasing")
    /\ UNCHANGED <<money, faults, crashes, spends>>

-----------------------------------------------------------------------------
(* DistributeAsync.  A request whose shares do not add up to the amount is *)
(* refused before anything is claimed.                                     *)

BeginDistribute(s, o) ==
    /\ call[s] = Idle /\ "distribute" \in Ops[o]
    /\ CASE status[o] = "captured" -> Reply(s, o, TRUE)
         [] status[o] = "reserved" -> Start(s, o, "share")
         [] OTHER                  -> Reply(s, o, FALSE)
    /\ UNCHANGED <<status, money, faults, crashes, spends>>

ClaimDistribute(s) ==
    LET o == call[s].o IN
    /\ At(s, "share")
    /\ CompareAndSet(o, "reserved", "releasing")
    /\ IF status[o] = "reserved" THEN Goto(s, "pay") ELSE Reply(s, o, FALSE)
    /\ UNCHANGED <<money, faults, crashes, spends>>

\* One round of the loop over the recipients.
PayRecipient(s) ==
    LET o == call[s].o IN
    /\ At(s, "pay")
    /\ \/ \E u \in Recipients(o) \ call[s].paid :
             /\ Add(u, Share[o][u])
             /\ payouts' = [payouts EXCEPT ![o][u] = @ + 1]
             /\ call' = [call EXCEPT ![s].paid = @ \cup {u}]
             /\ UNCHANGED faults
       \/ /\ Recipients(o) \subseteq call[s].paid
          /\ Goto(s, "settle")
          /\ UNCHANGED <<balance, payouts, faults>>
       \/ /\ Recipients(o) \ call[s].paid # {}
          /\ Fault /\ Goto(s, "unpay")
          /\ UNCHANGED <<balance, payouts>>
    /\ UNCHANGED <<status, debited, refunds, crashes, spends>>

\* Mutant: a recipient already credited is left alone.
UnpayNobody(s) ==
    /\ At(s, "unpay")
    /\ Goto(s, "reopen")
    /\ UNCHANGED <<status, money, faults, crashes, spends>>

\* The compensation of one recipient; a refusal of DeductBalanceAsync is
\* ignored, an exception is logged.
UnpayRecipient(s) ==
    LET o == call[s].o IN
    /\ At(s, "unpay")
    /\ \/ \E u \in call[s].paid :
             /\ \/ /\ balance[u] >= Share[o][u]
                   /\ Add(u, -Share[o][u])
                   /\ payouts' = [payouts EXCEPT ![o][u] = @ - 1]
                   /\ UNCHANGED faults
                \/ /\ \/ balance[u] < Share[o][u] /\ UNCHANGED faults
                      \/ Fault
                   /\ UNCHANGED <<balance, payouts>>
             /\ call' = [call EXCEPT ![s].paid = @ \ {u}]
       \/ /\ call[s].paid = {}
          /\ Goto(s, "reopen")
          /\ UNCHANGED <<balance, payouts, faults>>
    /\ UNCHANGED <<status, debited, refunds, crashes, spends>>

ReopenDistribute(s) ==
    LET o == call[s].o IN
    /\ At(s, "reopen")
    /\ CompareAndSet(o, "releasing", "reserved") /\ Reply(s, o, FALSE)
    /\ UNCHANGED <<money, faults, crashes, spends>>

SettleDistribute(s) ==
    LET o == call[s].o IN
    /\ At(s, "settle")
    /\ CompareAndSet(o, "releasing", "captured") /\ Reply(s, o, status[o] = "releasing")
    /\ UNCHANGED <<money, faults, crashes, spends>>

-----------------------------------------------------------------------------

\* A status write that throws: the exception leaves the service.
WriteThrows(s) ==
    /\ call[s].pc \in {"capture", "claim", "undo", "finalize", "share", "reopen", "settle"}
    /\ Fault
    /\ Reply(s, call[s].o, FALSE)
    /\ UNCHANGED <<status, money, crashes, spends>>

\* The answer of MarketPurchasesController leaves.
Answer(s) ==
    /\ At(s, "answered")
    /\ call' = [call EXCEPT ![s] = Idle]
    /\ UNCHANGED <<status, money, faults, crashes, spends>>

\* A user spends money of the wallet in another part of the system.
Spend(u) ==
    /\ spends < MaxSpends /\ balance[u] > 0
    /\ Add(u, -1)
    /\ spends' = spends + 1
    /\ UNCHANGED <<status, debited, refunds, payouts, call, faults, crashes>>

Crash ==
    /\ crashes < MaxCrashes
    /\ crashes' = crashes + 1
    /\ call' = [s \in Calls |-> Idle]
    /\ UNCHANGED <<status, money, faults, spends>>

Begin(s, o) == BeginReserve(s, o) \/ BeginCapture(s, o) \/ BeginRelease(s, o) \/ BeginDistribute(s, o)

ServiceStep(s) ==
    \/ Deduct(s) \/ Insert(s) \/ Compensate(s) \/ Capture(s)
    \/ ClaimRelease(s) \/ CreditBuyer(s) \/ UndoRelease(s) \/ FinalizeRelease(s)
    \/ ClaimDistribute(s) \/ PayRecipient(s) \/ UnpayRecipient(s)
    \/ ReopenDistribute(s) \/ SettleDistribute(s)
    \/ WriteThrows(s)

Next ==
    \/ \E s \in Calls, o \in Orders : Begin(s, o)
    \/ \E s \in Calls : ServiceStep(s) \/ Answer(s)
    \/ \E u \in Users : Spend(u)
    \/ Crash

Spec == Init /\ [][Next]_vars

-----------------------------------------------------------------------------
(* Properties.                                                             *)

\* Concurrent and repeated ReleaseAsync calls refund an order once, whatever
\* CaptureAsync and DistributeAsync do to it, and whatever fails.
RefundedOnce == \A o \in Orders : refunds[o] <= 1 /\ (status[o] = "reserved" => refunds[o] = 0)

Serving(o) == {s \in Calls : call[s].o = o /\ call[s].pc # "answered"}

\* What the status of an order at rest says about the money.
Settled(o) ==
    LET paid == {u \in Users : payouts[o][u] # 0} IN
    /\ status[o] # "releasing"
    /\ debited[o] = IF status[o] = "None" THEN 0 ELSE 1
    /\ refunds[o] = IF status[o] = "released" THEN 1 ELSE 0
    /\ \A u \in Users : payouts[o][u] \in {0, 1}
    /\ paid = {} \/ (status[o] = "captured" /\ paid = Recipients(o))

\* CaptureAsync writes over whatever has become of the order since it read it;
\* the two properties that follow are about orders nobody captures.
Uncaptured == {o \in Orders : "capture" \notin Ops[o]}

\* Repeated ReserveAsync calls leave one debit, released means refunded, and a
\* distribution pays every recipient or none, when the order's calls have ended.
QuietOrderIsSettled ==
    faults = 0 /\ crashes = 0 => \A o \in Uncaptured : Serving(o) = {} => Settled(o)

\* The orders whose recipients buy nothing themselves: nothing but a
\* compensation, or money spent elsewhere, lowers their balance.
PaysOthers == {o \in Uncaptured : \A p \in Orders : Buyer[p] \notin Recipients(o)}

\* One failed call of DistributeAsync or ReleaseAsync costs nobody money while
\* no user spends a payout before it is taken back: nobody is paid twice, and
\* an order that is paid out is not also refunded.
OneOutcome ==
    faults <= 1 /\ spends = 0 =>
        \A o \in PaysOthers :
            /\ \A u \in Users : payouts[o][u] \in {0, 1}
            /\ refunds[o] > 0 => \A u \in Users : payouts[o][u] = 0

=============================================================================
