---------------------------- MODULE MarketProofs ----------------------------
(***************************************************************************)
(* MarketReservation and MarketOrder, for any orders, users, amounts and   *)
(* shares, any mix of concurrent calls, and any faults, losses and         *)
(* crashes: an order is refunded at most once, at rest its status says     *)
(* what became of the money, one failure costs nobody anything, and an     *)
(* order of the market is fulfilled only for an item bought and paid.      *)
(***************************************************************************)
EXTENDS MarketOrder, FiniteSetTheorems, TLAPS

-----------------------------------------------------------------------------
(* The inductive invariant behind RefundedOnce.                            *)

\* The call that has claimed the order.
Owns(s, o) == call[s].o = o /\ call[s].pc \in {"credit", "undo", "finalize", "pay", "unpay", "reopen", "settle"}

\* The claim of o is held by at most one call; until that call finalises the
\* release nothing has been refunded.
OneOwner(o) ==
    /\ \A s, t \in Calls : Owns(s, o) /\ Owns(t, o) => s = t
    /\ \A s \in Calls : Owns(s, o) => status[o] \in {"releasing", "captured"}
    /\ \A s \in Calls : Owns(s, o) /\ call[s].pc # "finalize" => refunds[o] = 0
    /\ status[o] \in {"None", "reserved"} => refunds[o] = 0
    /\ refunds[o] <= 1

\* A call that is past its look-up is about an order, and one that changes an
\* existing reservation has found it.
OnOrder ==
    \A s \in Calls :
        /\ call[s].pc # "idle" => call[s].o \in Orders
        /\ call[s].pc \notin {"idle", "answered", "deduct", "insert"} => status[call[s].o] # "None"

IInv == TypeOK /\ OnOrder /\ \A o \in Orders : OneOwner(o)

-----------------------------------------------------------------------------
(* The inductive invariants behind QuietOrderIsSettled and OneOutcome.     *)

\* What holds of every call: nobody captures unasked, and the recipients
\* credited so far are recipients, known to the paying call alone.
CallsSound ==
    \A s \in Calls :
        /\ call[s].pc = "capture" => call[s].o \notin Uncaptured
        /\ call[s].pc \notin {"pay", "unpay", "settle"} => call[s].paid = {}
        /\ \A u \in call[s].paid : u \in Recipients(call[s].o)
        /\ call[s].pc = "settle" => Recipients(call[s].o) \subseteq call[s].paid

\* No wallet is overdrawn.
Solvent == \A u \in Users : balance[u] >= 0

\* The debits of o that its reservation does not account for yet.
Due(o) == {s \in Calls : call[s].o = o /\ call[s].pc \in {"insert", "compensate"}}

Debits(o) ==
    /\ IsFiniteSet(Due(o))
    /\ debited[o] = Cardinality(Due(o)) + (IF status[o] = "None" THEN 0 ELSE 1)

PaidTo(o, P) == \A u \in Users : payouts[o][u] = IF u \in P THEN 1 ELSE 0

\* Without faults and crashes a claim has a holder, who never turns back.
Claimed(o) ==
    /\ status[o] = "releasing" => \E s \in Calls : Owns(s, o)
    /\ \A s \in Calls : Owns(s, o) =>
          /\ status[o] = "releasing"
          /\ call[s].pc \in {"credit", "finalize", "pay", "settle"}
          /\ refunds[o] = IF call[s].pc = "finalize" THEN 1 ELSE 0
          /\ PaidTo(o, call[s].paid)
    /\ status[o] # "releasing" =>
          /\ refunds[o] = IF status[o] = "released" THEN 1 ELSE 0
          /\ PaidTo(o, IF status[o] = "captured" THEN Recipients(o) ELSE {})

QuietInv == faults = 0 /\ crashes = 0 => \A o \in Uncaptured : Debits(o) /\ Claimed(o)

\* A call that has turned back, or is giving a claim up.
Failing(s) == call[s].pc \in {"undo", "unpay", "reopen"}

\* With one fault one call at most turns back, and the money it has to take
\* back is there.
OneFailure ==
    /\ \A s \in Calls : Failing(s) => faults = 1
    /\ \A s, t \in Calls : Failing(s) /\ Failing(t) => s = t
    /\ \A s \in Calls : \A u \in call[s].paid :
          /\ \A p \in Orders : Buyer[p] # u
          /\ (call[s].pc = "pay" /\ faults = 0) \/ call[s].pc = "unpay"
          => balance[u] >= Share[call[s].o][u]

\* The payouts of an order are those its holder knows of; what is open or
\* refunded has none.
Outcome(o) ==
    /\ \A u \in Users : payouts[o][u] \in {0, 1}
    /\ \A s \in Calls : Owns(s, o) => status[o] = "releasing" /\ PaidTo(o, call[s].paid)
    /\ status[o] \in {"None", "reserved"} \/ refunds[o] > 0 => PaidTo(o, {})

OutcomeInv == faults <= 1 /\ spends = 0 => OneFailure /\ \A o \in PaysOthers : Outcome(o)

-----------------------------------------------------------------------------
(* The inductive invariant of MarketOrder, behind FulfilledIsPaid,         *)
(* CapturedIsSold and AllOrNothing.                                        *)

Bought(o) == sold[Item[o]] = o

\* Nothing has gone wrong so far.
Calm == Untroubled /\ expired = {}

Unpaid(o) == debited[o] = 0 /\ refunds[o] = 0
Held(o) == status[o] = "reserved" /\ debited[o] = 1 /\ refunds[o] = 0

\* The call of an order is one the workflow makes, on that order.
CallOfOrder(o) ==
    /\ call[o].pc \in {"idle", "answered", "deduct", "insert", "compensate", "capture",
                       "claim", "credit", "undo", "finalize"}
    /\ call[o].pc # "idle" => call[o].o = o

BeforeReserve(o) == call[o].pc = "idle" /\ status[o] = "None" /\ Unpaid(o) /\ ~Bought(o)

Reserving(o) ==
    /\ ~Bought(o) /\ refunds[o] = 0
    /\ call[o].pc \in {"idle", "deduct", "insert", "answered"}
    /\ call[o].pc = "deduct" => status[o] = "None" /\ debited[o] = 0
    /\ call[o].pc = "insert" => status[o] = "None" /\ debited[o] = 1
    /\ call[o].pc = "answered" /\ call[o].ok => Held(o)
    /\ Calm => call[o].pc # "idle" /\ (call[o].pc = "answered" /\ ~call[o].ok => debited[o] = 0)

BeforeBuy(o) == call[o].pc = "idle" /\ Held(o) /\ ~Bought(o)

BeforeRelease(o) == call[o].pc = "idle" /\ Held(o) /\ (Calm => ~Bought(o))

Releasing(o) ==
    /\ debited[o] = 1
    /\ call[o].pc \in {"idle", "claim", "credit", "undo", "finalize", "answered"}
    /\ Calm =>
          /\ ~Bought(o)
          /\ call[o].pc \notin {"idle", "undo"}
          /\ call[o].pc = "claim" => status[o] = "reserved"
          /\ refunds[o] = IF call[o].pc \in {"claim", "credit"} THEN 0 ELSE 1

BeforeCapture(o) == call[o].pc = "idle" /\ Held(o) /\ Bought(o)

Capturing(o) ==
    /\ Bought(o) /\ debited[o] = 1 /\ refunds[o] = 0
    /\ call[o].pc \in {"idle", "capture", "answered"}
    /\ call[o].pc = "answered" /\ call[o].ok => status[o] = "captured"
    /\ Calm => call[o].pc # "idle" /\ (call[o].pc = "answered" => call[o].ok)

\* A goroutine that has ended may leave a call behind, but not if it fulfilled
\* the order, nor if nothing went wrong.
Ended(o) ==
    /\ order[o] = "fulfilled" =>
          call[o].pc = "idle" /\ Bought(o) /\ status[o] = "captured" /\ debited[o] = 1 /\ refunds[o] = 0
    /\ Calm =>
          /\ call[o].pc = "idle"
          /\ \/ order[o] = "fulfilled"
             \/ order[o] \in {"no_hold", "no_sale"} /\ ~Bought(o) /\ debited[o] = refunds[o]

Journey(o) ==
    /\ CallOfOrder(o)
    /\ status[o] = "captured" \/ call[o].pc = "capture" => Bought(o)
    /\ flow[o] # "end" => order[o] # "fulfilled"
    /\ flow[o] \in {"new", "balance", "reserve"} => BeforeReserve(o)
    /\ flow[o] = "reserving" => Reserving(o)
    /\ flow[o] \in {"supplier", "item", "buy"} => BeforeBuy(o)
    /\ flow[o] = "release" => BeforeRelease(o)
    /\ flow[o] = "releasing" => Releasing(o)
    /\ flow[o] = "capture" => BeforeCapture(o)
    /\ flow[o] = "capturing" => Capturing(o)
    /\ flow[o] = "end" => Ended(o)

MarketInv == IInv /\ MarketTypeOK /\ \A o \in Orders : Journey(o)

\* What the service has booked for an order its goroutine alone makes calls
\* of: the debit of one reserve, and while nothing fails what the step of the
\* call in progress says.
BooksFit(o) ==
    /\ \A u \in Users : payouts[o][u] = 0
    /\ refunds[o] <= debited[o] /\ debited[o] \in {0, 1}
    /\ call[o].pc # "compensate"
    /\ call[o].pc = "deduct" => debited[o] = 0
    /\ call[o].pc = "insert" => debited[o] = 1 /\ refunds[o] = 0
    /\ call[o].pc \in {"deduct", "insert"} <=> status[o] = "None" /\ call[o].pc \notin {"idle", "answered"}
    /\ status[o] # "None" => debited[o] = 1
    /\ faults = 0 /\ crashes = 0 =>
          /\ call[o].pc \in {"idle", "answered"} =>
                /\ status[o] # "releasing"
                /\ debited[o] = IF status[o] = "None" THEN 0 ELSE 1
          /\ call[o].pc \in {"claim", "capture"} => status[o] = "reserved"
          /\ call[o].pc \in {"credit", "finalize"} => status[o] = "releasing"
          /\ call[o].pc # "undo"
          /\ refunds[o] = IF status[o] = "released" \/ call[o].pc = "finalize" THEN 1 ELSE 0

AllBooksFit == \A o \in Orders : BooksFit(o)

-----------------------------------------------------------------------------
Owning == {"credit", "undo", "finalize", "pay", "unpay", "reopen", "settle"}

\* A step that fails at most once keeps count.
LEMMA FaultCounted == ASSUME TypeOK, faults' = faults \/ Fault PROVE faults' \in Nat
BY DEF TypeOK, Fault

\* A call that has its result is answered and stays on its order.
LEMMA Replied ==
  ASSUME TypeOK, NEW s \in Calls, NEW o \in Orders, NEW ok \in BOOLEAN, Reply(s, o, ok)
  PROVE  /\ call' \in [Calls -> CallType]
         /\ call'[s].pc = "answered" /\ call'[s].o = o
         /\ call'[s].ok = ok /\ call'[s].paid = {}
         /\ \A t \in Calls : t # s => call'[t] = call[t]
<1> DEFINE c == [Idle EXCEPT !.pc = "answered", !.o = o, !.ok = ok]
<1>1. c \in CallType /\ c.pc = "answered" /\ c.o = o /\ c.ok = ok /\ c.paid = {}
  BY DEF Idle, CallType, CallPcs
<1>2. call' = [call EXCEPT ![s] = c]
  BY DEF Reply
<1> HIDE DEF c
<1> QED
  BY <1>1, <1>2 DEF TypeOK

\* A request takes an idle slot.
LEMMA Started ==
  ASSUME TypeOK, NEW s \in Calls, NEW o \in Orders, NEW p \in CallPcs, Start(s, o, p)
  PROVE  /\ call' \in [Calls -> CallType]
         /\ call'[s].pc = p /\ call'[s].o = o /\ call'[s].paid = {}
         /\ \A t \in Calls : t # s => call'[t] = call[t]
<1> DEFINE c == [Idle EXCEPT !.pc = p, !.o = o]
<1>1. c \in CallType /\ c.pc = p /\ c.o = o /\ c.paid = {}
  BY DEF Idle, CallType
<1>2. call' = [call EXCEPT ![s] = c]
  BY DEF Start
<1> HIDE DEF c
<1> QED
  BY <1>1, <1>2 DEF TypeOK

\* A call that goes on stays on its order.
LEMMA Moved ==
  ASSUME TypeOK, NEW s \in Calls, NEW p \in CallPcs, Goto(s, p)
  PROVE  /\ call' \in [Calls -> CallType]
         /\ call'[s].pc = p /\ call'[s].o = call[s].o
         /\ call'[s].ok = call[s].ok /\ call'[s].paid = call[s].paid
         /\ \A t \in Calls : t # s => call'[t] = call[t]
BY DEF TypeOK, Goto, CallType

\* What a step of call s on order v may change: its own slot, the status of v
\* (never back to absent), the money.
Touches(s, v) ==
    /\ call' \in [Calls -> CallType]
    /\ \A t \in Calls : t # s => call'[t] = call[t]
    /\ call'[s].pc = "idle" \/ call'[s].o = v
    /\ \E st \in Statuses \cup {status[v]} : status' = [status EXCEPT ![v] = st]
    /\ \E n \in Nat : refunds' = [refunds EXCEPT ![v] = n]
    /\ balance' \in [Users -> Int] /\ debited' \in [Orders -> Int]
    /\ payouts' \in [Orders -> [Users -> Int]]
    /\ faults' \in Nat /\ crashes' \in Nat /\ spends' \in Nat
    /\ call'[s].pc \notin {"idle", "answered", "deduct", "insert"} => status'[v] # "None"

\* Such a step keeps the invariant if it keeps the part about its own order.
LEMMA TouchKept ==
  ASSUME IInv, NEW s \in Calls, NEW v \in Orders, Touches(s, v), OneOwner(v)'
  PROVE  IInv'
<1> USE DEF IInv
<1>1. TypeOK'
  <2>1. status' \in [Orders -> Statuses \cup {"None"}]
    BY DEF Touches, TypeOK
  <2>2. refunds' \in [Orders -> Nat]
    BY DEF Touches, TypeOK
  <2> QED
    BY <2>1, <2>2 DEF Touches, TypeOK
<1>2. \A e \in Orders : status[e] # "None" => status'[e] # "None"
  BY DEF Touches, TypeOK, Statuses
<1>3. OnOrder'
  <2> SUFFICES ASSUME NEW t \in Calls
               PROVE  /\ call'[t].pc # "idle" => call'[t].o \in Orders
                      /\ call'[t].pc \notin {"idle", "answered", "deduct", "insert"}
                            => status'[call'[t].o] # "None"
    BY DEF OnOrder
  <2>1. CASE t = s
    BY <2>1 DEF Touches
  <2>2. CASE t # s
    BY <1>2, <2>2 DEF Touches, OnOrder
  <2> QED
    BY <2>1, <2>2
<1>4. ASSUME NEW e \in Orders PROVE OneOwner(e)'
  <2>1. CASE e = v
    BY <2>1
  <2>2. CASE e # v
    <3>1. status'[e] = status[e] /\ refunds'[e] = refunds[e]
      BY <2>2 DEF Touches, TypeOK
    <3>2. \A t \in Calls : Owns(t, e)' => Owns(t, e) /\ call'[t] = call[t]
      BY <2>2 DEF Touches, Owns
    <3> QED
      BY <3>1, <3>2 DEF OneOwner
  <2> QED
    BY <2>1, <2>2
<1> QED
  BY <1>1, <1>3, <1>4

\* A step after which s does not hold the claim, and that refunds nothing,
\* keeps the part about v unless it reopens v.
LEMMA BystanderKept ==
  ASSUME IInv, NEW s \in Calls, NEW v \in Orders, Touches(s, v),
         call'[s].pc \notin Owning, refunds' = refunds,
         \/ status'[v] \in {status[v], "captured"}
         \/ status[v] = "None" /\ status'[v] = "reserved"
  PROVE  IInv'
<1>1. \A t \in Calls : Owns(t, v)' => Owns(t, v) /\ call'[t] = call[t]
  BY DEF Touches, Owns, Owning
<1>2. OneOwner(v)
  BY DEF IInv
<1>3. OneOwner(v)'
  BY <1>1, <1>2 DEF OneOwner
<1> QED
  BY <1>3, TouchKept

\* The look-ups at the start of the four operations only fill a slot.
LEMMA BeginKept ==
  ASSUME IInv, NEW s \in Calls, NEW o \in Orders, Begin(s, o)
  PROVE  IInv'
<1> USE DEF IInv
<1>1. /\ UNCHANGED <<status, money, faults, crashes, spends>>
      /\ \/ \E ok \in BOOLEAN : Reply(s, o, ok)
         \/ Start(s, o, "deduct")
         \/ status[o] # "None" /\ \E p \in {"capture", "claim", "share"} : Start(s, o, p)
  BY DEF Begin, BeginReserve, BeginCapture, BeginRelease, BeginDistribute, TypeOK, Statuses
<1>2. /\ call' \in [Calls -> CallType]
      /\ \A t \in Calls : t # s => call'[t] = call[t]
      /\ call'[s].o = o
      /\ \/ call'[s].pc \in {"answered", "deduct"}
         \/ status[o] # "None" /\ call'[s].pc \in {"capture", "claim", "share"}
  BY <1>1, Replied, Started DEF CallPcs
<1>3. Touches(s, o)
  BY <1>1, <1>2 DEF Touches, TypeOK, money
<1> QED
  BY <1>1, <1>2, <1>3, BystanderKept DEF money, Owning

\* The steps of ReserveAsync: the insert finds no reservation, so nothing was
\* claimed or refunded before.
LEMMA ReserveKept ==
  ASSUME IInv, NEW s \in Calls, Deduct(s) \/ Insert(s) \/ Compensate(s)
  PROVE  IInv'
<1> USE ReservationAssumption DEF IInv
<1>1. PICK v \in Orders : call[s].o = v
  BY DEF OnOrder, Deduct, Insert, Compensate, At
<1>2. /\ UNCHANGED <<refunds, payouts, crashes, spends>> /\ faults' \in Nat
      /\ balance' \in [Users -> Int] /\ debited' \in [Orders -> Int]
  <2>1. Amount[v] \in Int /\ -Amount[v] \in Int /\ Buyer[v] \in Users
    OBVIOUS
  <2>2. CASE Deduct(s)
    <3>1. UNCHANGED <<refunds, payouts, crashes, spends>>
      BY <2>2 DEF Deduct
    <3>2. faults' \in Nat
      <4>1. faults' = faults \/ Fault
        BY <2>2 DEF Deduct
      <4> QED
        BY <4>1, FaultCounted
    <3>3. balance' \in [Users -> Int]
      <4>1. balance' = balance \/ balance' = [balance EXCEPT ![Buyer[v]] = @ + (-Amount[v])]
        BY <1>1, <2>2 DEF Deduct, Add
      <4> QED
        BY <2>1, <4>1 DEF TypeOK
    <3>4. debited' \in [Orders -> Int]
      <4>1. debited' = debited \/ debited' = [debited EXCEPT ![v] = @ + 1]
        BY <1>1, <2>2 DEF Deduct
      <4> QED
        BY <4>1 DEF TypeOK
    <3> QED
      BY <3>1, <3>2, <3>3, <3>4
  <2>3. CASE Insert(s)
    <3>1. UNCHANGED <<balance, debited, refunds, payouts, crashes, spends>>
      BY <2>3 DEF Insert, money
    <3>2. faults' \in Nat
      <4>1. faults' = faults \/ Fault
        BY <2>3 DEF Insert
      <4> QED
        BY <4>1, FaultCounted
    <3> QED
      BY <3>1, <3>2 DEF TypeOK
  <2>4. CASE Compensate(s)
    BY <1>1, <2>1, <2>4 DEF Compensate, Add, Fault, TypeOK
  <2> QED
    BY <2>2, <2>3, <2>4
<1>3. \/ status' = status
      \/ status[v] = "None" /\ status' = [status EXCEPT ![v] = "reserved"]
  BY <1>1 DEF Deduct, Insert, Compensate, SetStatus
<1>4. \/ \E ok \in BOOLEAN : Reply(s, v, ok)
      \/ Goto(s, "insert")
      \/ Goto(s, "compensate") /\ status[v] # "None" /\ status' = status
  BY <1>1 DEF Deduct, Insert, Compensate
<1>5. /\ call' \in [Calls -> CallType]
      /\ \A t \in Calls : t # s => call'[t] = call[t]
      /\ call'[s].o = v
      /\ \/ call'[s].pc \in {"answered", "insert"}
         \/ call'[s].pc = "compensate" /\ status'[v] # "None"
  BY <1>1, <1>4, Replied, Moved DEF CallPcs
<1>6. Touches(s, v)
  BY <1>2, <1>3, <1>5 DEF Touches, TypeOK, Statuses
<1>7. status'[v] = status[v] \/ (status[v] = "None" /\ status'[v] = "reserved")
  BY <1>3 DEF TypeOK
<1> QED
  BY <1>2, <1>5, <1>6, <1>7, BystanderKept DEF Owning

\* CaptureAsync writes its status over anything, but refunds nothing.
LEMMA CaptureKept == ASSUME IInv, NEW s \in Calls, Capture(s) PROVE IInv'
<1> USE DEF IInv
<1>1. PICK v \in Orders : call[s].o = v
  BY DEF OnOrder, Capture, At
<1>2. /\ UNCHANGED <<balance, debited, refunds, payouts, faults, crashes, spends>>
      /\ status' = [status EXCEPT ![v] = "captured"]
  BY <1>1 DEF Capture, SetStatus, money
<1>3. /\ call' \in [Calls -> CallType]
      /\ \A t \in Calls : t # s => call'[t] = call[t]
      /\ call'[s].o = v /\ call'[s].pc = "answered"
  BY <1>1, Replied DEF Capture
<1>4. Touches(s, v)
  BY <1>2, <1>3 DEF Touches, TypeOK, Statuses
<1> QED
  BY <1>2, <1>3, <1>4, BystanderKept DEF Owning, TypeOK

\* A status write that throws, and an answer that leaves, end a call; a claim
\* it held is held by nobody from then on.
LEMMA GoneKept ==
  ASSUME IInv, NEW s \in Calls, WriteThrows(s) \/ Answer(s)
  PROVE  IInv'
<1> USE DEF IInv
<1>1. PICK v \in Orders : call[s].o = v
  BY DEF OnOrder, WriteThrows, Answer, At
<1>2. UNCHANGED <<status, balance, debited, refunds, payouts, crashes, spends>> /\ faults' \in Nat
  <2>1. CASE WriteThrows(s)
    BY <2>1 DEF WriteThrows, money, Fault, TypeOK
  <2>2. CASE Answer(s)
    BY <2>2 DEF Answer, money, TypeOK
  <2> QED
    BY <2>1, <2>2
<1>3. /\ call' \in [Calls -> CallType]
      /\ \A t \in Calls : t # s => call'[t] = call[t]
      /\ (call'[s].pc = "answered" /\ call'[s].o = v) \/ call'[s].pc = "idle"
  <2>1. CASE WriteThrows(s)
    BY <1>1, <2>1, Replied DEF WriteThrows
  <2>2. CASE Answer(s)
    BY <2>2 DEF Answer, Idle, CallType, CallPcs, TypeOK
  <2> QED
    BY <2>1, <2>2
<1>4. Touches(s, v)
  BY <1>2, <1>3 DEF Touches, TypeOK
<1> QED
  BY <1>2, <1>3, <1>4, BystanderKept DEF Owning

\* One call finds the status reserved and gets the claim; a reserved order has
\* no other holder and no refund.
LEMMA ClaimKept ==
  ASSUME IInv, NEW s \in Calls, ClaimRelease(s) \/ ClaimDistribute(s)
  PROVE  IInv'
<1> USE DEF IInv
<1>1. PICK v \in Orders : call[s].o = v
  BY DEF OnOrder, ClaimRelease, ClaimDistribute, At
<1>2. /\ UNCHANGED <<balance, debited, refunds, payouts, faults, crashes, spends>>
      /\ \/ status[v] # "reserved" /\ status' = status /\ Reply(s, v, FALSE)
         \/ /\ status[v] = "reserved" /\ status' = [status EXCEPT ![v] = "releasing"]
            /\ \E p \in {"credit", "pay"} : Goto(s, p)
  BY <1>1 DEF ClaimRelease, ClaimDistribute, CompareAndSet, money
<1>3. /\ call' \in [Calls -> CallType]
      /\ \A t \in Calls : t # s => call'[t] = call[t]
      /\ call'[s].o = v
      /\ \/ status[v] # "reserved" /\ call'[s].pc = "answered"
         \/ status[v] = "reserved" /\ call'[s].pc \in {"credit", "pay"}
  BY ZenonT(60), <1>1, <1>2, Replied, Moved DEF CallPcs
<1>4. Touches(s, v)
  <2>1. \E st \in Statuses \cup {status[v]} : status' = [status EXCEPT ![v] = st]
    BY <1>2 DEF TypeOK, Statuses
  <2>2. call'[s].pc \notin {"idle", "answered", "deduct", "insert"} => status'[v] # "None"
    BY <1>2, <1>3 DEF TypeOK
  <2>3. \E n \in Nat : refunds' = [refunds EXCEPT ![v] = n]
    BY <1>2 DEF TypeOK
  <2> QED
    BY <1>2, <1>3, <2>1, <2>2, <2>3 DEF Touches, TypeOK
<1>5. CASE status[v] # "reserved"
  BY <1>2, <1>3, <1>4, <1>5, BystanderKept DEF Owning
<1>6. CASE status[v] = "reserved"
  <2>1. OneOwner(v)
    OBVIOUS
  <2>2. \A t \in Calls : Owns(t, v)' => t = s
    BY <1>3, <1>6, <2>1 DEF OneOwner, Owns
  <2>3. status'[v] = "releasing" /\ refunds'[v] = 0
    BY <1>2, <1>6, <2>1 DEF OneOwner, TypeOK
  <2>4. OneOwner(v)'
    BY <2>2, <2>3 DEF OneOwner
  <2> QED
    BY <1>4, <2>4, TouchKept
<1> QED
  BY <1>5, <1>6

\* The holder of the claim refunds once and moves on to finalise.
LEMMA CreditKept == ASSUME IInv, NEW s \in Calls, CreditBuyer(s) PROVE IInv'
<1> USE ReservationAssumption DEF IInv
<1>1. PICK v \in Orders : call[s].o = v
  BY DEF OnOrder, CreditBuyer, At
<1>2. OneOwner(v) /\ Owns(s, v) /\ refunds[v] = 0
  BY <1>1 DEF OneOwner, Owns, CreditBuyer, At
<1>3. /\ UNCHANGED <<status, debited, payouts, crashes, spends>> /\ faults' \in Nat
      /\ balance' \in [Users -> Int]
      /\ \/ Goto(s, "finalize") /\ refunds' = [refunds EXCEPT ![v] = 1]
         \/ Goto(s, "undo") /\ refunds' = refunds
  BY <1>1, <1>2 DEF CreditBuyer, Add, Fault, TypeOK
<1>4. /\ call' \in [Calls -> CallType]
      /\ \A t \in Calls : t # s => call'[t] = call[t]
      /\ call'[s].o = v
      /\ \/ call'[s].pc = "finalize" /\ refunds' = [refunds EXCEPT ![v] = 1]
         \/ call'[s].pc = "undo" /\ refunds' = refunds
  BY <1>1, <1>3, Moved DEF CallPcs
<1>5. Touches(s, v)
  <2>1. \E n \in Nat : refunds' = [refunds EXCEPT ![v] = n]
    BY <1>4 DEF TypeOK
  <2>2. status'[v] # "None" /\ status' = [status EXCEPT ![v] = status[v]]
    BY <1>2, <1>3 DEF OneOwner, TypeOK
  <2> QED
    BY <1>3, <1>4, <2>1, <2>2 DEF Touches, TypeOK
<1>6. OneOwner(v)'
  <2>1. \A t \in Calls : Owns(t, v)' => t = s
    BY ZenonT(60), <1>2, <1>4 DEF OneOwner, Owns
  <2>2. status'[v] \in {"releasing", "captured"}
    BY <1>2, <1>3 DEF OneOwner
  <2>3. refunds'[v] <= 1 /\ (call'[s].pc # "finalize" => refunds'[v] = 0)
    BY <1>2, <1>4 DEF TypeOK
  <2> QED
    BY <2>1, <2>2, <2>3 DEF OneOwner
<1> QED
  BY <1>5, <1>6, TouchKept

\* A rollback reopens an order only for the holder, who has refunded nothing.
LEMMA ReopenKept ==
  ASSUME IInv, NEW s \in Calls, UndoRelease(s) \/ ReopenDistribute(s)
  PROVE  IInv'
<1> USE DEF IInv
<1>1. PICK v \in Orders : call[s].o = v
  BY DEF OnOrder, UndoRelease, ReopenDistribute, At
<1>2. OneOwner(v) /\ Owns(s, v) /\ refunds[v] = 0
  BY <1>1 DEF OneOwner, Owns, UndoRelease, ReopenDistribute, At
<1>3. /\ UNCHANGED <<balance, debited, refunds, payouts, faults, crashes, spends>>
      /\ status' = status \/ status' = [status EXCEPT ![v] = "reserved"]
  BY <1>1 DEF UndoRelease, ReopenDistribute, CompareAndSet, money
<1>4. /\ call' \in [Calls -> CallType]
      /\ \A t \in Calls : t # s => call'[t] = call[t]
      /\ call'[s].o = v /\ call'[s].pc = "answered"
  BY <1>1, Replied DEF UndoRelease, ReopenDistribute
<1>5. Touches(s, v)
  BY <1>3, <1>4 DEF Touches, TypeOK, Statuses
<1>6. OneOwner(v)'
  <2>1. \A t \in Calls : ~Owns(t, v)'
    BY <1>2, <1>4 DEF OneOwner, Owns
  <2> QED
    BY <1>2, <1>3, <2>1 DEF OneOwner
<1> QED
  BY <1>5, <1>6, TouchKept

\* Finalising a release or a distribution closes the order.
LEMMA CloseKept ==
  ASSUME IInv, NEW s \in Calls, FinalizeRelease(s) \/ SettleDistribute(s)
  PROVE  IInv'
<1> USE DEF IInv
<1>1. PICK v \in Orders : call[s].o = v
  BY DEF OnOrder, FinalizeRelease, SettleDistribute, At
<1>2. OneOwner(v) /\ Owns(s, v)
  BY <1>1 DEF Owns, FinalizeRelease, SettleDistribute, At
<1>3. /\ UNCHANGED <<balance, debited, refunds, payouts, faults, crashes, spends>>
      /\ \/ status' = status
         \/ \E st \in {"released", "captured"} : status' = [status EXCEPT ![v] = st]
  BY <1>1 DEF FinalizeRelease, SettleDistribute, CompareAndSet, money
<1>4. /\ call' \in [Calls -> CallType]
      /\ \A t \in Calls : t # s => call'[t] = call[t]
      /\ call'[s].o = v /\ call'[s].pc = "answered"
  BY <1>1, Replied DEF FinalizeRelease, SettleDistribute
<1>5. Touches(s, v)
  BY <1>3, <1>4 DEF Touches, TypeOK, Statuses
<1>6. OneOwner(v)'
  <2>1. \A t \in Calls : ~Owns(t, v)'
    BY <1>2, <1>4 DEF OneOwner, Owns
  <2>2. status'[v] \notin {"None", "reserved"}
    BY <1>2, <1>3 DEF OneOwner, TypeOK
  <2> QED
    BY <1>2, <1>3, <2>1, <2>2 DEF OneOwner
<1> QED
  BY <1>5, <1>6, TouchKept

\* The holder pays recipients or takes payouts back; the refund is untouched.
LEMMA PayKept ==
  ASSUME IInv, NEW s \in Calls, PayRecipient(s) \/ UnpayRecipient(s)
  PROVE  IInv'
<1> USE ReservationAssumption DEF IInv
<1>1. PICK v \in Orders : call[s].o = v
  BY DEF OnOrder, PayRecipient, UnpayRecipient, At
<1>2. OneOwner(v) /\ Owns(s, v) /\ refunds[v] = 0 /\ call[s].pc \in {"pay", "unpay"}
  BY <1>1 DEF OneOwner, Owns, PayRecipient, UnpayRecipient, At
<1>3. /\ UNCHANGED <<status, debited, refunds, crashes, spends>> /\ faults' \in Nat
      /\ \/ \E p \in {"settle", "unpay", "reopen"} : Goto(s, p)
         \/ \E P \in SUBSET Users : call' = [call EXCEPT ![s].paid = P]
  <2>1. call[s].paid \subseteq Users
    BY DEF TypeOK, CallType
  <2> QED
    <3>1. CASE PayRecipient(s)
      <4>1. UNCHANGED <<status, debited, refunds, crashes, spends>>
        BY <3>1 DEF PayRecipient
      <4>2. faults' \in Nat
        <5>1. faults' = faults \/ Fault
          BY <3>1 DEF PayRecipient
        <5> QED
          BY <5>1, FaultCounted
      <4>3. \/ \E p \in {"settle", "unpay", "reopen"} : Goto(s, p)
            \/ \E P \in SUBSET Users : call' = [call EXCEPT ![s].paid = P]
        BY <2>1, <3>1 DEF PayRecipient, Recipients
      <4> QED
        BY <4>1, <4>2, <4>3
    <3>2. CASE UnpayRecipient(s)
      <4>1. UNCHANGED <<status, debited, refunds, crashes, spends>>
        BY <3>2 DEF UnpayRecipient
      <4>2. faults' \in Nat
        <5>1. faults' = faults \/ Fault
          BY <3>2 DEF UnpayRecipient
        <5> QED
          BY <5>1, FaultCounted
      <4>3. \/ \E p \in {"settle", "unpay", "reopen"} : Goto(s, p)
            \/ \E P \in SUBSET Users : call' = [call EXCEPT ![s].paid = P]
        BY <2>1, <3>2 DEF UnpayRecipient
      <4> QED
        BY <4>1, <4>2, <4>3
    <3> QED
      BY <3>1, <3>2
<1>4. balance' \in [Users -> Int] /\ payouts' \in [Orders -> [Users -> Int]]
  <2>0. call[s].paid \subseteq Users /\ Recipients(v) \subseteq Users
    BY DEF TypeOK, CallType, Recipients
  <2>1. \/ UNCHANGED <<balance, payouts>>
        \/ \E u \in Users :
              /\ balance' = [balance EXCEPT ![u] = @ + Share[v][u]]
              /\ payouts' = [payouts EXCEPT ![v][u] = @ + 1]
        \/ \E u \in Users :
              /\ balance' = [balance EXCEPT ![u] = @ + (-Share[v][u])]
              /\ payouts' = [payouts EXCEPT ![v][u] = @ - 1]
    BY <1>1, <2>0 DEF PayRecipient, UnpayRecipient, Add
  <2>2. \A u \in Users : Share[v][u] \in Int /\ -Share[v][u] \in Int
    OBVIOUS
  <2>3. balance' \in [Users -> Int]
    BY <2>1, <2>2 DEF TypeOK
  <2>4. payouts' \in [Orders -> [Users -> Int]]
    <3>1. \/ payouts' = payouts
          \/ \E u \in Users, n \in Int : payouts' = [payouts EXCEPT ![v][u] = n]
      BY SMTT(30), <2>1 DEF TypeOK
    <3>2. payouts \in [Orders -> [Users -> Int]]
      BY DEF TypeOK
    <3> QED
      BY <3>1, <3>2
  <2> QED
    BY <2>3, <2>4
<1>5. /\ call' \in [Calls -> CallType]
      /\ \A t \in Calls : t # s => call'[t] = call[t]
      /\ call'[s].o = v
      /\ call'[s].pc \in {"pay", "unpay", "settle", "reopen"}
  <2>1. CASE \E p \in {"settle", "unpay", "reopen"} : Goto(s, p)
    BY <1>1, <2>1, Moved DEF CallPcs
  <2>2. CASE \E P \in SUBSET Users : call' = [call EXCEPT ![s].paid = P]
    <3>1. PICK P \in SUBSET Users : call' = [call EXCEPT ![s].paid = P]
      BY <2>2
    <3> DEFINE c == [call[s] EXCEPT !.paid = P]
    <3>2. call[s] \in CallType
      BY DEF TypeOK
    <3>3. c \in CallType /\ c.pc = call[s].pc /\ c.o = call[s].o
      BY <3>2 DEF CallType
    <3>4. call' = [call EXCEPT ![s] = c]
      BY <3>1
    <3> HIDE DEF c
    <3> QED
      BY <1>1, <1>2, <3>3, <3>4 DEF TypeOK
  <2> QED
    BY <1>3, <2>1, <2>2
<1>6. Touches(s, v)
  <2>1. status'[v] # "None" /\ status' = [status EXCEPT ![v] = status[v]]
    BY <1>2, <1>3 DEF OneOwner, TypeOK
  <2> QED
    <3>1. \E n \in Nat : refunds' = [refunds EXCEPT ![v] = n]
      BY <1>3 DEF TypeOK
    <3>2. debited' \in [Orders -> Int] /\ crashes' \in Nat /\ spends' \in Nat
      BY <1>3 DEF TypeOK
    <3> QED
      BY <1>3, <1>4, <1>5, <2>1, <3>1, <3>2 DEF Touches
<1>7. OneOwner(v)'
  <2>1. \A t \in Calls : Owns(t, v)' => t = s
    <3> SUFFICES ASSUME NEW t \in Calls, Owns(t, v)', t # s PROVE FALSE
      OBVIOUS
    <3>1. call'[t] = call[t]
      BY <1>5
    <3>2. Owns(t, v)
      BY <3>1 DEF Owns
    <3> QED
      BY <1>2, <3>2 DEF OneOwner
  <2>2. status'[v] \in {"releasing", "captured"} /\ refunds'[v] = 0
    BY <1>2, <1>3 DEF OneOwner
  <2> QED
    BY <2>1, <2>2 DEF OneOwner
<1> QED
  BY <1>6, <1>7, TouchKept

\* Spending concerns the wallet only; a dead process forgets its claims.
LEMMA OutsideKept ==
  ASSUME IInv, (\E u \in Users : Spend(u)) \/ Crash
  PROVE  IInv'
<1>1. CASE \E u \in Users : Spend(u)
  <2>1. /\ UNCHANGED <<status, debited, refunds, payouts, call, faults, crashes>>
        /\ balance' \in [Users -> Int] /\ spends' \in Nat
    BY <1>1 DEF Spend, Add, IInv, TypeOK
  <2> QED
    BY <2>1 DEF IInv, TypeOK, OnOrder, OneOwner, Owns
<1>2. CASE Crash
  BY <1>2 DEF IInv, Crash, money, TypeOK, OnOrder, OneOwner, Owns, Idle, CallType, CallPcs
<1> QED
  BY <1>1, <1>2

\* Every step keeps the invariant.
LEMMA NextKept == ASSUME IInv, [Next]_vars PROVE IInv'
<1>1. ASSUME NEW s \in Calls, NEW o \in Orders, Begin(s, o) PROVE IInv'
  BY <1>1, BeginKept
<1>2. ASSUME NEW s \in Calls, ServiceStep(s) \/ Answer(s) PROVE IInv'
  BY <1>2, ReserveKept, CaptureKept, GoneKept, ClaimKept, CreditKept, ReopenKept, CloseKept, PayKept
     DEF ServiceStep
<1>3. CASE UNCHANGED vars
  BY <1>3 DEF vars, IInv, TypeOK, OnOrder, OneOwner, Owns
<1> QED
  BY <1>1, <1>2, <1>3, OutsideKept DEF Next

\* The invariant of MarketPurchaseWalletService holds in every reachable state.
THEOREM Invariance == Spec => []IInv
<1>1. Init => IInv
  BY ReservationAssumption DEF Init, IInv, TypeOK, OnOrder, OneOwner, Owns, Idle, CallType, CallPcs, Statuses
<1>2. IInv /\ [Next]_vars => IInv'
  BY NextKept
<1> QED
  BY <1>1, <1>2, PTL DEF Spec

\* ReleaseAsync refunds an order at most once, and an order that can be released
\* or distributed has not been refunded (RefundedOnce).
THEOREM RefundOnce == Spec => []RefundedOnce
<1>1. IInv => RefundedOnce
  BY DEF IInv, OneOwner, RefundedOnce
<1> QED
  BY Invariance, <1>1, PTL

-----------------------------------------------------------------------------
(* What a step of call s on order v leaves alone.                          *)

Frame(s, v) ==
    /\ \A t \in Calls : t # s => call'[t] = call[t]
    /\ call[s].pc = "idle" \/ call[s].o = v
    /\ call'[s].pc = "idle" \/ call'[s].o = v
    /\ \A e \in Orders : e # v => /\ status'[e] = status[e] /\ debited'[e] = debited[e]
                                 /\ refunds'[e] = refunds[e] /\ payouts'[e] = payouts[e]
    /\ crashes' = crashes /\ spends' = spends /\ faults' \in {faults, faults + 1}

\* The order a call that is under way is about.
LEMMA OrderKnown ==
  ASSUME IInv, NEW s \in Calls, call[s].pc # "idle"
  PROVE  call[s].o \in Orders
BY DEF IInv, OnOrder

\* A look-up changes nothing but its slot.
LEMMA BeginEffect ==
  ASSUME IInv, NEW s \in Calls, NEW v \in Orders, Begin(s, v)
  PROVE  /\ Frame(s, v)
         /\ UNCHANGED <<status, balance, debited, refunds, payouts, faults, crashes, spends>>
         /\ call[s] = Idle /\ call'[s].o = v /\ call'[s].paid = {}
         /\ call'[s].pc \in {"answered", "deduct", "capture", "claim", "share"}
         /\ call'[s].pc = "capture" => v \notin Uncaptured
<1> USE DEF IInv
<1>1. /\ UNCHANGED <<status, money, faults, crashes, spends>> /\ call[s] = Idle
      /\ \/ \E ok \in BOOLEAN : Reply(s, v, ok)
         \/ Start(s, v, "capture") /\ "capture" \in Ops[v]
         \/ \E p \in {"deduct", "claim", "share"} : Start(s, v, p)
  BY DEF Begin, BeginReserve, BeginCapture, BeginRelease, BeginDistribute, TypeOK, Statuses
<1>2. /\ \A t \in Calls : t # s => call'[t] = call[t]
      /\ call'[s].o = v /\ call'[s].paid = {}
      /\ \/ call'[s].pc = "capture" /\ "capture" \in Ops[v]
         \/ call'[s].pc \in {"answered", "deduct", "claim", "share"}
  BY <1>1, Replied, Started DEF CallPcs
<1>3. Frame(s, v)
  BY <1>1, <1>2 DEF Frame, Idle, money, TypeOK
<1> QED
  BY <1>1, <1>2, <1>3 DEF money, Uncaptured

\* ReserveAsync debits the buyer, and inserts the reservation or gives the
\* money back; without a fault a debit that is kept has its reservation.
LEMMA ReserveEffect ==
  ASSUME IInv, NEW s \in Calls, Deduct(s) \/ Insert(s) \/ Compensate(s)
  PROVE  LET v == call[s].o IN
         /\ v \in Orders /\ Frame(s, v) /\ UNCHANGED <<refunds, payouts>>
         /\ call[s].pc \in {"deduct", "insert", "compensate"} /\ call'[s].o = v
         /\ call'[s].paid = {} \/ call'[s].paid = call[s].paid
         /\ call'[s].pc \in {"answered", "insert", "compensate"}
         /\ \/ /\ call[s].pc = "deduct" /\ call'[s].pc = "insert" /\ status' = status
               /\ debited'[v] = debited[v] + 1
               /\ balance[Buyer[v]] >= Amount[v]
               /\ balance' = [balance EXCEPT ![Buyer[v]] = @ - Amount[v]]
            \/ /\ call[s].pc = "deduct" /\ call'[s].pc = "answered" /\ status' = status
               /\ debited' = debited /\ balance' = balance
            \/ /\ call[s].pc = "insert" /\ call'[s].pc = "answered"
               /\ debited' = debited /\ balance' = balance
               /\ \/ status[v] = "None" /\ status'[v] = "reserved"
                  \/ status' = status /\ faults' = faults + 1
            \/ /\ call[s].pc = "insert" /\ call'[s].pc = "compensate" /\ status' = status
               /\ debited' = debited /\ balance' = balance
            \/ /\ call[s].pc = "compensate" /\ call'[s].pc = "answered" /\ status' = status
               /\ \/ /\ debited'[v] = debited[v] - 1
                     /\ balance' = [balance EXCEPT ![Buyer[v]] = @ + Amount[v]]
                  \/ debited' = debited /\ balance' = balance /\ faults' = faults + 1
<1> USE ReservationAssumption DEF IInv
<1>1. PICK v \in Orders : call[s].o = v
  BY OrderKnown DEF Deduct, Insert, Compensate, At
<1>2. Amount[v] \in Nat /\ Buyer[v] \in Users /\ balance[Buyer[v]] \in Int
  BY DEF TypeOK
<1>3. CASE Deduct(s)
  <2>1. /\ \A t \in Calls : t # s => call'[t] = call[t]
        /\ call'[s].o = v /\ (call'[s].paid = {} \/ call'[s].paid = call[s].paid)
    BY <1>1, <1>3, Replied, Moved DEF Deduct, CallPcs
  <2>2. /\ call[s].pc = "deduct" /\ UNCHANGED <<status, refunds, payouts, crashes, spends>>
        /\ faults' \in {faults, faults + 1}
        /\ \/ /\ call'[s].pc = "insert" /\ balance[Buyer[v]] >= Amount[v]
              /\ balance' = [balance EXCEPT ![Buyer[v]] = @ + (-Amount[v])]
              /\ debited' = [debited EXCEPT ![v] = @ + 1]
           \/ call'[s].pc = "answered" /\ debited' = debited /\ balance' = balance
    BY <1>1, <1>3, Replied, Moved DEF Deduct, CallPcs, Add, Fault, At
  <2>3. ASSUME call'[s].pc = "insert" PROVE
              /\ balance' = [balance EXCEPT ![Buyer[v]] = @ - Amount[v]]
              /\ debited'[v] = debited[v] + 1
    BY <1>2, <2>2, <2>3 DEF TypeOK
  <2>4. Frame(s, v)
    BY <1>1, <2>1, <2>2 DEF Frame, TypeOK
  <2> QED
    BY <1>1, <2>1, <2>2, <2>3, <2>4
<1>4. CASE Insert(s)
  <2>1. /\ \A t \in Calls : t # s => call'[t] = call[t]
        /\ call'[s].o = v /\ (call'[s].paid = {} \/ call'[s].paid = call[s].paid)
    BY <1>1, <1>4, Replied, Moved DEF Insert, CallPcs
  <2>2. /\ call[s].pc = "insert"
        /\ UNCHANGED <<balance, debited, refunds, payouts, crashes, spends>>
        /\ faults' \in {faults, faults + 1}
        /\ \/ /\ call'[s].pc = "answered" /\ status[v] = "None"
              /\ status' = [status EXCEPT ![v] = "reserved"]
           \/ call'[s].pc = "answered" /\ status' = status /\ faults' = faults + 1
           \/ call'[s].pc = "compensate" /\ status' = status
    BY <1>1, <1>4, Replied, Moved DEF Insert, CallPcs, Fault, At, SetStatus, money
  <2>3. Frame(s, v) /\ (status' = status \/ status'[v] = "reserved")
    BY <1>1, <2>1, <2>2 DEF Frame, TypeOK
  <2> QED
    BY <1>1, <2>1, <2>2, <2>3 DEF TypeOK
<1>5. CASE Compensate(s)
  <2>1. /\ \A t \in Calls : t # s => call'[t] = call[t]
        /\ call'[s].o = v /\ call'[s].paid = {} /\ call'[s].pc = "answered"
    BY <1>1, <1>5, Replied DEF Compensate
  <2>2. /\ call[s].pc = "compensate" /\ UNCHANGED <<status, refunds, payouts, crashes, spends>>
        /\ faults' \in {faults, faults + 1}
        /\ \/ /\ balance' = [balance EXCEPT ![Buyer[v]] = @ + Amount[v]]
              /\ debited' = [debited EXCEPT ![v] = @ - 1]
           \/ debited' = debited /\ balance' = balance /\ faults' = faults + 1
    BY <1>1, <1>5 DEF Compensate, Add, Fault, At
  <2>3. Frame(s, v)
    BY <1>1, <2>1, <2>2 DEF Frame, TypeOK
  <2>4. debited'[v] = debited[v] - 1 \/ debited' = debited
    BY <2>2 DEF TypeOK
  <2> QED
    BY <1>1, <2>1, <2>2, <2>3, <2>4 DEF TypeOK
<1> QED
  BY <1>3, <1>4, <1>5

\* The claims, the writes that end an operation, and their failures: money
\* stays where it is.
LEMMA StatusEffect ==
  ASSUME IInv, NEW s \in Calls,
         \/ Capture(s) \/ ClaimRelease(s) \/ ClaimDistribute(s)
         \/ UndoRelease(s) \/ FinalizeRelease(s) \/ ReopenDistribute(s) \/ SettleDistribute(s)
         \/ WriteThrows(s) \/ Answer(s)
  PROVE  LET v == call[s].o IN
         /\ v \in Orders /\ Frame(s, v) /\ UNCHANGED <<balance, debited, refunds, payouts>>
         /\ call[s].pc \notin {"deduct", "insert", "compensate", "credit", "pay", "unpay"}
         /\ \/ /\ call'[s].pc = "idle" /\ call'[s].o \notin Orders /\ call'[s].paid = {}
               /\ call[s].pc = "answered" /\ status' = status
            \/ /\ call'[s].o = v /\ call'[s].pc = "answered" /\ call'[s].paid = {}
               /\ \/ call[s].pc = "capture" /\ status'[v] = "captured"
                  \/ call[s].pc \in {"claim", "share"} /\ status' = status
                  \/ faults' = faults + 1 /\ status' = status
                  \/ call[s].pc \in {"undo", "reopen"}
                        /\ status'[v] = IF status[v] = "releasing" THEN "reserved" ELSE status[v]
                  \/ call[s].pc = "finalize"
                        /\ status'[v] = IF status[v] = "releasing" THEN "released" ELSE status[v]
                  \/ call[s].pc = "settle"
                        /\ status'[v] = IF status[v] = "releasing" THEN "captured" ELSE status[v]
            \/ /\ call'[s].o = v /\ call'[s].paid = call[s].paid
               /\ \/ call[s].pc = "claim" /\ call'[s].pc = "credit"
                  \/ call[s].pc = "share" /\ call'[s].pc = "pay"
               /\ status[v] = "reserved" /\ status'[v] = "releasing"
<1> USE DEF IInv
<1>1. PICK v \in Orders : call[s].o = v
  BY OrderKnown DEF Capture, ClaimRelease, ClaimDistribute, UndoRelease, FinalizeRelease,
                    ReopenDistribute, SettleDistribute, WriteThrows, Answer, At
<1>2. UNCHANGED <<balance, debited, refunds, payouts, crashes, spends>>
  BY DEF Capture, ClaimRelease, ClaimDistribute, UndoRelease, FinalizeRelease,
         ReopenDistribute, SettleDistribute, WriteThrows, Answer, money
<1> DEFINE Same == \A t \in Calls : t # s => call'[t] = call[t]
<1>3. CASE Capture(s)
  <2>1. /\ Same /\ call'[s].o = v /\ call'[s].pc = "answered" /\ call'[s].paid = {}
    BY <1>1, <1>3, Replied DEF Capture
  <2>2. call[s].pc = "capture" /\ status' = [status EXCEPT ![v] = "captured"] /\ faults' = faults
    BY <1>1, <1>3 DEF Capture, SetStatus, At
  <2>3. Frame(s, v) /\ status'[v] = "captured"
    BY <1>1, <1>2, <2>1, <2>2 DEF Frame, TypeOK
  <2> QED
    BY <1>1, <1>2, <2>1, <2>2, <2>3
<1>4. CASE ClaimRelease(s) \/ ClaimDistribute(s)
  <2>1. /\ call[s].pc \in {"claim", "share"} /\ faults' = faults
        /\ \/ status' = status /\ Reply(s, v, FALSE)
           \/ /\ status[v] = "reserved" /\ status' = [status EXCEPT ![v] = "releasing"]
              /\ Goto(s, IF call[s].pc = "claim" THEN "credit" ELSE "pay")
    BY <1>1, <1>4 DEF ClaimRelease, ClaimDistribute, CompareAndSet, At
  <2>2. CASE status' = status /\ Reply(s, v, FALSE)
    <3>1. Same /\ call'[s].o = v /\ call'[s].pc = "answered" /\ call'[s].paid = {}
      BY <2>2, Replied
    <3>2. Frame(s, v)
      BY <1>1, <1>2, <2>1, <2>2, <3>1 DEF Frame, TypeOK
    <3> QED
      BY <1>1, <1>2, <2>1, <2>2, <3>1, <3>2
  <2>3. CASE /\ status[v] = "reserved" /\ status' = [status EXCEPT ![v] = "releasing"]
             /\ Goto(s, IF call[s].pc = "claim" THEN "credit" ELSE "pay")
    <3>1. /\ Same /\ call'[s].o = v /\ call'[s].paid = call[s].paid
          /\ call'[s].pc = IF call[s].pc = "claim" THEN "credit" ELSE "pay"
      BY <1>1, <2>3, Moved DEF CallPcs
    <3>2. Frame(s, v) /\ status'[v] = "releasing"
      BY <1>1, <1>2, <2>1, <2>3, <3>1 DEF Frame, TypeOK
    <3> QED
      BY <1>1, <1>2, <2>1, <2>3, <3>1, <3>2
  <2> QED
    BY <2>1, <2>2, <2>3
<1>5. CASE UndoRelease(s) \/ FinalizeRelease(s) \/ ReopenDistribute(s) \/ SettleDistribute(s)
  <2> DEFINE to == CASE call[s].pc \in {"undo", "reopen"} -> "reserved"
                     [] call[s].pc = "finalize" -> "released"
                     [] call[s].pc = "settle" -> "captured"
  <2>1. /\ call[s].pc \in {"undo", "finalize", "reopen", "settle"} /\ faults' = faults
        /\ CompareAndSet(v, "releasing", to)
        /\ \E ok \in BOOLEAN : Reply(s, v, ok)
    BY <1>1, <1>5 DEF UndoRelease, FinalizeRelease, ReopenDistribute, SettleDistribute, At
  <2>2. Same /\ call'[s].o = v /\ call'[s].pc = "answered" /\ call'[s].paid = {}
    BY <2>1, Replied
  <2> HIDE DEF to
  <2>3. status'[v] = (IF status[v] = "releasing" THEN to ELSE status[v]) /\ Frame(s, v)
    BY <1>1, <1>2, <2>1, <2>2 DEF Frame, TypeOK, CompareAndSet
  <2> QED
    BY <1>1, <1>2, <2>1, <2>2, <2>3 DEF to
<1>6. CASE WriteThrows(s)
  <2>1. Same /\ call'[s].o = v /\ call'[s].pc = "answered" /\ call'[s].paid = {}
    BY <1>1, <1>6, Replied DEF WriteThrows
  <2>2. /\ status' = status /\ faults' = faults + 1
        /\ call[s].pc \notin {"deduct", "insert", "compensate", "credit", "pay", "unpay"}
    BY <1>6 DEF WriteThrows, Fault
  <2>3. Frame(s, v)
    BY <1>1, <1>2, <2>1, <2>2 DEF Frame
  <2> QED
    BY <1>1, <1>2, <2>1, <2>2, <2>3
<1>7. CASE Answer(s)
  <2>1. /\ Same /\ call'[s].pc = "idle" /\ call'[s].o \notin Orders /\ call'[s].paid = {}
        /\ call[s].pc = "answered" /\ status' = status /\ faults' = faults
    BY <1>7, ReservationAssumption DEF Answer, Idle, TypeOK, At
  <2>2. Frame(s, v)
    BY <1>1, <1>2, <2>1 DEF Frame
  <2> QED
    BY <1>1, <1>2, <2>1, <2>2
<1> QED
  BY <1>3, <1>4, <1>5, <1>6, <1>7

\* The holder of a claim refunds the buyer, or turns back.
LEMMA CreditEffect ==
  ASSUME IInv, NEW s \in Calls, CreditBuyer(s)
  PROVE  LET v == call[s].o IN
         /\ v \in Orders /\ Frame(s, v) /\ UNCHANGED <<status, debited, payouts>>
         /\ call[s].pc = "credit" /\ call'[s].o = v /\ call'[s].paid = call[s].paid
         /\ \/ /\ call'[s].pc = "finalize" /\ refunds'[v] = refunds[v] + 1 /\ faults' = faults
               /\ balance' = [balance EXCEPT ![Buyer[v]] = @ + Amount[v]]
            \/ /\ call'[s].pc = "undo" /\ faults' = faults + 1
               /\ refunds' = refunds /\ balance' = balance
<1> USE DEF IInv
<1>1. PICK v \in Orders : call[s].o = v
  BY OrderKnown DEF CreditBuyer, At
<1>2. /\ UNCHANGED <<status, debited, payouts, crashes, spends>> /\ call[s].pc = "credit"
      /\ \/ /\ Goto(s, "finalize") /\ refunds' = [refunds EXCEPT ![v] = @ + 1] /\ faults' = faults
            /\ balance' = [balance EXCEPT ![Buyer[v]] = @ + Amount[v]]
         \/ /\ Goto(s, "undo") /\ faults' = faults + 1
            /\ refunds' = refunds /\ balance' = balance
  BY <1>1 DEF CreditBuyer, Add, Fault, At
<1>3. /\ \A t \in Calls : t # s => call'[t] = call[t]
      /\ call'[s].o = v /\ call'[s].paid = call[s].paid
      /\ call'[s].pc = IF faults' = faults THEN "finalize" ELSE "undo"
  BY <1>1, <1>2, Moved DEF CallPcs, TypeOK
<1>4. faults' \in {faults, faults + 1} /\ faults \in Nat
  BY <1>2 DEF TypeOK
<1>5. Frame(s, v)
  BY <1>1, <1>2, <1>3, <1>4 DEF Frame, TypeOK
<1>6. refunds' = refunds \/ refunds'[v] = refunds[v] + 1
  BY <1>2 DEF TypeOK
<1> QED
  BY <1>1, <1>2, <1>3, <1>4, <1>5, <1>6 DEF TypeOK

\* One round of the payment of the recipients, or of its compensation.
LEMMA PayEffect ==
  ASSUME IInv, NEW s \in Calls, PayRecipient(s) \/ UnpayRecipient(s)
  PROVE  LET v == call[s].o IN
         /\ v \in Orders /\ Frame(s, v) /\ UNCHANGED <<status, debited, refunds>>
         /\ call'[s].o = v
         /\ \/ /\ UNCHANGED <<balance, payouts>> /\ call'[s].paid = call[s].paid
               /\ \/ /\ call[s].pc = "pay" /\ call'[s].pc = "settle" /\ faults' = faults
                     /\ Recipients(v) \subseteq call[s].paid
                  \/ call[s].pc = "pay" /\ call'[s].pc = "unpay" /\ faults' = faults + 1
                  \/ /\ call[s].pc = "unpay" /\ call'[s].pc = "reopen" /\ faults' = faults
                     /\ call[s].paid = {}
            \/ \E u \in Recipients(v) \ call[s].paid :
                  /\ call[s].pc = "pay" /\ call'[s].pc = "pay" /\ faults' = faults
                  /\ call'[s].paid = call[s].paid \cup {u}
                  /\ balance' = [balance EXCEPT ![u] = @ + Share[v][u]]
                  /\ payouts'[v] = [payouts[v] EXCEPT ![u] = @ + 1]
            \/ \E u \in call[s].paid :
                  /\ call[s].pc = "unpay" /\ call'[s].pc = "unpay"
                  /\ call'[s].paid = call[s].paid \ {u}
                  /\ \/ /\ balance[u] >= Share[v][u] /\ faults' = faults
                        /\ balance' = [balance EXCEPT ![u] = @ - Share[v][u]]
                        /\ payouts'[v] = [payouts[v] EXCEPT ![u] = @ - 1]
                     \/ /\ UNCHANGED <<balance, payouts>>
                        /\ balance[u] < Share[v][u] \/ faults' = faults + 1
<1> USE ReservationAssumption DEF IInv
<1>1. PICK v \in Orders : call[s].o = v
  BY OrderKnown DEF PayRecipient, UnpayRecipient, At
<1>2. call[s].paid \subseteq Users /\ Recipients(v) \subseteq Users
  BY DEF TypeOK, CallType, Recipients
<1>3. \A P \in SUBSET Users : call' = [call EXCEPT ![s].paid = P] =>
        /\ \A t \in Calls : t # s => call'[t] = call[t]
        /\ call'[s].o = v /\ call'[s].pc = call[s].pc /\ call'[s].paid = P
  BY <1>1 DEF TypeOK, CallType
<1>4. UNCHANGED <<status, debited, refunds, crashes, spends>>
  BY DEF PayRecipient, UnpayRecipient
<1>5. \A e \in Orders : payouts[e] \in [Users -> Int]
  BY DEF TypeOK
<1> DEFINE Same == \A t \in Calls : t # s => call'[t] = call[t]
<1>6. CASE PayRecipient(s)
  <2>1. call[s].pc = "pay"
    BY <1>6 DEF PayRecipient, At
  <2>2. ASSUME NEW u \in Recipients(v) \ call[s].paid,
               Add(u, Share[v][u]), payouts' = [payouts EXCEPT ![v][u] = @ + 1],
               call' = [call EXCEPT ![s].paid = call[s].paid \cup {u}], faults' = faults
        PROVE  /\ Same /\ call'[s].o = v /\ call'[s].pc = "pay" /\ faults' = faults
               /\ call'[s].paid = call[s].paid \cup {u}
               /\ balance' = [balance EXCEPT ![u] = @ + Share[v][u]]
               /\ payouts'[v] = [payouts[v] EXCEPT ![u] = @ + 1]
               /\ \A e \in Orders : e # v => payouts'[e] = payouts[e]
    <3>1. call[s].paid \cup {u} \in SUBSET Users
      BY <1>2
    <3>2. /\ payouts'[v] = [payouts[v] EXCEPT ![u] = @ + 1]
          /\ \A e \in Orders : e # v => payouts'[e] = payouts[e]
      BY <2>2 DEF TypeOK
    <3> QED
      BY <1>3, <2>1, <2>2, <3>1, <3>2 DEF Add
  <2>3. \/ \E u \in Recipients(v) \ call[s].paid :
              /\ Add(u, Share[v][u]) /\ payouts' = [payouts EXCEPT ![v][u] = @ + 1]
              /\ call' = [call EXCEPT ![s].paid = call[s].paid \cup {u}] /\ faults' = faults
        \/ /\ Recipients(v) \subseteq call[s].paid
           /\ Goto(s, "settle") /\ UNCHANGED <<balance, payouts, faults>>
        \/ faults' = faults + 1 /\ Goto(s, "unpay") /\ UNCHANGED <<balance, payouts>>
    BY <1>1, <1>6 DEF PayRecipient, Fault, TypeOK
  <2>4. CASE \E u \in Recipients(v) \ call[s].paid :
              /\ Add(u, Share[v][u]) /\ payouts' = [payouts EXCEPT ![v][u] = @ + 1]
              /\ call' = [call EXCEPT ![s].paid = call[s].paid \cup {u}] /\ faults' = faults
    <3>1. Same /\ call'[s].o = v /\ faults' = faults
          /\ \A e \in Orders : e # v => payouts'[e] = payouts[e]
      BY <2>2, <2>4
    <3>2. Frame(s, v)
      BY <1>1, <1>4, <3>1 DEF Frame
    <3> QED
      BY ZenonT(60), <1>1, <1>4, <2>1, <2>2, <2>4, <3>1, <3>2
  <2>5. CASE /\ Recipients(v) \subseteq call[s].paid
             /\ Goto(s, "settle") /\ UNCHANGED <<balance, payouts, faults>>
    <3>1. Same /\ call'[s].o = v /\ call'[s].pc = "settle" /\ call'[s].paid = call[s].paid
      BY <1>1, <2>5, Moved DEF CallPcs
    <3>2. Frame(s, v)
      BY <1>1, <1>4, <2>5, <3>1 DEF Frame
    <3> QED
      BY <1>1, <1>4, <2>1, <2>5, <3>1, <3>2
  <2>6. CASE faults' = faults + 1 /\ Goto(s, "unpay") /\ UNCHANGED <<balance, payouts>>
    <3>1. Same /\ call'[s].o = v /\ call'[s].pc = "unpay" /\ call'[s].paid = call[s].paid
      BY <1>1, <2>6, Moved DEF CallPcs
    <3>2. Frame(s, v)
      BY <1>1, <1>4, <2>6, <3>1 DEF Frame
    <3> QED
      BY <1>1, <1>4, <2>1, <2>6, <3>1, <3>2
  <2> QED
    BY <2>3, <2>4, <2>5, <2>6
<1>7. CASE UnpayRecipient(s)
  <2>1. call[s].pc = "unpay"
    BY <1>7 DEF UnpayRecipient, At
  <2>2. \/ \E u \in call[s].paid :
              /\ call' = [call EXCEPT ![s].paid = call[s].paid \ {u}]
              /\ \/ /\ balance[u] >= Share[v][u] /\ faults' = faults
                    /\ Add(u, -Share[v][u])
                    /\ payouts' = [payouts EXCEPT ![v][u] = @ - 1]
                 \/ /\ UNCHANGED <<balance, payouts>>
                    /\ \/ balance[u] < Share[v][u] /\ faults' = faults
                       \/ faults' = faults + 1
        \/ call[s].paid = {} /\ Goto(s, "reopen") /\ UNCHANGED <<balance, payouts, faults>>
    BY <1>1, <1>7 DEF UnpayRecipient, Fault, TypeOK
  <2>3. CASE \E u \in call[s].paid :
              /\ call' = [call EXCEPT ![s].paid = call[s].paid \ {u}]
              /\ \/ /\ balance[u] >= Share[v][u] /\ faults' = faults
                    /\ Add(u, -Share[v][u])
                    /\ payouts' = [payouts EXCEPT ![v][u] = @ - 1]
                 \/ /\ UNCHANGED <<balance, payouts>>
                    /\ \/ balance[u] < Share[v][u] /\ faults' = faults
                       \/ faults' = faults + 1
    <3>1. PICK u \in call[s].paid :
              /\ call' = [call EXCEPT ![s].paid = call[s].paid \ {u}]
              /\ \/ /\ balance[u] >= Share[v][u] /\ faults' = faults
                    /\ Add(u, -Share[v][u])
                    /\ payouts' = [payouts EXCEPT ![v][u] = @ - 1]
                 \/ /\ UNCHANGED <<balance, payouts>>
                    /\ \/ balance[u] < Share[v][u] /\ faults' = faults
                       \/ faults' = faults + 1
      BY <2>3
    <3>2. Same /\ call'[s].o = v /\ call'[s].pc = "unpay" /\ call'[s].paid = call[s].paid \ {u}
      <4>1. call[s].paid \ {u} \in SUBSET Users
        BY <1>2
      <4> QED
        BY <1>3, <2>1, <3>1, <4>1
    <3>3. /\ \A e \in Orders : e # v => payouts'[e] = payouts[e]
          /\ \/ UNCHANGED <<balance, payouts>> /\ (balance[u] < Share[v][u] \/ faults' = faults + 1)
             \/ /\ payouts'[v] = [payouts[v] EXCEPT ![u] = @ - 1]
                /\ balance[u] >= Share[v][u] /\ faults' = faults
                /\ balance' = [balance EXCEPT ![u] = @ - Share[v][u]]
      <4>1. u \in Users /\ Share[v][u] \in Nat /\ balance[u] \in Int
        BY <1>2 DEF TypeOK
      <4> QED
        BY <3>1, <4>1 DEF TypeOK, Add
    <3>4. Frame(s, v)
      BY <1>1, <1>4, <3>1, <3>2, <3>3 DEF Frame
    <3> QED
      BY <1>1, <1>4, <2>1, <3>2, <3>3, <3>4
  <2>4. CASE call[s].paid = {} /\ Goto(s, "reopen") /\ UNCHANGED <<balance, payouts, faults>>
    <3>1. Same /\ call'[s].o = v /\ call'[s].pc = "reopen" /\ call'[s].paid = call[s].paid
      BY <1>1, <2>4, Moved DEF CallPcs
    <3>2. Frame(s, v)
      BY <1>1, <1>4, <2>4, <3>1 DEF Frame
    <3> QED
      BY <1>1, <1>4, <2>1, <2>4, <3>1, <3>2
  <2> QED
    BY <2>2, <2>3, <2>4
<1> QED
  BY <1>6, <1>7

-----------------------------------------------------------------------------
(* The calls stay sound and the wallets solvent, whatever fails.           *)

LEMMA CallsSoundKept ==
  ASSUME IInv, CallsSound, NEW s \in Calls, NEW v \in Orders, Frame(s, v),
         /\ call'[s].pc = "capture" => v \notin Uncaptured
         /\ call'[s].pc \notin {"pay", "unpay", "settle"} => call'[s].paid = {}
         /\ call'[s].paid \subseteq Recipients(v)
         /\ call'[s].pc = "settle" => Recipients(v) \subseteq call'[s].paid
  PROVE  CallsSound'
<1> SUFFICES ASSUME NEW t \in Calls
             PROVE  /\ call'[t].pc = "capture" => call'[t].o \notin Uncaptured
                    /\ call'[t].pc \notin {"pay", "unpay", "settle"} => call'[t].paid = {}
                    /\ \A u \in call'[t].paid : u \in Recipients(call'[t].o)
                    /\ call'[t].pc = "settle" => Recipients(call'[t].o) \subseteq call'[t].paid
  BY DEF CallsSound, Uncaptured, Recipients
<1>1. CASE t # s
  BY <1>1 DEF Frame, CallsSound
<1>2. CASE t = s
  BY <1>2 DEF Frame
<1> QED
  BY <1>1, <1>2

\* A credit, or a debit that is covered, overdraws nobody.
LEMMA SolventKept ==
  ASSUME IInv, Solvent, NEW u \in Users, NEW n \in Nat,
         \/ balance' = balance
         \/ balance' = [balance EXCEPT ![u] = @ + n]
         \/ balance[u] >= n /\ balance' = [balance EXCEPT ![u] = @ - n]
  PROVE  Solvent'
<1>1. balance \in [Users -> Int]
  BY DEF IInv, TypeOK
<1> QED
  BY <1>1 DEF Solvent

\* A step of a call keeps both.
LEMMA SoundStep ==
  ASSUME IInv, CallsSound, Solvent,
         NEW s \in Calls, ServiceStep(s) \/ Answer(s) \/ \E o \in Orders : Begin(s, o)
  PROVE  CallsSound' /\ Solvent'
<1> USE ReservationAssumption
<1> DEFINE v == call[s].o
<1>1. CASE \E o \in Orders : Begin(s, o)
  <2>1. PICK o \in Orders : Begin(s, o)
    BY <1>1
  <2>2. CallsSound'
    BY <2>1, BeginEffect, CallsSoundKept
  <2>3. Solvent'
    BY <2>1, BeginEffect DEF Solvent
  <2> QED
    BY <2>2, <2>3
<1>2. CASE Deduct(s) \/ Insert(s) \/ Compensate(s)
  <2>1. v \in Orders /\ Frame(s, v) /\ call'[s].pc \in {"answered", "insert", "compensate"}
    BY <1>2, ReserveEffect
  <2>2. call'[s].paid = {}
    BY <1>2, ReserveEffect DEF CallsSound
  <2>3. CallsSound'
    BY <2>1, <2>2, CallsSoundKept
  <2>4. Amount[v] \in Nat /\ Buyer[v] \in Users
    BY <2>1
  <2>5. \/ balance' = balance
        \/ /\ balance[Buyer[v]] >= Amount[v]
           /\ balance' = [balance EXCEPT ![Buyer[v]] = @ - Amount[v]]
        \/ balance' = [balance EXCEPT ![Buyer[v]] = @ + Amount[v]]
    BY <1>2, ReserveEffect
  <2>6. Solvent'
    BY <2>4, <2>5, SolventKept
  <2> QED
    BY <2>3, <2>6
<1>3. CASE \/ Capture(s) \/ ClaimRelease(s) \/ ClaimDistribute(s)
           \/ UndoRelease(s) \/ FinalizeRelease(s) \/ ReopenDistribute(s) \/ SettleDistribute(s)
           \/ WriteThrows(s) \/ Answer(s)
  <2>1. /\ v \in Orders /\ Frame(s, v) /\ balance' = balance
        /\ call'[s].pc \in {"idle", "answered", "credit", "pay"}
    BY <1>3, StatusEffect
  <2>2. call'[s].paid = {}
    BY <1>3, StatusEffect DEF CallsSound
  <2>3. CallsSound'
    BY <2>1, <2>2, CallsSoundKept
  <2> QED
    BY <2>1, <2>3 DEF Solvent
<1>4. CASE CreditBuyer(s)
  <2>1. /\ v \in Orders /\ Frame(s, v) /\ call'[s].pc \in {"finalize", "undo"}
        /\ call[s].pc = "credit" /\ call'[s].paid = call[s].paid
    BY <1>4, CreditEffect
  <2>2. CallsSound'
    BY <2>1, CallsSoundKept DEF CallsSound
  <2>3. Amount[v] \in Nat /\ Buyer[v] \in Users
    BY <2>1
  <2>4. balance' = balance \/ balance' = [balance EXCEPT ![Buyer[v]] = @ + Amount[v]]
    BY <1>4, CreditEffect
  <2>5. Solvent'
    BY <2>3, <2>4, SolventKept
  <2> QED
    BY <2>2, <2>5
<1>5. CASE PayRecipient(s) \/ UnpayRecipient(s)
  <2>1. v \in Orders /\ Frame(s, v)
    BY <1>5, PayEffect
  <2>2. /\ call[s].paid \subseteq Recipients(v)
        /\ Recipients(v) \subseteq Users
    BY DEF CallsSound, Recipients
  <2>3. /\ call'[s].paid \subseteq Recipients(v)
        /\ call'[s].pc \in {"settle", "pay", "unpay", "reopen"}
        /\ call'[s].pc = "settle" => Recipients(v) \subseteq call'[s].paid
        /\ call'[s].pc = "reopen" => call'[s].paid = {}
    BY ZenonT(60), <1>5, <2>2, PayEffect
  <2>4. CallsSound'
    BY <2>1, <2>3, CallsSoundKept
  <2>5. \A u \in Users : Share[v][u] \in Nat
    BY <2>1
  <2>6. \/ balance' = balance
        \/ \E u \in Users : balance' = [balance EXCEPT ![u] = @ + Share[v][u]]
        \/ \E u \in Users : /\ balance[u] >= Share[v][u]
                            /\ balance' = [balance EXCEPT ![u] = @ - Share[v][u]]
    BY <1>5, <2>2, PayEffect
  <2>7. Solvent'
    BY <2>5, <2>6, SolventKept DEF Solvent
  <2> QED
    BY <2>4, <2>7
<1> QED
  BY <1>1, <1>2, <1>3, <1>4, <1>5 DEF ServiceStep

-----------------------------------------------------------------------------
(* Without faults and crashes: what a step does to the debits and to the   *)
(* claim of its order.                                                     *)

\* An order that the step is not about keeps its books.
LEMMA BooksElsewhere ==
  ASSUME IInv, NEW s \in Calls, NEW v \in Orders, NEW e \in Orders, Frame(s, v), e # v,
         Debits(e), Claimed(e)
  PROVE  Debits(e)' /\ Claimed(e)'
<1>1. Due(e)' = Due(e)
  <2>1. \A t \in Calls : t \in Due(e)' <=> t \in Due(e)
    BY DEF Due, Frame
  <2> QED
    BY <2>1 DEF Due
<1>2. /\ status'[e] = status[e] /\ debited'[e] = debited[e]
      /\ refunds'[e] = refunds[e] /\ payouts'[e] = payouts[e]
  BY DEF Frame
<1>3. Debits(e)'
  BY <1>1, <1>2 DEF Debits
<1>4. \A t \in Calls : (Owns(t, e)' <=> Owns(t, e)) /\ (Owns(t, e) => call'[t] = call[t])
  BY DEF Frame, Owns
<1>5. \A P : PaidTo(e, P)' <=> PaidTo(e, P)
  BY <1>2 DEF PaidTo
<1>6. Claimed(e)'
  BY <1>2, <1>4, <1>5 DEF Claimed
<1> QED
  BY <1>3, <1>6

\* A step that debits nobody and does not insert keeps the count.
LEMMA DebitsKept ==
  ASSUME NEW s \in Calls, NEW v \in Orders, Frame(s, v), Debits(v),
         s \in Due(v) <=> s \in Due(v)',
         debited'[v] = debited[v], status[v] = "None" <=> status'[v] = "None"
  PROVE  Debits(v)'
<1>1. \A t \in Calls : t \in Due(v)' <=> t \in Due(v)
  BY DEF Due, Frame
<1>2. Due(v)' = Due(v)
  BY <1>1 DEF Due
<1> QED
  BY <1>2 DEF Debits

\* A debit is due to its reservation.
LEMMA DebitAdded ==
  ASSUME IInv, NEW s \in Calls, NEW v \in Orders, Frame(s, v), Debits(v),
         s \notin Due(v), s \in Due(v)',
         debited'[v] = debited[v] + 1, status' = status
  PROVE  Debits(v)'
<1>1. \A t \in Calls : t \in Due(v)' <=> t \in Due(v) \cup {s}
  BY DEF Due, Frame
<1>2. Due(v)' = Due(v) \cup {s}
  BY <1>1 DEF Due
<1>3. IsFiniteSet(Due(v)') /\ Cardinality(Due(v)') = Cardinality(Due(v)) + 1
  BY <1>2, FS_AddElement DEF Debits
<1>4. Cardinality(Due(v)) \in Nat
  BY FS_CardinalityType DEF Debits
<1>5. debited'[v] = Cardinality(Due(v)') + (IF status'[v] = "None" THEN 0 ELSE 1)
  BY <1>3, <1>4 DEF Debits
<1> QED
  BY <1>3, <1>5 DEF Debits

\* The reservation takes the debit over, or the buyer has it back.
LEMMA DebitSettled ==
  ASSUME IInv, NEW s \in Calls, NEW v \in Orders, Frame(s, v), Debits(v),
         s \in Due(v), s \notin Due(v)',
         \/ status[v] = "None" /\ status'[v] # "None" /\ debited'[v] = debited[v]
         \/ status' = status /\ debited'[v] = debited[v] - 1
  PROVE  Debits(v)'
<1>1. \A t \in Calls : t \in Due(v)' <=> t \in Due(v) \ {s}
  BY DEF Due, Frame
<1>2. Due(v)' = Due(v) \ {s}
  BY <1>1 DEF Due
<1>3. IsFiniteSet(Due(v)') /\ Cardinality(Due(v)') = Cardinality(Due(v)) - 1
  BY <1>2, FS_RemoveElement DEF Debits
<1>4. Cardinality(Due(v)) \in Nat
  BY FS_CardinalityType DEF Debits
<1>5. debited'[v] = Cardinality(Due(v)') + (IF status'[v] = "None" THEN 0 ELSE 1)
  BY <1>3, <1>4 DEF Debits
<1> QED
  BY <1>3, <1>5 DEF Debits

\* A step that leaves status, refund and payouts alone, of a call that holds no
\* claim, keeps the claim's books.
LEMMA ClaimedKept ==
  ASSUME NEW s \in Calls, NEW v \in Orders, Frame(s, v), Claimed(v),
         call[s].pc \notin Owning, call'[s].pc \notin Owning,
         refunds' = refunds, payouts' = payouts,
         status'[v] = status[v] \/ (status[v] = "None" /\ status'[v] = "reserved")
  PROVE  Claimed(v)'
<1>1. \A t \in Calls : (Owns(t, v)' <=> Owns(t, v)) /\ (Owns(t, v) => call'[t] = call[t])
  BY DEF Frame, Owns, Owning
<1>2. \A P : PaidTo(v, P)' <=> PaidTo(v, P)
  BY DEF PaidTo
<1> QED
  BY <1>1, <1>2 DEF Claimed

\* The holder of a claim moves on: what it knows is what was paid.
LEMMA HolderMoves ==
  ASSUME IInv, NEW s \in Calls, NEW v \in Orders, Frame(s, v), Claimed(v), IInv',
         Owns(s, v)', status'[v] = "releasing",
         Owns(s, v) \/ status[v] = "reserved",
         call'[s].pc \in {"credit", "finalize", "pay", "settle"},
         refunds'[v] = IF call'[s].pc = "finalize" THEN 1 ELSE 0,
         PaidTo(v, call[s].paid)'
  PROVE  Claimed(v)'
<1>1. \A t \in Calls : Owns(t, v)' => t = s
  BY DEF IInv, OneOwner
<1> QED
  BY <1>1 DEF Claimed

\* The holder ends its operation: nobody holds the claim.
LEMMA HolderEnds ==
  ASSUME IInv, NEW s \in Calls, NEW v \in Orders, Frame(s, v), Claimed(v),
         Owns(s, v), call'[s].pc \notin Owning, status'[v] # "releasing",
         refunds'[v] = IF status'[v] = "released" THEN 1 ELSE 0,
         PaidTo(v, IF status[v] = "captured" THEN Recipients(v) ELSE {})'
  PROVE  Claimed(v)'
<1>1. \A t \in Calls : ~Owns(t, v)'
  BY DEF IInv, OneOwner, Frame, Owns, Owning
<1> QED
  BY <1>1 DEF Claimed, Recipients

\* Without faults and crashes a step keeps the books of its order.
LEMMA QuietStep ==
  ASSUME IInv, IInv', CallsSound, faults' = 0, faults = 0,
         NEW s \in Calls, NEW v \in Uncaptured, Debits(v), Claimed(v),
         Begin(s, v) \/ (call[s].o = v /\ (ServiceStep(s) \/ Answer(s)))
  PROVE  Debits(v)' /\ Claimed(v)'
<1>0. v \in Orders /\ debited[v] \in Int /\ refunds[v] \in Nat /\ payouts[v] \in [Users -> Int]
  BY DEF Uncaptured, IInv, TypeOK
<1>1. CASE Begin(s, v)
  <2>1. Frame(s, v) /\ UNCHANGED <<status, debited, refunds, payouts>>
    BY <1>0, <1>1, BeginEffect
  <2>2. /\ call[s].pc = "idle"
        /\ call'[s].pc \in {"answered", "deduct", "capture", "claim", "share"}
    BY <1>0, <1>1, BeginEffect DEF Idle
  <2>3. Debits(v)'
    BY <1>0, <2>1, <2>2, DebitsKept DEF Due
  <2>4. Claimed(v)'
    BY <1>0, <2>1, <2>2, ClaimedKept DEF Owning
  <2> QED
    BY <2>3, <2>4
<1>2. CASE call[s].o = v /\ (Deduct(s) \/ Insert(s) \/ Compensate(s))
  <2>1. /\ Frame(s, v) /\ UNCHANGED <<refunds, payouts>> /\ call'[s].o = v
        /\ call[s].pc \in {"deduct", "insert", "compensate"}
        /\ call'[s].pc \in {"answered", "insert", "compensate"}
    BY <1>2, ReserveEffect
  <2>2. \/ /\ call[s].pc = "deduct" /\ call'[s].pc = "insert" /\ status' = status
           /\ debited'[v] = debited[v] + 1
        \/ /\ call[s].pc = "deduct" /\ call'[s].pc = "answered" /\ status' = status
           /\ debited'[v] = debited[v]
        \/ /\ call[s].pc = "insert" /\ call'[s].pc = "answered"
           /\ debited'[v] = debited[v] /\ status[v] = "None" /\ status'[v] = "reserved"
        \/ /\ call[s].pc = "insert" /\ call'[s].pc = "compensate" /\ status' = status
           /\ debited'[v] = debited[v]
        \/ /\ call[s].pc = "compensate" /\ call'[s].pc = "answered" /\ status' = status
           /\ debited'[v] = debited[v] - 1
    BY <1>2, ReserveEffect
  <2>3. Debits(v)'
    BY <1>0, <1>2, <2>1, <2>2, DebitsKept, DebitAdded, DebitSettled DEF Due
  <2>4. status'[v] = status[v] \/ (status[v] = "None" /\ status'[v] = "reserved")
    BY <2>2
  <2>5. Claimed(v)'
    BY <1>0, <2>1, <2>4, ClaimedKept DEF Owning
  <2> QED
    BY <2>3, <2>5
<1>3. CASE call[s].o = v /\ (\/ Capture(s) \/ ClaimRelease(s) \/ ClaimDistribute(s)
           \/ UndoRelease(s) \/ FinalizeRelease(s) \/ ReopenDistribute(s) \/ SettleDistribute(s)
           \/ WriteThrows(s) \/ Answer(s))
  <2> DEFINE p == call[s].pc
  <2>1. /\ Frame(s, v) /\ UNCHANGED <<debited, refunds, payouts>>
        /\ p \notin {"deduct", "insert", "compensate", "credit", "pay", "unpay"}
        /\ call'[s].pc \in {"idle", "answered", "credit", "pay"}
    BY <1>3, StatusEffect
  <2>2. \/ /\ call'[s].pc \in {"idle", "answered"} /\ p \in {"answered", "claim", "share"}
           /\ status' = status
        \/ /\ call'[s].o = v /\ call'[s].pc = "answered" /\ p \in {"undo", "reopen", "capture"}
        \/ /\ call'[s].o = v /\ call'[s].pc = "answered" /\ p = "finalize"
           /\ status'[v] = IF status[v] = "releasing" THEN "released" ELSE status[v]
        \/ /\ call'[s].o = v /\ call'[s].pc = "answered" /\ p = "settle"
           /\ status'[v] = IF status[v] = "releasing" THEN "captured" ELSE status[v]
        \/ /\ call'[s].o = v /\ call'[s].paid = call[s].paid
           /\ \/ p = "claim" /\ call'[s].pc = "credit"
              \/ p = "share" /\ call'[s].pc = "pay"
           /\ status[v] = "reserved" /\ status'[v] = "releasing"
    BY <1>3, StatusEffect
  <2>3. p \notin {"undo", "reopen", "capture"}
    BY <1>3 DEF Claimed, Owns, CallsSound
  <2>4. Debits(v)'
    <3>1. s \notin Due(v) /\ s \notin Due(v)'
      BY <2>1 DEF Due
    <3>2. status[v] = "None" <=> status'[v] = "None"
      BY <2>2, <2>3
    <3> QED
      BY <1>0, <2>1, <3>1, <3>2, DebitsKept
  <2>5. CASE call'[s].pc \in {"idle", "answered"} /\ p \in {"answered", "claim", "share"} /\ status' = status
    BY <1>0, <2>1, <2>4, <2>5, ClaimedKept DEF Owning
  <2>6. CASE call'[s].pc = "answered" /\ p \in {"finalize", "settle"}
    <3>1. Owns(s, v) /\ call'[s].pc \notin Owning
      BY <1>3, <2>6 DEF Owns, Owning
    <3>2. status[v] = "releasing" /\ refunds[v] = (IF p = "finalize" THEN 1 ELSE 0) /\ PaidTo(v, call[s].paid)
      BY <3>1 DEF Claimed
    <3>3. status'[v] = (IF p = "finalize" THEN "released" ELSE "captured")
      BY <2>2, <2>6, <3>2
    <3>4. call[s].paid = IF p = "finalize" THEN {} ELSE Recipients(v)
      BY <1>3, <2>6 DEF CallsSound
    <3>5. PaidTo(v, IF status[v] = "captured" THEN Recipients(v) ELSE {})'
      BY <2>1, <3>2, <3>3, <3>4 DEF PaidTo, Recipients
    <3> QED
      BY <1>0, <2>1, <2>4, <3>1, <3>2, <3>3, <3>5, HolderEnds
  <2>7. CASE /\ call'[s].o = v /\ call'[s].paid = call[s].paid
             /\ \/ p = "claim" /\ call'[s].pc = "credit"
                \/ p = "share" /\ call'[s].pc = "pay"
             /\ status[v] = "reserved" /\ status'[v] = "releasing"
    <3>1. refunds'[v] = 0 /\ call'[s].paid = {} /\ PaidTo(v, {})
      BY <2>1, <2>7 DEF Claimed, CallsSound
    <3>2. PaidTo(v, call[s].paid)'
      BY <2>1, <3>1 DEF PaidTo
    <3>3. Owns(s, v)'
      BY <2>7 DEF Owns
    <3> QED
      BY <1>0, <2>1, <2>4, <2>7, <3>1, <3>2, <3>3, HolderMoves
  <2> QED
    BY <2>2, <2>3, <2>4, <2>5, <2>6, <2>7
<1>4. CASE call[s].o = v /\ CreditBuyer(s)
  <2>1. /\ Frame(s, v) /\ UNCHANGED <<status, debited, payouts>> /\ call[s].pc = "credit"
        /\ call'[s].o = v /\ call'[s].paid = call[s].paid
        /\ call'[s].pc = "finalize" /\ refunds'[v] = refunds[v] + 1
    BY <1>4, CreditEffect
  <2>2. Debits(v)'
    BY <1>0, <2>1, DebitsKept DEF Due
  <2>3. Owns(s, v) /\ Owns(s, v)'
    BY <1>4, <2>1 DEF Owns
  <2>4. status[v] = "releasing" /\ refunds[v] = 0 /\ PaidTo(v, call[s].paid)
    BY <2>1, <2>3 DEF Claimed
  <2>5. PaidTo(v, call[s].paid)'
    BY <2>1, <2>4 DEF PaidTo
  <2>6. Claimed(v)'
    BY <1>0, <2>1, <2>3, <2>4, <2>5, HolderMoves
  <2> QED
    BY <2>2, <2>6
<1>5. CASE call[s].o = v /\ (PayRecipient(s) \/ UnpayRecipient(s))
  <2>1. Frame(s, v) /\ UNCHANGED <<status, debited, refunds>> /\ call'[s].o = v
    BY <1>5, PayEffect
  <2>2. call[s].pc \in {"pay", "unpay"}
    BY <1>5 DEF PayRecipient, UnpayRecipient, At
  <2>3. Owns(s, v)
    BY <1>5, <2>2 DEF Owns
  <2>4. /\ call[s].pc = "pay" /\ status[v] = "releasing"
        /\ refunds[v] = 0 /\ PaidTo(v, call[s].paid)
    BY <2>2, <2>3 DEF Claimed
  <2>5. PaidTo(v, call[s].paid)' /\ call'[s].pc \in {"pay", "settle"}
    <3>1. CASE \E u \in Recipients(v) \ call[s].paid :
                 /\ call'[s].pc = "pay" /\ call'[s].paid = call[s].paid \cup {u}
                 /\ payouts'[v] = [payouts[v] EXCEPT ![u] = @ + 1]
      <4>1. PICK u \in Recipients(v) \ call[s].paid :
                 /\ call'[s].pc = "pay" /\ call'[s].paid = call[s].paid \cup {u}
                 /\ payouts'[v] = [payouts[v] EXCEPT ![u] = @ + 1]
        BY <3>1
      <4>2. u \in Users /\ payouts[v][u] = 0
        BY <2>4 DEF PaidTo, Recipients
      <4>3. \A w \in Users : payouts'[v][w] = IF w \in call[s].paid \cup {u} THEN 1 ELSE 0
        BY <1>0, <2>4, <4>1, <4>2 DEF PaidTo
      <4> QED
        BY <4>1, <4>3 DEF PaidTo
    <3>2. CASE payouts' = payouts /\ call'[s].paid = call[s].paid /\ call'[s].pc = "settle"
      BY <2>4, <3>2 DEF PaidTo
    <3>3. faults' # faults + 1
      OBVIOUS
    <3> QED
      BY <1>5, <2>4, <3>1, <3>2, <3>3, PayEffect
  <2>6. Owns(s, v)'
    BY <2>1, <2>5 DEF Owns
  <2>7. Claimed(v)'
    BY <1>0, <2>1, <2>3, <2>4, <2>5, <2>6, HolderMoves
  <2>8. Debits(v)'
    BY <1>0, <2>1, <2>4, <2>5, DebitsKept DEF Due
  <2> QED
    BY <2>7, <2>8
<1> QED
  BY <1>1, <1>2, <1>3, <1>4, <1>5 DEF ServiceStep

\* The books of an order concern its status, its money and its calls only.
LEMMA BooksSame ==
  ASSUME NEW e \in Orders, UNCHANGED <<status, debited, refunds, payouts, call>>
  PROVE  (Debits(e) => Debits(e)') /\ (Claimed(e) => Claimed(e)')
<1>1. Due(e)' = Due(e)
  BY DEF Due
<1>2. Debits(e) => Debits(e)'
  BY <1>1 DEF Debits
<1>3. Claimed(e) => Claimed(e)'
  BY DEF Claimed, Owns, PaidTo, Recipients
<1> QED
  BY <1>2, <1>3

\* The invariants about a service without faults and crashes are inductive.
QuietAll == CallsSound /\ Solvent /\ QuietInv

LEMMA QuietInduction == ASSUME IInv, IInv', QuietAll, [Next]_vars PROVE QuietAll'
<1> USE DEF QuietAll
<1>1. ASSUME NEW s \in Calls, ServiceStep(s) \/ Answer(s) \/ \E o \in Orders : Begin(s, o)
      PROVE  QuietAll'
  <2>1. CallsSound' /\ Solvent'
    BY <1>1, SoundStep
  <2>2. PICK v \in Orders :
           Frame(s, v) /\ (Begin(s, v) \/ (call[s].o = v /\ (ServiceStep(s) \/ Answer(s))))
    BY <1>1, BeginEffect, ReserveEffect, StatusEffect, CreditEffect, PayEffect DEF ServiceStep
  <2>3. QuietInv'
    <3> SUFFICES ASSUME faults' = 0, crashes' = 0, NEW e \in Uncaptured
                 PROVE  Debits(e)' /\ Claimed(e)'
      BY DEF QuietInv, Uncaptured
    <3>1. faults = 0 /\ crashes = 0
      BY <2>2 DEF Frame, IInv, TypeOK
    <3>2. Debits(e) /\ Claimed(e)
      BY <3>1 DEF QuietInv
    <3>3. e \in Orders
      BY DEF Uncaptured
    <3>4. CASE e = v
      BY <2>2, <3>1, <3>2, <3>4, QuietStep
    <3>5. CASE e # v
      BY <2>2, <3>2, <3>3, <3>5, BooksElsewhere
    <3> QED
      BY <3>4, <3>5
  <2> QED
    BY <2>1, <2>3
<1>2. ASSUME NEW u \in Users, Spend(u) PROVE QuietAll'
  <2>1. UNCHANGED <<status, debited, refunds, payouts, call, faults, crashes>>
    BY <1>2 DEF Spend
  <2>2. balance[u] > 0 /\ balance' = [balance EXCEPT ![u] = @ + (-1)] /\ balance \in [Users -> Int]
    BY <1>2 DEF Spend, Add, IInv, TypeOK
  <2>3. Solvent'
    BY <2>2 DEF Solvent
  <2>4. CallsSound'
    BY <2>1 DEF CallsSound, Uncaptured, Recipients
  <2>5. QuietInv'
    BY <2>1, BooksSame DEF QuietInv, Uncaptured
  <2> QED
    BY <2>3, <2>4, <2>5
<1>3. CASE Crash
  <2>1. crashes' = crashes + 1 /\ crashes \in Nat /\ balance' = balance /\ call' = [s \in Calls |-> Idle]
    BY <1>3 DEF Crash, money, IInv, TypeOK
  <2>2. QuietInv'
    BY <2>1 DEF QuietInv
  <2>3. CallsSound' /\ Solvent'
    BY <2>1 DEF CallsSound, Solvent, Idle
  <2> QED
    BY <2>2, <2>3
<1>4. CASE UNCHANGED vars
  <2>1. QuietInv'
    BY <1>4, BooksSame DEF vars, QuietInv, Uncaptured
  <2>2. CallsSound' /\ Solvent'
    BY <1>4 DEF vars, CallsSound, Uncaptured, Recipients, Solvent
  <2> QED
    BY <2>1, <2>2
<1> QED
  BY <1>1, <1>2, <1>3, <1>4 DEF Next

\* The invariants about a service without faults hold in every reachable state.
THEOREM QuietInvariance == Spec => []QuietAll
<1>1. Init => QuietAll
  <2> SUFFICES ASSUME Init PROVE QuietAll
    OBVIOUS
  <2>1. CallsSound /\ Solvent
    BY ReservationAssumption DEF Init, CallsSound, Solvent, Idle
  <2>2. ASSUME NEW o \in Orders PROVE Debits(o) /\ Claimed(o)
    <3>1. Due(o) = {}
      BY DEF Init, Due, Idle
    <3>2. IsFiniteSet(Due(o)) /\ Cardinality(Due(o)) = 0
      BY <3>1, FS_EmptySet
    <3>3. Debits(o)
      BY <3>2 DEF Debits, Init
    <3>4. Claimed(o)
      BY DEF Claimed, Init, Owns, Idle, PaidTo
    <3> QED
      BY <3>3, <3>4
  <2>3. QuietInv
    BY <2>2 DEF QuietInv, Uncaptured
  <2> QED
    BY <2>1, <2>3 DEF QuietAll
<1>2. IInv /\ IInv' /\ QuietAll /\ [Next]_vars => QuietAll'
  BY QuietInduction
<1> QED
  BY <1>1, <1>2, Invariance, PTL DEF Spec

\* As long as no call has failed and no process died, the status of an order
\* that nobody captures says where its money is whenever no call is under way
\* (QuietOrderIsSettled: ReserveAsync, ReleaseAsync, DistributeAsync).
THEOREM QuietSettled == Spec => []QuietOrderIsSettled
<1>1. ASSUME IInv, QuietAll PROVE QuietOrderIsSettled
  <2> SUFFICES ASSUME faults = 0, crashes = 0, NEW o \in Uncaptured, Serving(o) = {}
               PROVE  Settled(o)
    BY DEF QuietOrderIsSettled
  <2>1. Debits(o) /\ Claimed(o)
    BY <1>1 DEF QuietAll, QuietInv
  <2>2. \A s \in Calls : s \notin Due(o) /\ ~Owns(s, o)
    BY DEF Serving, Due, Owns
  <2>3. Due(o) = {}
    BY <2>2 DEF Due
  <2>4. debited[o] = IF status[o] = "None" THEN 0 ELSE 1
    BY <2>1, <2>3, FS_EmptySet DEF Debits
  <2>5. status[o] # "releasing"
    BY <2>1, <2>2 DEF Claimed
  <2>6. /\ refunds[o] = IF status[o] = "released" THEN 1 ELSE 0
        /\ PaidTo(o, IF status[o] = "captured" THEN Recipients(o) ELSE {})
    BY <2>1, <2>5 DEF Claimed
  <2> DEFINE paid == {u \in Users : payouts[o][u] # 0}
  <2>7. \A u \in Users : payouts[o][u] \in {0, 1}
    BY <2>6 DEF PaidTo
  <2>8. paid = IF status[o] = "captured" THEN Recipients(o) ELSE {}
    BY <2>6 DEF PaidTo, Recipients
  <2> QED
    BY <2>4, <2>5, <2>6, <2>7, <2>8 DEF Settled
<1>2. IInv /\ QuietAll => QuietOrderIsSettled
  BY <1>1
<1> QED
  BY <1>2, Invariance, QuietInvariance, PTL

-----------------------------------------------------------------------------
(* One fault: one call at most turns back, and takes back what it paid.    *)

\* An order that the step is not about keeps its outcome.
LEMMA OutcomeElsewhere ==
  ASSUME NEW s \in Calls, NEW v \in Orders, NEW e \in Orders, Frame(s, v), e # v, Outcome(e)
  PROVE  Outcome(e)'
<1>1. /\ status'[e] = status[e] /\ refunds'[e] = refunds[e] /\ payouts'[e] = payouts[e]
  BY DEF Frame
<1>2. \A t \in Calls : Owns(t, e)' => Owns(t, e) /\ call'[t] = call[t]
  BY DEF Frame, Owns
<1>3. \A P : PaidTo(e, P)' <=> PaidTo(e, P)
  BY <1>1 DEF PaidTo
<1> QED
  BY <1>1, <1>2, <1>3 DEF Outcome

\* A step that pays nobody and opens nothing keeps the outcome of its order.
LEMMA OutcomeKept ==
  ASSUME NEW s \in Calls, NEW v \in Orders, Frame(s, v), Outcome(v),
         refunds' = refunds, payouts' = payouts,
         Owns(s, v)' => Owns(s, v) /\ call'[s].paid = call[s].paid,
         \/ status'[v] = status[v]
         \/ status[v] = "None" /\ status'[v] = "reserved" /\ \A t \in Calls : ~Owns(t, v)
         \/ status'[v] \in {"released", "captured"} /\ \A t \in Calls : ~Owns(t, v)'
  PROVE  Outcome(v)'
<1>1. \A t \in Calls : Owns(t, v)' => Owns(t, v) /\ call'[t].paid = call[t].paid
  BY DEF Frame, Owns
<1>2. \A P : PaidTo(v, P)' <=> PaidTo(v, P)
  BY DEF PaidTo
<1> QED
  BY <1>1, <1>2 DEF Outcome

\* Money of a user who buys nothing goes down in a compensation only.
LEMMA OneFailureKept ==
  ASSUME IInv, IInv', OneFailure, NEW s \in Calls, NEW v \in Orders, Frame(s, v), faults' <= 1,
         Failing(s)' => (Failing(s) /\ faults' = faults) \/ faults' = faults + 1,
         \A u \in Users : (\A p \in Orders : Buyer[p] # u) => balance'[u] >= balance[u] \/ Failing(s),
         \A u \in call'[s].paid :
             /\ \A p \in Orders : Buyer[p] # u
             /\ (call'[s].pc = "pay" /\ faults' = 0) \/ call'[s].pc = "unpay"
             => balance'[u] >= Share[call'[s].o][u]
  PROVE  OneFailure'
<1>0. faults \in Nat /\ faults' \in {faults, faults + 1}
  BY DEF IInv, TypeOK, Frame
<1>1. \A t \in Calls : t # s => call'[t] = call[t]
  BY DEF Frame
<1>2. \A t \in Calls : Failing(t)' => faults' = 1
  BY <1>0, <1>1 DEF OneFailure, Failing
<1>3. \A t, r \in Calls : Failing(t)' /\ Failing(r)' => t = r
  BY <1>0, <1>1 DEF OneFailure, Failing
<1>4. ASSUME NEW t \in Calls, NEW u \in call'[t].paid,
             \A p \in Orders : Buyer[p] # u,
             (call'[t].pc = "pay" /\ faults' = 0) \/ call'[t].pc = "unpay"
      PROVE  balance'[u] >= Share[call'[t].o][u]
  <2>1. CASE t = s
    BY <1>4, <2>1
  <2>2. CASE t # s
    <3>1. call'[t] = call[t] /\ u \in call[t].paid
      BY <1>1, <2>2
    <3>2. (call[t].pc = "pay" /\ faults = 0) \/ call[t].pc = "unpay"
      BY <1>0, <1>4, <3>1
    <3>3. balance[u] >= Share[call[t].o][u]
      BY <1>4, <3>1, <3>2 DEF OneFailure
    <3>4. u \in Users /\ balance[u] \in Int /\ balance'[u] \in Int
      BY <3>1 DEF IInv, TypeOK, CallType
    <3>5. ~Failing(s)
      BY <2>2, <3>1, <3>2 DEF OneFailure, Failing
    <3>6. balance'[u] >= balance[u]
      BY <1>4, <3>4, <3>5
    <3>7. call[t].o \in Orders /\ Share[call[t].o][u] \in Nat
      BY <3>2, <3>4, OrderKnown, ReservationAssumption
    <3> QED
      BY <3>1, <3>3, <3>4, <3>6, <3>7
  <2> QED
    BY <2>1, <2>2
<1> QED
  BY <1>2, <1>3, <1>4 DEF OneFailure

\* A step of a call keeps the number of failures at one.
LEMMA FailureStep ==
  ASSUME IInv, IInv', CallsSound, Solvent, OneFailure, faults' <= 1,
         NEW s \in Calls, ServiceStep(s) \/ Answer(s) \/ \E o \in Orders : Begin(s, o)
  PROVE  OneFailure'
<1> USE ReservationAssumption
<1>0. /\ balance \in [Users -> Int] /\ balance' \in [Users -> Int]
      /\ \A u \in Users : balance[u] \in Int /\ balance[u] >= 0
  BY DEF IInv, TypeOK, Solvent
<1>1. CASE \E o \in Orders : Begin(s, o)
  <2>1. PICK o \in Orders : Begin(s, o)
    BY <1>1
  <2>2. Frame(s, o) /\ balance' = balance /\ call'[s].paid = {} /\ ~Failing(s)'
    BY <2>1, BeginEffect DEF Failing
  <2> QED
    BY <1>0, <2>2, OneFailureKept
<1> DEFINE v == call[s].o
<1>2. CASE Deduct(s) \/ Insert(s) \/ Compensate(s)
  <2>1. v \in Orders /\ Frame(s, v) /\ ~Failing(s)' /\ call'[s].pc \notin {"pay", "unpay"}
    BY <1>2, ReserveEffect DEF Failing
  <2>2. \/ balance' = balance
        \/ balance' = [balance EXCEPT ![Buyer[v]] = @ - Amount[v]]
        \/ balance' = [balance EXCEPT ![Buyer[v]] = @ + Amount[v]]
    BY <1>2, ReserveEffect
  <2>3. \A u \in Users : (\A p \in Orders : Buyer[p] # u) => balance'[u] >= balance[u]
    BY <1>0, <2>1, <2>2
  <2> QED
    BY <2>1, <2>3, OneFailureKept
<1>3. CASE \/ Capture(s) \/ ClaimRelease(s) \/ ClaimDistribute(s)
           \/ UndoRelease(s) \/ FinalizeRelease(s) \/ ReopenDistribute(s) \/ SettleDistribute(s)
           \/ WriteThrows(s) \/ Answer(s)
  <2>1. v \in Orders /\ Frame(s, v) /\ balance' = balance /\ ~Failing(s)'
    BY <1>3, StatusEffect DEF Failing
  <2>2. call'[s].paid = {}
    BY <1>3, StatusEffect DEF CallsSound
  <2> QED
    BY <1>0, <2>1, <2>2, OneFailureKept
<1>4. CASE CreditBuyer(s)
  <2>1. /\ v \in Orders /\ Frame(s, v) /\ call'[s].pc \in {"finalize", "undo"}
        /\ call'[s].pc = "undo" => faults' = faults + 1
    BY <1>4, CreditEffect
  <2>2. balance' = balance \/ balance' = [balance EXCEPT ![Buyer[v]] = @ + Amount[v]]
    BY <1>4, CreditEffect
  <2>3. \A u \in Users : (\A p \in Orders : Buyer[p] # u) => balance'[u] >= balance[u]
    BY <1>0, <2>1, <2>2
  <2>4. Failing(s)' => faults' = faults + 1
    BY <2>1 DEF Failing
  <2> QED
    BY <2>1, <2>3, <2>4, OneFailureKept
<1>5. CASE PayRecipient(s) \/ UnpayRecipient(s)
  <2>1. v \in Orders /\ Frame(s, v) /\ call'[s].o = v
    BY <1>5, PayEffect
  <2>2. /\ call[s].paid \subseteq Recipients(v) /\ Recipients(v) \subseteq Users
        /\ \A u \in Users : Share[v][u] \in Nat
    BY <2>1 DEF CallsSound, Recipients
  <2>3. faults \in Nat /\ faults' \in {faults, faults + 1}
    BY <2>1 DEF IInv, TypeOK, Frame
  <2>4. CASE /\ UNCHANGED <<balance, payouts>> /\ call'[s].paid = call[s].paid
             /\ \/ /\ call[s].pc = "pay" /\ call'[s].pc = "settle" /\ faults' = faults
                   /\ Recipients(v) \subseteq call[s].paid
                \/ call[s].pc = "pay" /\ call'[s].pc = "unpay" /\ faults' = faults + 1
                \/ /\ call[s].pc = "unpay" /\ call'[s].pc = "reopen" /\ faults' = faults
                   /\ call[s].paid = {}
    <3>1. Failing(s)' => (Failing(s) /\ faults' = faults) \/ faults' = faults + 1
      BY <2>4 DEF Failing
    <3>2. ASSUME NEW u \in call'[s].paid, \A p \in Orders : Buyer[p] # u,
                 (call'[s].pc = "pay" /\ faults' = 0) \/ call'[s].pc = "unpay"
          PROVE  balance'[u] >= Share[call'[s].o][u]
      <4>1. call[s].pc = "pay" /\ faults = 0
        BY <2>3, <2>4, <3>2
      <4> QED
        BY <2>1, <2>4, <3>2, <4>1 DEF OneFailure
    <3> QED
      BY <1>0, <2>1, <2>4, <3>1, <3>2, OneFailureKept
  <2>5. ASSUME NEW u \in Recipients(v) \ call[s].paid,
                  /\ call[s].pc = "pay" /\ call'[s].pc = "pay" /\ faults' = faults
                  /\ call'[s].paid = call[s].paid \cup {u}
                  /\ balance' = [balance EXCEPT ![u] = @ + Share[v][u]]
        PROVE  OneFailure'
    <3>1. \A w \in Users : balance'[w] >= balance[w]
      BY <1>0, <2>2, <2>5
    <3>2. balance'[u] >= Share[v][u]
      BY <1>0, <2>2, <2>5
    <3>3. ASSUME NEW w \in call'[s].paid, \A p \in Orders : Buyer[p] # w,
                 (call'[s].pc = "pay" /\ faults' = 0) \/ call'[s].pc = "unpay"
          PROVE  balance'[w] >= Share[call'[s].o][w]
      <4>1. CASE w = u
        BY <2>1, <3>2, <4>1
      <4>2. CASE w # u
        <5>1. w \in call[s].paid /\ w \in Users /\ balance'[w] = balance[w]
          BY <1>0, <2>2, <2>5, <3>3, <4>2
        <5>2. balance[w] >= Share[v][w]
          BY <2>5, <3>3, <5>1 DEF OneFailure
        <5> QED
          BY <2>1, <5>1, <5>2
      <4> QED
        BY <4>1, <4>2
    <3>4. ~Failing(s)'
      BY <2>5 DEF Failing
    <3> QED
      BY <2>1, <3>1, <3>3, <3>4, OneFailureKept
  <2>6. ASSUME NEW u \in call[s].paid,
                  /\ call[s].pc = "unpay" /\ call'[s].pc = "unpay"
                  /\ call'[s].paid = call[s].paid \ {u}
                  /\ \/ /\ balance[u] >= Share[v][u] /\ faults' = faults
                        /\ balance' = [balance EXCEPT ![u] = @ - Share[v][u]]
                     \/ /\ UNCHANGED <<balance, payouts>>
                        /\ balance[u] < Share[v][u] \/ faults' = faults + 1
        PROVE  OneFailure'
    <3>1. Failing(s)
      BY <2>6 DEF Failing
    <3>2. faults = 1 /\ faults' = faults
      BY <2>3, <3>1 DEF OneFailure
    <3>3. ASSUME NEW w \in call'[s].paid, \A p \in Orders : Buyer[p] # w,
                 (call'[s].pc = "pay" /\ faults' = 0) \/ call'[s].pc = "unpay"
          PROVE  balance'[w] >= Share[call'[s].o][w]
      <4>1. w \in call[s].paid /\ w \in Users /\ balance'[w] = balance[w]
        BY <1>0, <2>2, <2>6, <3>3
      <4>2. balance[w] >= Share[v][w]
        BY <2>6, <3>3, <4>1 DEF OneFailure
      <4> QED
        BY <2>1, <4>1, <4>2
    <3> QED
      BY <2>1, <3>1, <3>2, <3>3, OneFailureKept
  <2> QED
    BY <1>5, <2>4, <2>5, <2>6, PayEffect
<1> QED
  BY <1>1, <1>2, <1>3, <1>4, <1>5 DEF ServiceStep

\* The holder moves on, its payouts known to it.
LEMMA OutcomeMoves ==
  ASSUME IInv', NEW s \in Calls, NEW v \in Orders,
         Owns(s, v)', status'[v] = "releasing", PaidTo(v, call[s].paid)',
         refunds'[v] > 0 => PaidTo(v, {})'
  PROVE  Outcome(v)'
<1>1. \A t \in Calls : Owns(t, v)' => t = s
  BY DEF IInv, OneOwner
<1>2. \A u \in Users : payouts'[v][u] \in {0, 1}
  BY DEF PaidTo
<1> QED
  BY <1>1, <1>2 DEF Outcome

\* With one fault at most a step keeps the outcome of its order.
LEMMA OutcomeStep ==
  ASSUME IInv, IInv', CallsSound, OneFailure, faults' <= 1,
         NEW s \in Calls, NEW v \in PaysOthers, Outcome(v),
         Begin(s, v) \/ (call[s].o = v /\ (ServiceStep(s) \/ Answer(s)))
  PROVE  Outcome(v)'
<1>0. /\ v \in Orders /\ v \in Uncaptured /\ refunds[v] \in Nat /\ faults \in Nat
      /\ payouts[v] \in [Users -> Int] /\ OneOwner(v) /\ OneOwner(v)'
  BY DEF PaysOthers, Uncaptured, IInv, TypeOK
<1>1. CASE Begin(s, v)
  <2>1. /\ Frame(s, v) /\ UNCHANGED <<status, refunds, payouts>>
        /\ call'[s].pc \in {"answered", "deduct", "capture", "claim", "share"}
    BY <1>0, <1>1, BeginEffect
  <2> QED
    BY <1>0, <2>1, OutcomeKept DEF Owns
<1>2. CASE call[s].o = v /\ (Deduct(s) \/ Insert(s) \/ Compensate(s))
  <2>1. /\ Frame(s, v) /\ UNCHANGED <<refunds, payouts>>
        /\ call'[s].pc \in {"answered", "insert", "compensate"}
        /\ status'[v] = status[v] \/ (status[v] = "None" /\ status'[v] = "reserved")
    BY <1>2, ReserveEffect
  <2>2. status[v] = "None" => \A t \in Calls : ~Owns(t, v)
    BY <1>0 DEF OneOwner
  <2> QED
    BY <1>0, <2>1, <2>2, OutcomeKept DEF Owns
<1>3. CASE call[s].o = v /\ (\/ Capture(s) \/ ClaimRelease(s) \/ ClaimDistribute(s)
           \/ UndoRelease(s) \/ FinalizeRelease(s) \/ ReopenDistribute(s) \/ SettleDistribute(s)
           \/ WriteThrows(s) \/ Answer(s))
  <2>1. Frame(s, v) /\ UNCHANGED <<refunds, payouts>> /\ call[s].pc # "capture"
    BY <1>0, <1>3, StatusEffect DEF CallsSound
  <2>2. CASE call'[s].pc \in {"idle", "answered"} /\ status'[v] = status[v]
    BY <1>0, <2>1, <2>2, OutcomeKept DEF Owns
  <2>3. CASE call'[s].pc = "answered" /\ call[s].pc \in {"undo", "reopen"}
             /\ status'[v] = (IF status[v] = "releasing" THEN "reserved" ELSE status[v])
    <3>1. Owns(s, v) /\ call[s].paid = {}
      BY <1>3, <2>3 DEF Owns, CallsSound
    <3>2. PaidTo(v, {}) /\ status'[v] = "reserved"
      BY <2>3, <3>1 DEF Outcome
    <3>3. PaidTo(v, {})' /\ \A u \in Users : payouts'[v][u] \in {0, 1}
      BY <2>1, <3>2 DEF PaidTo
    <3>4. \A t \in Calls : ~Owns(t, v)'
      BY <1>0, <3>2 DEF OneOwner
    <3> QED
      BY <3>3, <3>4 DEF Outcome
  <2>4. CASE call'[s].pc = "answered" /\ call[s].pc \in {"finalize", "settle"}
             /\ status'[v] \in {status[v], "released", "captured"}
    <3>1. Owns(s, v) /\ ~Owns(s, v)'
      BY <1>3, <2>4 DEF Owns
    <3>2. \A t \in Calls : ~Owns(t, v)'
      BY <1>0, <2>1, <3>1 DEF OneOwner, Frame, Owns
    <3> QED
      BY <1>0, <2>1, <2>4, <3>1, <3>2, OutcomeKept
  <2>5. CASE /\ call'[s].o = v /\ call'[s].paid = call[s].paid
             /\ call[s].pc \in {"claim", "share"} /\ call'[s].pc \in {"credit", "pay"}
             /\ status[v] = "reserved" /\ status'[v] = "releasing"
    <3>1. PaidTo(v, {}) /\ call'[s].paid = {}
      BY <2>5 DEF Outcome, CallsSound
    <3>2. PaidTo(v, {})' /\ PaidTo(v, call[s].paid)' /\ Owns(s, v)'
      BY <2>1, <2>5, <3>1 DEF PaidTo, Owns
    <3> QED
      BY <1>0, <2>5, <3>2, OutcomeMoves
  <2> QED
    BY <1>3, <2>1, <2>2, <2>3, <2>4, <2>5, StatusEffect
<1>4. CASE call[s].o = v /\ CreditBuyer(s)
  <2>1. /\ UNCHANGED <<status, payouts>> /\ call[s].pc = "credit"
        /\ call'[s].o = v /\ call'[s].paid = call[s].paid
        /\ call'[s].pc \in {"finalize", "undo"}
    BY <1>4, CreditEffect
  <2>2. Owns(s, v) /\ Owns(s, v)' /\ call[s].paid = {}
    BY <1>4, <2>1 DEF Owns, CallsSound
  <2>3. status[v] = "releasing" /\ PaidTo(v, {})
    BY <2>2 DEF Outcome
  <2>4. PaidTo(v, {})' /\ PaidTo(v, call[s].paid)'
    BY <2>1, <2>2, <2>3 DEF PaidTo
  <2> QED
    BY <1>0, <2>1, <2>2, <2>3, <2>4, OutcomeMoves
<1>5. CASE call[s].o = v /\ (PayRecipient(s) \/ UnpayRecipient(s))
  <2>1. UNCHANGED <<status, refunds>> /\ call'[s].o = v /\ Frame(s, v)
    BY <1>5, PayEffect
  <2>2. call[s].pc \in {"pay", "unpay"} /\ Owns(s, v)
    BY <1>5 DEF PayRecipient, UnpayRecipient, At, Owns
  <2>3. refunds'[v] = 0 /\ status'[v] = "releasing" /\ PaidTo(v, call[s].paid)
    BY <1>0, <2>1, <2>2 DEF OneOwner, Outcome
  <2>4. call'[s].pc \in {"pay", "settle", "unpay", "reopen"}
    BY <1>5, PayEffect
  <2>5. Owns(s, v)'
    BY <2>1, <2>4 DEF Owns
  <2>6. call[s].paid \subseteq Recipients(v) /\ Recipients(v) \subseteq Users
    BY <1>5 DEF CallsSound, Recipients
  <2>7. PaidTo(v, call[s].paid)'
    <3>1. CASE UNCHANGED payouts /\ call'[s].paid = call[s].paid
      BY <2>3, <3>1 DEF PaidTo
    <3>2. ASSUME NEW u \in Recipients(v) \ call[s].paid,
                 call'[s].paid = call[s].paid \cup {u},
                 payouts'[v] = [payouts[v] EXCEPT ![u] = @ + 1]
          PROVE  PaidTo(v, call[s].paid)'
      <4>1. u \in Users /\ payouts[v][u] = 0
        BY <2>3, <2>6 DEF PaidTo
      <4>2. \A w \in Users : payouts'[v][w] = IF w \in call[s].paid \cup {u} THEN 1 ELSE 0
        BY <1>0, <2>3, <3>2, <4>1 DEF PaidTo
      <4> QED
        BY <3>2, <4>2 DEF PaidTo
    <3>3. ASSUME NEW u \in call[s].paid, call[s].pc = "unpay",
                 call'[s].paid = call[s].paid \ {u},
                 \/ payouts'[v] = [payouts[v] EXCEPT ![u] = @ - 1]
                 \/ balance[u] < Share[v][u] \/ faults' = faults + 1
          PROVE  PaidTo(v, call[s].paid)'
      <4>1. u \in Users /\ payouts[v][u] = 1
        BY <2>3, <2>6 DEF PaidTo
      <4>2. faults = 1
        BY <3>3 DEF OneFailure, Failing
      <4>3. \A p \in Orders : Buyer[p] # u
        BY <2>6 DEF PaysOthers
      <4>4. balance[u] >= Share[v][u]
        BY <1>5, <3>3, <4>3 DEF OneFailure
      <4>5. balance[u] \in Int /\ Share[v][u] \in Nat
        BY <1>0, <4>1, ReservationAssumption DEF IInv, TypeOK
      <4>6. payouts'[v] = [payouts[v] EXCEPT ![u] = @ - 1]
        BY <3>3, <4>2, <4>4, <4>5
      <4>7. \A w \in Users : payouts'[v][w] = IF w \in call[s].paid \ {u} THEN 1 ELSE 0
        BY <1>0, <2>3, <4>1, <4>6 DEF PaidTo
      <4> QED
        BY <3>3, <4>7 DEF PaidTo
    <3> QED
      BY <1>5, <3>1, <3>2, <3>3, PayEffect
  <2> QED
    BY <1>0, <2>3, <2>5, <2>7, OutcomeMoves
<1> QED
  BY <1>1, <1>2, <1>3, <1>4, <1>5 DEF ServiceStep

LEMMA OutcomeInduction ==
  ASSUME IInv, IInv', CallsSound, Solvent, OutcomeInv, [Next]_vars
  PROVE  OutcomeInv'
<1>1. ASSUME NEW s \in Calls, ServiceStep(s) \/ Answer(s) \/ \E o \in Orders : Begin(s, o)
      PROVE  OutcomeInv'
  <2>1. PICK v \in Orders :
           Frame(s, v) /\ (Begin(s, v) \/ (call[s].o = v /\ (ServiceStep(s) \/ Answer(s))))
    BY <1>1, BeginEffect, ReserveEffect, StatusEffect, CreditEffect, PayEffect DEF ServiceStep
  <2> SUFFICES ASSUME faults' <= 1, spends' = 0
               PROVE  OneFailure' /\ \A o \in PaysOthers : Outcome(o)'
    BY DEF OutcomeInv, PaysOthers, Uncaptured, Recipients
  <2>2. faults <= 1 /\ spends = 0
    BY <2>1 DEF Frame, IInv, TypeOK
  <2>3. OneFailure /\ \A o \in PaysOthers : Outcome(o)
    BY <2>2 DEF OutcomeInv
  <2>4. OneFailure'
    BY <1>1, <2>3, FailureStep
  <2>5. ASSUME NEW e \in PaysOthers PROVE Outcome(e)'
    <3>1. e \in Orders
      BY DEF PaysOthers, Uncaptured
    <3>2. CASE e = v
      BY <2>1, <2>3, <3>2, OutcomeStep
    <3>3. CASE e # v
      BY <2>1, <2>3, <3>1, <3>3, OutcomeElsewhere
    <3> QED
      BY <3>2, <3>3
  <2> QED
    BY <2>4, <2>5
<1>2. ASSUME NEW u \in Users, Spend(u) PROVE OutcomeInv'
  BY <1>2 DEF Spend, OutcomeInv, IInv, TypeOK
<1>3. CASE Crash
  <2>1. UNCHANGED <<status, refunds, payouts, faults, spends, balance>> /\ call' = [s \in Calls |-> Idle]
    BY <1>3 DEF Crash, money
  <2>2. OneFailure'
    BY <2>1 DEF OneFailure, Failing, Idle
  <2>3. \A o \in PaysOthers : Outcome(o) => Outcome(o)'
    BY <2>1 DEF Outcome, Owns, Idle, PaidTo
  <2> QED
    BY <2>1, <2>2, <2>3 DEF OutcomeInv, PaysOthers, Uncaptured, Recipients
<1>4. CASE UNCHANGED vars
  <2>1. OneFailure => OneFailure'
    BY <1>4 DEF vars, OneFailure, Failing
  <2>2. \A o \in PaysOthers : Outcome(o) => Outcome(o)'
    BY <1>4 DEF vars, Outcome, Owns, PaidTo
  <2> QED
    BY <1>4, <2>1, <2>2 DEF vars, OutcomeInv, PaysOthers, Uncaptured, Recipients
<1> QED
  BY <1>1, <1>2, <1>3, <1>4 DEF Next

\* With one failed call, and no payout spent before it is taken back, nobody is
\* paid twice, and an order that is paid out is not refunded too (OneOutcome:
\* DistributeAsync and ReleaseAsync), whatever crashes.
THEOREM OneOutcomeOnly == Spec => []OneOutcome
<1>1. Init => OutcomeInv
  BY DEF Init, OutcomeInv, OneFailure, Failing, Outcome, Owns, Idle, PaidTo, PaysOthers, Uncaptured
<1>2. IInv /\ IInv' /\ QuietAll /\ OutcomeInv /\ [Next]_vars => OutcomeInv'
  BY OutcomeInduction DEF QuietAll
<1>3. OutcomeInv => OneOutcome
  BY DEF OutcomeInv, OneOutcome, Outcome, PaidTo
<1> QED
  BY <1>1, <1>2, <1>3, Invariance, QuietInvariance, PTL DEF Spec

\* No wallet is overdrawn by a reservation or by the compensation of a payout.
THEOREM WalletsSolvent == Spec => []Solvent
<1>1. QuietAll => Solvent
  BY DEF QuietAll
<1> QED
  BY <1>1, QuietInvariance, PTL

-----------------------------------------------------------------------------
(* The order workflow: its steps as steps of the reservation service.      *)

\* markOrderFailed or markOrderFulfilled may fail.
LEMMA EndEffect ==
  ASSUME MarketInv, NEW o \in Orders, NEW st \in OrderStates, End(o, st)
  PROVE  /\ flow' = [flow EXCEPT ![o] = "end"]
         /\ \/ order' = [order EXCEPT ![o] = st] /\ goFaults' = goFaults
            \/ order' = order /\ goFaults' = goFaults + 1
BY DEF End, Step, GoFault

\* What a step of the workflow of o leaves alone, as far as the other orders
\* can tell.
Alone(o) ==
    /\ \A e \in Orders : e # o =>
          /\ order'[e] = order[e] /\ flow'[e] = flow[e] /\ call'[e] = call[e]
          /\ status'[e] = status[e] /\ debited'[e] = debited[e] /\ refunds'[e] = refunds[e]
          /\ Bought(e)' <=> Bought(e)
    /\ Calm' => Calm

\* The other orders go on as before.
LEMMA OthersKept ==
  ASSUME NEW o \in Orders, NEW e \in Orders, e # o, Alone(o), Journey(e)
  PROVE  Journey(e)'
<1>1. /\ order'[e] = order[e] /\ flow'[e] = flow[e] /\ call'[e] = call[e]
      /\ status'[e] = status[e] /\ debited'[e] = debited[e] /\ refunds'[e] = refunds[e]
      /\ Bought(e)' <=> Bought(e)
      /\ Calm' => Calm
  BY DEF Alone
<1>2. /\ CallOfOrder(e)'
      /\ status'[e] = "captured" \/ call'[e].pc = "capture" => Bought(e)'
      /\ flow'[e] # "end" => order'[e] # "fulfilled"
  BY <1>1 DEF Journey, CallOfOrder
<1>3. /\ BeforeReserve(e) => BeforeReserve(e)'
      /\ BeforeBuy(e) => BeforeBuy(e)'
      /\ BeforeRelease(e) => BeforeRelease(e)'
      /\ BeforeCapture(e) => BeforeCapture(e)'
  BY <1>1 DEF BeforeReserve, BeforeBuy, BeforeRelease, BeforeCapture, Held, Unpaid
<1>4. Reserving(e) => Reserving(e)'
  BY <1>1 DEF Reserving, Held
<1>5. Releasing(e) => Releasing(e)'
  BY <1>1 DEF Releasing
<1>6. Capturing(e) => Capturing(e)'
  BY <1>1 DEF Capturing
<1>7. Ended(e) => Ended(e)'
  BY <1>1 DEF Ended
<1> QED
  BY <1>1, <1>2, <1>3, <1>4, <1>5, <1>6, <1>7 DEF Journey

\* What a step of the workflow of o may change outside the service.
Goes(o) ==
    /\ \E p \in FlowPcs : flow' = [flow EXCEPT ![o] = p]
    /\ \E st \in OrderStates : order' = [order EXCEPT ![o] = st]
    /\ sold' = sold \/ Sell(o)
    /\ expired \subseteq expired' /\ expired' \subseteq Orders
    /\ lost' \in {lost, lost + 1} /\ restarts' = restarts
    /\ goFaults' \in {goFaults, goFaults + 1}

\* Such a step, that is one of the call of o in the service at most, keeps the
\* invariant if it keeps the part about o.
LEMMA WorkflowKept ==
  ASSUME MarketInv, IInv', NEW o \in Orders, Goes(o), Frame(o, o), Journey(o)'
  PROVE  MarketInv'
<1> USE MarketOrderAssumption
<1>1. MarketTypeOK'
  <2>1. TypeOK'
    BY DEF IInv
  <2>2. sold' \in [Items -> Orders \cup {NoBuyer}]
    BY DEF MarketInv, MarketTypeOK, Goes, Sell
  <2>3. flow' \in [Orders -> FlowPcs] /\ order' \in [Orders -> OrderStates]
    BY DEF MarketInv, MarketTypeOK, Goes
  <2>4. lost' \in Nat /\ restarts' \in Nat /\ goFaults' \in Nat /\ expired' \subseteq Orders
    BY DEF MarketInv, MarketTypeOK, Goes
  <2> QED
    BY <2>1, <2>2, <2>3, <2>4 DEF MarketTypeOK
<1>2. Alone(o)
  <2>1. \A e \in Orders : e # o =>
          /\ order'[e] = order[e] /\ flow'[e] = flow[e] /\ call'[e] = call[e]
          /\ status'[e] = status[e] /\ debited'[e] = debited[e] /\ refunds'[e] = refunds[e]
    BY DEF Goes, Frame, MarketInv, MarketTypeOK
  <2>2. \A e \in Orders : e # o => (Bought(e)' <=> Bought(e))
    <3>1. CASE sold' = sold
      BY <3>1 DEF Bought
    <3>2. CASE Sell(o)
      <4>1. /\ sold \in [Items -> Orders \cup {NoBuyer}]
            /\ sold[Item[o]] = NoBuyer /\ sold' = [sold EXCEPT ![Item[o]] = o]
        BY <3>2 DEF Sell, MarketInv, MarketTypeOK
      <4>2. \A e \in Orders : Item[e] \in Items /\ e # NoBuyer
        OBVIOUS
      <4> QED
        BY <4>1, <4>2 DEF Bought
    <3> QED
      BY <3>1, <3>2 DEF Goes
  <2>3. Calm' => Calm
    BY DEF Goes, Frame, Calm, Untroubled, MarketInv, MarketTypeOK, TypeOK
  <2> QED
    BY <2>1, <2>2, <2>3 DEF Alone
<1>3. \A e \in Orders : Journey(e)'
  BY <1>2, OthersKept DEF MarketInv
<1> QED
  BY <1>1, <1>3 DEF MarketInv

\* A step of a goroutine that makes no call leaves the service alone.
LEMMA GoAlone ==
  ASSUME MarketInv, NEW o \in Orders, UNCHANGED vars
  PROVE  IInv' /\ Frame(o, o)
<1>1. IInv'
  BY NextKept DEF MarketInv
<1>2. Frame(o, o)
  BY MarketOrderAssumption DEF Frame, MarketInv, Journey, CallOfOrder, vars, TypeOK, MarketTypeOK
<1> QED
  BY <1>1, <1>2

LEMMA CreateKept == ASSUME MarketInv, NEW o \in Orders, CreateOrder(o) PROVE MarketInv'
<1>1. /\ UNCHANGED vars
      /\ UNCHANGED <<sold, expired, restarts>> /\ lost' \in {lost, lost + 1}
      /\ flow[o] = "new"
      /\ \/ /\ order' = [order EXCEPT ![o] = "processing"] /\ flow' = [flow EXCEPT ![o] = "balance"]
            /\ goFaults' = goFaults
         \/ order' = order /\ flow' = [flow EXCEPT ![o] = "end"] /\ goFaults' = goFaults + 1
  BY DEF CreateOrder, Lose, Step, GoFault
<1>2. Goes(o)
  BY <1>1 DEF Goes, FlowPcs, Waiting, OrderStates, MarketInv, MarketTypeOK
<1>3. IInv' /\ Frame(o, o)
  BY <1>1, GoAlone
<1>4. Journey(o)'
  <2>1. Journey(o) /\ BeforeReserve(o) /\ order[o] # "fulfilled"
    BY <1>1 DEF MarketInv, Journey
  <2>2. BeforeReserve(o)' /\ CallOfOrder(o)' /\ ~Bought(o)' /\ status'[o] # "captured" /\ call'[o].pc = "idle"
    BY <1>1, <2>1 DEF BeforeReserve, Journey, CallOfOrder, Bought, Unpaid, vars
  <2>3. order'[o] # "fulfilled" /\ flow'[o] \in {"balance", "end"}
        /\ (flow'[o] = "end" => ~Calm')
    BY <1>1, <2>1 DEF MarketInv, MarketTypeOK, TypeOK, Calm, Untroubled
  <2> QED
    BY <2>2, <2>3 DEF Journey, Ended
<1> QED
  BY <1>2, <1>3, <1>4, WorkflowKept

\* CheckUserBalance: an empty wallet ends the order, unpaid.
LEMMA BalanceKept == ASSUME MarketInv, NEW o \in Orders, CheckUserBalance(o) PROVE MarketInv'
<1>1. /\ UNCHANGED vars
      /\ UNCHANGED <<sold, expired, restarts>> /\ lost' \in {lost, lost + 1}
      /\ flow[o] = "balance"
      /\ \/ order' = order /\ flow' = [flow EXCEPT ![o] = "reserve"] /\ goFaults' = goFaults
         \/ End(o, "no_hold")
  BY DEF CheckUserBalance, Lose, Step
<1>2. \/ order' = order /\ flow' = [flow EXCEPT ![o] = "reserve"] /\ goFaults' = goFaults
      \/ /\ flow' = [flow EXCEPT ![o] = "end"]
         /\ \/ order' = [order EXCEPT ![o] = "no_hold"] /\ goFaults' = goFaults
            \/ order' = order /\ goFaults' = goFaults + 1
  BY <1>1, EndEffect DEF OrderStates
<1>3. Goes(o)
  BY <1>1, <1>2 DEF Goes, FlowPcs, Waiting, OrderStates, MarketInv, MarketTypeOK
<1>4. IInv' /\ Frame(o, o)
  BY <1>1, <1>2, GoAlone
<1>5. Journey(o)'
  <2>1. Journey(o) /\ BeforeReserve(o) /\ order[o] # "fulfilled"
    BY <1>1 DEF MarketInv, Journey
  <2>2. BeforeReserve(o)' /\ CallOfOrder(o)'
    BY <1>1, <2>1 DEF BeforeReserve, Journey, CallOfOrder, Bought, Unpaid, vars
  <2>3. /\ order'[o] # "fulfilled" /\ flow'[o] \in {"reserve", "end"}
        /\ flow'[o] = "end" => ~Calm' \/ order'[o] = "no_hold"
    BY <1>2, <2>1 DEF MarketInv, MarketTypeOK, TypeOK, Calm, Untroubled
  <2> QED
    BY <2>2, <2>3 DEF Journey, Ended, BeforeReserve, Unpaid
<1> QED
  BY <1>3, <1>4, <1>5, WorkflowKept

\* CheckSupplier, CheckItem, Buy and Expire concern the provider and the clock.
LEMMA ProviderKept ==
  ASSUME MarketInv, NEW o \in Orders, CheckSupplier(o) \/ CheckItem(o) \/ Buy(o) \/ Expire(o)
  PROVE  MarketInv'
<1>1. UNCHANGED vars
  BY DEF CheckSupplier, CheckItem, Buy, Expire
<1>2. UNCHANGED <<order, restarts, goFaults>> /\ lost' \in {lost, lost + 1}
  BY DEF CheckSupplier, CheckItem, Buy, Expire, Lose
<1>3. IInv' /\ Frame(o, o)
  BY <1>1, GoAlone
<1>4. Journey(o)
  BY DEF MarketInv
<1>5. CASE CheckSupplier(o) \/ CheckItem(o)
  <2>1. /\ flow[o] \in {"supplier", "item"} /\ UNCHANGED <<sold, expired, lost>>
        /\ \E p \in {"item", "release", "buy"} : flow' = [flow EXCEPT ![o] = p]
    BY <1>5 DEF CheckSupplier, CheckItem, Step
  <2>2. Goes(o) /\ flow'[o] \in {"item", "release", "buy"}
    <3>1. PICK p \in {"item", "release", "buy"} : flow' = [flow EXCEPT ![o] = p]
      BY <2>1
    <3>2. p \in FlowPcs
      BY DEF FlowPcs
    <3>3. order' = [order EXCEPT ![o] = order[o]] /\ order[o] \in OrderStates
      BY <1>2 DEF MarketInv, MarketTypeOK
    <3>4. Goes(o)
      BY <1>2, <2>1, <3>1, <3>2, <3>3 DEF Goes, MarketInv, MarketTypeOK
    <3>5. flow'[o] = p
      BY <3>1 DEF MarketInv, MarketTypeOK
    <3> QED
      BY <3>4, <3>5
  <2>3. BeforeBuy(o) /\ order[o] # "fulfilled"
    BY <1>4, <2>1 DEF Journey
  <2>4. BeforeBuy(o)' /\ BeforeRelease(o)' /\ CallOfOrder(o)' /\ status'[o] # "captured"
    BY <1>1, <1>4, <2>1, <2>3 DEF BeforeBuy, BeforeRelease, Held, Bought, Journey, CallOfOrder, vars
  <2>5. Journey(o)'
    BY <1>2, <2>2, <2>3, <2>4 DEF Journey, BeforeBuy
  <2> QED
    BY <1>3, <2>2, <2>5, WorkflowKept
<1>6. CASE Buy(o)
  <2>1. /\ flow[o] = "buy" /\ UNCHANGED expired
        /\ \/ Sell(o) /\ flow' = [flow EXCEPT ![o] = "capture"]
           \/ sold' = sold /\ flow' = [flow EXCEPT ![o] = "release"]
           \/ Sell(o) /\ flow' = [flow EXCEPT ![o] = "release"] /\ lost' = lost + 1
    BY <1>6 DEF Buy, Step, Lose
  <2>2. Goes(o) /\ flow'[o] \in {"capture", "release"}
    BY <1>2, <2>1 DEF Goes, FlowPcs, MarketInv, MarketTypeOK
  <2>3. BeforeBuy(o) /\ order[o] # "fulfilled"
    BY <1>4, <2>1 DEF Journey
  <2>4. Item[o] \in Items /\ sold \in [Items -> Orders \cup {NoBuyer}]
    BY MarketOrderAssumption DEF MarketInv, MarketTypeOK
  <2>5. (sold' = sold /\ ~Bought(o)') \/ Bought(o)'
    BY <2>1, <2>3, <2>4 DEF BeforeBuy, Bought, Sell
  <2>6. /\ flow'[o] = "capture" => Bought(o)'
        /\ flow'[o] = "release" => lost' = lost + 1 \/ ~Bought(o)'
    BY <2>1, <2>3, <2>4, <2>5 DEF BeforeBuy, Bought, Sell, MarketInv, MarketTypeOK
  <2>7. Held(o)' /\ call'[o].pc = "idle" /\ CallOfOrder(o)'
    BY <1>1, <1>4, <2>3 DEF BeforeBuy, Held, Journey, CallOfOrder, vars
  <2>8. lost' = lost + 1 => ~Calm'
    BY DEF Calm, Untroubled, MarketInv, MarketTypeOK
  <2>9. Journey(o)'
    BY <1>2, <2>2, <2>3, <2>6, <2>7, <2>8 DEF Journey, Held, BeforeCapture, BeforeRelease
  <2> QED
    BY <1>3, <2>2, <2>9, WorkflowKept
<1>7. CASE Expire(o)
  <2>1. UNCHANGED <<flow, sold>> /\ expired' = expired \cup {o} /\ o \notin expired
    BY <1>7 DEF Expire
  <2>2. Goes(o)
    BY <1>2, <2>1 DEF Goes, MarketInv, MarketTypeOK
  <2>3. ~Calm'
    BY <2>1 DEF Calm
  <2>4. Bought(o)' <=> Bought(o)
    BY <2>1 DEF Bought
  <2>5. Journey(o)'
    <3>1. /\ CallOfOrder(o)' /\ (status'[o] = "captured" \/ call'[o].pc = "capture" => Bought(o)')
          /\ flow'[o] # "end" => order'[o] # "fulfilled"
      BY <1>1, <1>2, <1>4, <2>1, <2>4 DEF Journey, CallOfOrder, vars
    <3>2. /\ BeforeReserve(o) => BeforeReserve(o)'
          /\ BeforeBuy(o) => BeforeBuy(o)'
          /\ BeforeRelease(o) => BeforeRelease(o)'
          /\ BeforeCapture(o) => BeforeCapture(o)'
      BY <1>1, <2>3, <2>4 DEF BeforeReserve, BeforeBuy, BeforeRelease, BeforeCapture, Held, Unpaid, vars
    <3>3. Reserving(o) => Reserving(o)'
      BY <1>1, <2>3, <2>4 DEF Reserving, Held, vars
    <3>4. (Releasing(o) => Releasing(o)') /\ (Capturing(o) => Capturing(o)')
      BY <1>1, <2>3, <2>4 DEF Releasing, Capturing, vars
    <3>5. Ended(o) => Ended(o)'
      BY <1>1, <1>2, <2>3, <2>4 DEF Ended, vars
    <3> QED
      BY <1>4, <2>1, <3>1, <3>2, <3>3, <3>4, <3>5 DEF Journey
  <2> QED
    BY <1>3, <2>2, <2>5, WorkflowKept
<1> QED
  BY <1>5, <1>6, <1>7

\* A request reaches the service, which looks the reservation up.
LEMMA SendKept ==
  ASSUME MarketInv, NEW o \in Orders, SendReserve(o) \/ SendRelease(o) \/ SendCapture(o)
  PROVE  MarketInv'
<1> USE MarketOrderAssumption
<1>0. IInv /\ TypeOK /\ Journey(o) /\ o \in Calls
  BY DEF MarketInv, IInv
<1>1. Begin(o, o)
  BY DEF SendReserve, SendRelease, SendCapture, Begin
<1>2. /\ Frame(o, o) /\ UNCHANGED <<status, balance, debited, refunds, payouts, faults, crashes, spends>>
      /\ call'[o].o = o
  BY <1>0, <1>1, BeginEffect
<1>3. IInv'
  BY <1>0, <1>1, BeginKept
<1>4. UNCHANGED <<order, sold, expired, lost, restarts, goFaults>>
  BY DEF SendReserve, SendRelease, SendCapture, Send
<1>5. \/ flow[o] = "reserve" /\ flow' = [flow EXCEPT ![o] = "reserving"] /\ BeginReserve(o, o)
      \/ flow[o] = "release" /\ flow' = [flow EXCEPT ![o] = "releasing"] /\ BeginRelease(o, o)
      \/ flow[o] = "capture" /\ flow' = [flow EXCEPT ![o] = "capturing"] /\ BeginCapture(o, o)
  BY DEF SendReserve, SendRelease, SendCapture, Send, Step
<1>6. Goes(o)
  BY <1>4, <1>5 DEF Goes, FlowPcs, Waiting, MarketInv, MarketTypeOK
<1>7. (Bought(o)' <=> Bought(o)) /\ (Calm' <=> Calm) /\ order[o] # "fulfilled"
  BY <1>0, <1>2, <1>4, <1>5 DEF Bought, Calm, Untroubled, Journey
<1>8. CASE flow[o] = "reserve" /\ flow' = [flow EXCEPT ![o] = "reserving"] /\ BeginReserve(o, o)
  <2>1. BeforeReserve(o) /\ flow'[o] = "reserving"
    BY <1>0, <1>8 DEF Journey, MarketInv, MarketTypeOK
  <2>2. Start(o, o, "deduct")
    BY <1>8, <2>1 DEF BeginReserve, BeforeReserve
  <2>3. call'[o].pc = "deduct"
    BY <1>0, <2>2, Started DEF CallPcs
  <2>4. Journey(o)'
    BY <1>2, <1>4, <1>7, <2>1, <2>3 DEF Journey, CallOfOrder, BeforeReserve, Reserving, Unpaid
  <2> QED
    BY <1>2, <1>3, <1>6, <2>4, WorkflowKept
<1>9. CASE flow[o] = "release" /\ flow' = [flow EXCEPT ![o] = "releasing"] /\ BeginRelease(o, o)
  <2>1. BeforeRelease(o) /\ flow'[o] = "releasing"
    BY <1>0, <1>9 DEF Journey, MarketInv, MarketTypeOK
  <2>2. Start(o, o, "claim")
    BY <1>9, <2>1 DEF BeginRelease, BeforeRelease, Held
  <2>3. call'[o].pc = "claim"
    BY <1>0, <2>2, Started DEF CallPcs
  <2>4. Journey(o)'
    BY <1>2, <1>4, <1>7, <2>1, <2>3 DEF Journey, CallOfOrder, BeforeRelease, Releasing, Held
  <2> QED
    BY <1>2, <1>3, <1>6, <2>4, WorkflowKept
<1>10. CASE flow[o] = "capture" /\ flow' = [flow EXCEPT ![o] = "capturing"] /\ BeginCapture(o, o)
  <2>1. BeforeCapture(o) /\ flow'[o] = "capturing"
    BY <1>0, <1>10 DEF Journey, MarketInv, MarketTypeOK
  <2>2. Start(o, o, "capture")
    BY <1>10, <2>1 DEF BeginCapture, BeforeCapture, Held
  <2>3. call'[o].pc = "capture"
    BY <1>0, <2>2, Started DEF CallPcs
  <2>4. Journey(o)'
    BY <1>2, <1>4, <1>7, <2>1, <2>3 DEF Journey, CallOfOrder, BeforeCapture, Capturing, Held
  <2> QED
    BY <1>2, <1>3, <1>6, <2>4, WorkflowKept
<1> QED
  BY <1>5, <1>8, <1>9, <1>10

\* The goroutine hears the answer, or gives up: a fulfilled order was captured.
LEMMA ReceiveKept == ASSUME MarketInv, NEW o \in Orders, Receive(o) PROVE MarketInv'
<1> USE MarketOrderAssumption
<1>0. IInv /\ TypeOK /\ Journey(o) /\ o \in Calls /\ CallOfOrder(o)
  BY DEF MarketInv, IInv, Journey
<1>1. /\ UNCHANGED <<status, balance, debited, refunds, payouts, faults, crashes, spends>>
      /\ UNCHANGED <<sold, expired, lost, restarts>> /\ Answer(o)
      /\ flow[o] \in Waiting /\ call[o].pc = "answered" /\ call' = [call EXCEPT ![o] = Idle]
      /\ \/ /\ flow[o] = "reserving" /\ call[o].ok /\ flow' = [flow EXCEPT ![o] = "supplier"]
            /\ order' = order /\ goFaults' = goFaults
         \/ flow[o] = "capturing" /\ call[o].ok /\ End(o, "fulfilled")
         \/ flow[o] = "reserving" /\ ~call[o].ok /\ End(o, "no_hold")
         \/ flow[o] = "releasing" /\ End(o, "no_sale")
         \/ flow[o] = "capturing" /\ ~call[o].ok /\ End(o, "no_capture")
  BY DEF Receive, FailureOf, Waiting, Step, Answer, At, money
<1>2. \/ /\ flow[o] = "reserving" /\ call[o].ok /\ flow' = [flow EXCEPT ![o] = "supplier"]
         /\ order' = order /\ goFaults' = goFaults
      \/ \E st \in {"fulfilled", "no_hold", "no_sale", "no_capture"} :
            /\ flow' = [flow EXCEPT ![o] = "end"]
            /\ \/ order' = [order EXCEPT ![o] = st] /\ goFaults' = goFaults
               \/ order' = order /\ goFaults' = goFaults + 1
            /\ flow[o] \in {"reserving", "releasing", "capturing"}
            /\ st = "fulfilled" <=> flow[o] = "capturing" /\ call[o].ok
            /\ st = "no_hold" <=> flow[o] = "reserving"
            /\ st = "no_sale" <=> flow[o] = "releasing"
            /\ flow[o] = "reserving" => ~call[o].ok
  BY <1>1, EndEffect DEF OrderStates
<1>3. goFaults \in Nat /\ goFaults' \in {goFaults, goFaults + 1}
  BY <1>2 DEF MarketInv, MarketTypeOK
<1>4. /\ call'[o].pc = "idle" /\ \A t \in Calls : t # o => call'[t] = call[t]
  BY <1>0, <1>1 DEF TypeOK, Idle
<1>5. Frame(o, o)
  BY <1>0, <1>1, <1>3, <1>4 DEF Frame, CallOfOrder
<1>6. IInv'
  BY <1>0, <1>1, NextKept DEF Next
<1>7. Goes(o)
  BY <1>1, <1>2 DEF Goes, FlowPcs, OrderStates, MarketInv, MarketTypeOK
<1>8. (Bought(o)' <=> Bought(o)) /\ order[o] # "fulfilled" /\ (Calm' => Calm /\ goFaults' = goFaults)
  BY <1>0, <1>1, <1>3 DEF Bought, Calm, Untroubled, Journey, Waiting
<1>9. Journey(o)'
  <2>1. /\ CallOfOrder(o)'
        /\ status'[o] = "captured" \/ call'[o].pc = "capture" => Bought(o)'
    BY <1>0, <1>1, <1>4, <1>8 DEF CallOfOrder, Journey
  <2>2. CASE /\ flow[o] = "reserving" /\ call[o].ok /\ flow' = [flow EXCEPT ![o] = "supplier"]
             /\ order' = order
    <3>1. Reserving(o) /\ flow'[o] = "supplier"
      BY <1>0, <2>2 DEF Journey, MarketInv, MarketTypeOK
    <3>2. BeforeBuy(o)'
      BY <1>1, <1>4, <1>8, <2>2, <3>1 DEF Reserving, BeforeBuy, Held
    <3> QED
      BY <1>8, <2>1, <2>2, <3>1, <3>2 DEF Journey
  <2>3. ASSUME NEW st \in {"fulfilled", "no_hold", "no_sale", "no_capture"},
               flow' = [flow EXCEPT ![o] = "end"],
               \/ order' = [order EXCEPT ![o] = st] /\ goFaults' = goFaults
               \/ order' = order /\ goFaults' = goFaults + 1,
               flow[o] \in {"reserving", "releasing", "capturing"},
               st = "fulfilled" <=> flow[o] = "capturing" /\ call[o].ok,
               st = "no_hold" <=> flow[o] = "reserving",
               st = "no_sale" <=> flow[o] = "releasing",
               flow[o] = "reserving" => ~call[o].ok
        PROVE  Journey(o)'
    <3>1. flow'[o] = "end" /\ (order'[o] = st \/ (order'[o] = order[o] /\ ~Calm'))
      BY <1>3, <1>8, <2>3 DEF MarketInv, MarketTypeOK
    <3>2. CASE flow[o] = "capturing"
      <4>1. Capturing(o)
        BY <1>0, <3>2 DEF Journey
      <4>2. Ended(o)'
        BY <1>1, <1>4, <1>8, <2>3, <3>1, <3>2, <4>1 DEF Capturing, Ended
      <4> QED
        BY <2>1, <3>1, <4>2 DEF Journey
    <3>3. CASE flow[o] = "reserving"
      <4>1. Reserving(o)
        BY <1>0, <3>3 DEF Journey
      <4>2. Ended(o)'
        BY <1>1, <1>4, <1>8, <2>3, <3>1, <3>3, <4>1 DEF Reserving, Ended
      <4> QED
        BY <2>1, <3>1, <4>2 DEF Journey
    <3>4. CASE flow[o] = "releasing"
      <4>1. Releasing(o)
        BY <1>0, <3>4 DEF Journey
      <4>2. Ended(o)'
        BY <1>1, <1>4, <1>8, <2>3, <3>1, <3>4, <4>1 DEF Releasing, Ended
      <4> QED
        BY <2>1, <3>1, <4>2 DEF Journey
    <3> QED
      BY <2>3, <3>2, <3>3, <3>4
  <2> QED
    BY <1>2, <2>2, <2>3
<1> QED
  BY <1>5, <1>6, <1>7, <1>9, WorkflowKept

\* A goroutine that stops waiting fails the order.
LEMMA NoAnswerKept == ASSUME MarketInv, NEW o \in Orders, NoAnswer(o) PROVE MarketInv'
<1> USE MarketOrderAssumption
<1>0. IInv /\ TypeOK /\ Journey(o) /\ CallOfOrder(o)
  BY DEF MarketInv, IInv, Journey
<1>1. /\ UNCHANGED vars
      /\ UNCHANGED <<sold, expired, restarts>> /\ lost' \in {lost, lost + 1}
      /\ flow[o] \in {"reserving", "releasing", "capturing", "reserve", "release", "capture"}
      /\ \/ lost' = lost + 1 \/ o \in expired
         \/ flow[o] \in {"reserving", "releasing", "capturing"} /\ call[o] = Idle
      /\ End(o, FailureOf(flow[o]))
  BY DEF NoAnswer, Waiting, Lose
<1>2. FailureOf(flow[o]) \in {"no_hold", "no_sale", "no_capture"}
  BY <1>1 DEF FailureOf
<1>3. /\ flow' = [flow EXCEPT ![o] = "end"]
      /\ \E st \in {"no_hold", "no_sale", "no_capture"} :
            \/ order' = [order EXCEPT ![o] = st] /\ goFaults' = goFaults
            \/ order' = order /\ goFaults' = goFaults + 1
  BY <1>1, <1>2, EndEffect DEF OrderStates
<1>4. Goes(o)
  BY <1>1, <1>3 DEF Goes, FlowPcs, OrderStates, MarketInv, MarketTypeOK
<1>5. IInv' /\ Frame(o, o)
  BY <1>1, <1>3, GoAlone
<1>6. (Bought(o)' <=> Bought(o)) /\ order[o] # "fulfilled"
  BY <1>0, <1>1 DEF Bought, Journey
<1>7. ~Calm'
  <2> SUFFICES ASSUME Calm' PROVE FALSE
    OBVIOUS
  <2>1. Calm /\ lost' = lost /\ expired = {}
    BY <1>1, <1>3 DEF Calm, Untroubled, MarketInv, MarketTypeOK, TypeOK, vars
  <2>2. flow[o] \in {"reserving", "releasing", "capturing"} /\ call[o].pc = "idle"
    BY <1>1, <2>1 DEF Idle, MarketInv, MarketTypeOK
  <2> QED
    BY <1>0, <2>1, <2>2 DEF Journey, Reserving, Releasing, Capturing
<1>8. order'[o] # "fulfilled" /\ flow'[o] = "end"
  BY <1>3, <1>6 DEF MarketInv, MarketTypeOK
<1>9. Journey(o)'
  BY <1>0, <1>1, <1>6, <1>7, <1>8 DEF Journey, CallOfOrder, Ended, vars
<1> QED
  BY <1>4, <1>5, <1>9, WorkflowKept

\* What an answer says of the operation it ends.
LEMMA AnswerKnown ==
  ASSUME IInv, NEW s \in Calls, ServiceStep(s), call'[s].pc = "answered",
         call[s].pc \in {"deduct", "insert", "capture", "claim"}
  PROVE  LET v == call[s].o IN
         /\ call[s].pc = "deduct" => ~call'[s].ok
         /\ call[s].pc = "insert" => \/ call'[s].ok /\ status[v] = "None" /\ status'[v] = "reserved"
                                     \/ ~call'[s].ok /\ faults' = faults + 1
         /\ call[s].pc = "capture" => \/ call'[s].ok /\ status'[v] = "captured"
                                      \/ ~call'[s].ok /\ faults' = faults + 1
         /\ call[s].pc = "claim" => status[v] # "reserved" \/ faults' = faults + 1
<1> USE DEF IInv
<1>1. PICK v \in Orders : call[s].o = v
  BY OrderKnown
<1>2. Deduct(s) \/ Insert(s) \/ Capture(s) \/ ClaimRelease(s) \/ WriteThrows(s)
  BY DEF ServiceStep, Compensate, CreditBuyer, UndoRelease, FinalizeRelease, ClaimDistribute,
         PayRecipient, UnpayRecipient, ReopenDistribute, SettleDistribute, At
<1>3. CASE Deduct(s)
  <2>1. call[s].pc = "deduct" /\ (Goto(s, "insert") \/ Reply(s, v, FALSE))
    BY <1>1, <1>3 DEF Deduct, At
  <2> QED
    BY <1>1, <2>1, Replied, Moved DEF CallPcs
<1>4. CASE Insert(s)
  <2>1. /\ call[s].pc = "insert"
        /\ \/ status[v] = "None" /\ status' = [status EXCEPT ![v] = "reserved"] /\ Reply(s, v, TRUE)
           \/ Goto(s, "compensate")
           \/ Reply(s, v, FALSE) /\ faults' = faults + 1
    BY <1>1, <1>4 DEF Insert, At, SetStatus, Fault
  <2> QED
    BY <1>1, <2>1, Replied, Moved DEF CallPcs, TypeOK
<1>5. CASE Capture(s)
  <2>1. call[s].pc = "capture" /\ status' = [status EXCEPT ![v] = "captured"] /\ Reply(s, v, TRUE)
    BY <1>1, <1>5 DEF Capture, At, SetStatus
  <2> QED
    BY <1>1, <2>1, Replied DEF TypeOK
<1>6. CASE ClaimRelease(s)
  <2>1. call[s].pc = "claim" /\ (status[v] = "reserved" => Goto(s, "credit"))
    BY <1>1, <1>6 DEF ClaimRelease, At
  <2> QED
    BY <1>1, <2>1, Moved DEF CallPcs
<1>7. CASE WriteThrows(s)
  <2>1. call[s].pc # "deduct" /\ call[s].pc # "insert" /\ Reply(s, v, FALSE) /\ faults' = faults + 1
    BY <1>1, <1>7 DEF WriteThrows, Fault
  <2> QED
    BY <1>1, <2>1, Replied
<1> QED
  BY <1>2, <1>3, <1>4, <1>5, <1>6, <1>7

\* The call of an order in the service takes a step: its effect on the order.
LEMMA ServeEffect ==
  ASSUME MarketInv, NEW o \in Orders, ServiceStep(o)
  PROVE  /\ call[o].o = o /\ call'[o].o = o /\ Frame(o, o)
         /\ \/ /\ call[o].pc = "deduct" /\ call'[o].pc = "insert" /\ status' = status
               /\ debited'[o] = debited[o] + 1 /\ refunds' = refunds
            \/ /\ call[o].pc = "deduct" /\ call'[o].pc = "answered" /\ ~call'[o].ok
               /\ UNCHANGED <<status, debited, refunds>>
            \/ /\ call[o].pc = "insert" /\ call'[o].pc = "answered"
               /\ UNCHANGED <<debited, refunds>>
               /\ \/ call'[o].ok /\ status[o] = "None" /\ status'[o] = "reserved"
                  \/ ~call'[o].ok /\ status' = status /\ faults' = faults + 1
            \/ /\ call[o].pc = "insert" /\ call'[o].pc = "compensate" /\ status[o] # "None"
               /\ UNCHANGED <<status, debited, refunds>>
            \/ /\ call[o].pc = "compensate" /\ call'[o].pc = "answered"
               /\ UNCHANGED <<status, refunds>>
            \/ /\ call[o].pc = "capture" /\ call'[o].pc = "answered"
               /\ UNCHANGED <<debited, refunds>>
               /\ \/ call'[o].ok /\ status'[o] = "captured"
                  \/ ~call'[o].ok /\ status' = status /\ faults' = faults + 1
            \/ /\ call[o].pc = "claim" /\ call'[o].pc = "credit" /\ status'[o] = "releasing"
               /\ UNCHANGED <<debited, refunds>>
            \/ /\ call[o].pc = "claim" /\ call'[o].pc = "answered"
               /\ UNCHANGED <<status, debited, refunds>>
               /\ status[o] # "reserved" \/ faults' = faults + 1
            \/ /\ call[o].pc = "credit" /\ UNCHANGED <<status, debited>>
               /\ \/ call'[o].pc = "finalize" /\ refunds'[o] = refunds[o] + 1
                  \/ call'[o].pc = "undo" /\ refunds' = refunds /\ faults' = faults + 1
            \/ /\ call[o].pc \in {"undo", "finalize"} /\ call'[o].pc = "answered"
               /\ UNCHANGED <<debited, refunds>>
               /\ status'[o] \in {status[o], "reserved", "released"}
<1> USE MarketOrderAssumption
<1>0. IInv /\ CallOfOrder(o) /\ o \in Calls
  BY DEF MarketInv, Journey
<1>1. /\ Deduct(o) \/ Insert(o) \/ Compensate(o) \/ Capture(o) \/ ClaimRelease(o) \/ CreditBuyer(o)
         \/ UndoRelease(o) \/ FinalizeRelease(o) \/ WriteThrows(o)
      /\ call[o].pc \in {"deduct", "insert", "compensate", "capture", "claim", "credit", "undo", "finalize"}
  BY <1>0 DEF ServiceStep, ClaimDistribute, PayRecipient, UnpayRecipient, ReopenDistribute,
              SettleDistribute, CallOfOrder, At, Deduct, Insert, Compensate, Capture, ClaimRelease,
              CreditBuyer, UndoRelease, FinalizeRelease, WriteThrows
<1>2. call[o].o = o
  BY <1>0, <1>1 DEF CallOfOrder
<1>3. CASE Deduct(o) \/ Insert(o) \/ Compensate(o)
  <2>1. /\ Frame(o, o) /\ refunds' = refunds /\ call'[o].o = o
        /\ \/ /\ call[o].pc = "deduct" /\ call'[o].pc = "insert" /\ status' = status
              /\ debited'[o] = debited[o] + 1
           \/ /\ call[o].pc = "deduct" /\ call'[o].pc = "answered" /\ status' = status
              /\ debited' = debited
           \/ /\ call[o].pc = "insert" /\ call'[o].pc = "answered" /\ debited' = debited
              /\ \/ status[o] = "None" /\ status'[o] = "reserved"
                 \/ status' = status /\ faults' = faults + 1
           \/ /\ call[o].pc = "insert" /\ call'[o].pc = "compensate" /\ status' = status
              /\ debited' = debited
           \/ call[o].pc = "compensate" /\ call'[o].pc = "answered" /\ status' = status
    BY <1>0, <1>2, <1>3, ReserveEffect
  <2>2. call[o].pc = "insert" /\ call'[o].pc = "compensate" => status[o] # "None"
    <3> SUFFICES ASSUME call[o].pc = "insert", call'[o].pc = "compensate", status[o] = "None"
                 PROVE  FALSE
      OBVIOUS
    <3>1. Reply(o, o, TRUE) \/ Reply(o, o, FALSE)
      BY <1>2, <1>3 DEF Insert, Deduct, Compensate, At
    <3> QED
      BY <1>0, <3>1, Replied DEF IInv
  <2>3. call'[o].pc = "answered" =>
          /\ call[o].pc = "deduct" => ~call'[o].ok
          /\ call[o].pc = "insert" => \/ call'[o].ok /\ status[o] = "None" /\ status'[o] = "reserved"
                                      \/ ~call'[o].ok /\ faults' = faults + 1
    BY <1>0, <1>1, <1>2, AnswerKnown
  <2>4. call[o].pc = "insert" /\ call'[o].pc = "answered" /\ ~call'[o].ok => status' = status
    <3> SUFFICES ASSUME call[o].pc = "insert", call'[o].pc = "answered", ~call'[o].ok
                 PROVE  status' = status
      OBVIOUS
    <3>1. \/ Reply(o, o, TRUE) \/ status' = status
      BY <1>2, <1>3 DEF Insert, Deduct, Compensate, At
    <3> QED
      BY <1>0, <3>1, Replied DEF IInv
  <2> QED
    BY <1>2, <2>1, <2>2, <2>3, <2>4
<1>4. CASE Capture(o) \/ ClaimRelease(o) \/ UndoRelease(o) \/ FinalizeRelease(o) \/ WriteThrows(o)
  <2>1. /\ Frame(o, o) /\ UNCHANGED <<debited, refunds>>
        /\ call[o].pc \in {"capture", "claim", "undo", "finalize"} /\ call'[o].o = o
        /\ \/ /\ call'[o].pc = "answered"
              /\ \/ call[o].pc = "capture" /\ status'[o] = "captured"
                 \/ call[o].pc = "claim" /\ status' = status
                 \/ faults' = faults + 1 /\ status' = status
                 \/ call[o].pc = "undo" /\ status'[o] \in {status[o], "reserved"}
                 \/ call[o].pc = "finalize" /\ status'[o] \in {status[o], "released"}
           \/ call[o].pc = "claim" /\ call'[o].pc = "credit" /\ status'[o] = "releasing"
    BY <1>0, <1>1, <1>2, <1>4, StatusEffect
  <2>2. call'[o].pc = "answered" =>
          /\ call[o].pc = "capture" => \/ call'[o].ok /\ status'[o] = "captured"
                                       \/ ~call'[o].ok /\ faults' = faults + 1
          /\ call[o].pc = "claim" => status[o] # "reserved" \/ faults' = faults + 1
    BY <1>0, <1>2, <2>1, AnswerKnown
  <2>3. call[o].pc = "capture" /\ ~call'[o].ok => status' = status
    <3> SUFFICES ASSUME call[o].pc = "capture", ~call'[o].ok PROVE status' = status
      OBVIOUS
    <3>1. \/ Reply(o, o, TRUE) \/ status' = status
      BY <1>2, <1>4 DEF Capture, ClaimRelease, UndoRelease, FinalizeRelease, WriteThrows, At
    <3> QED
      BY <1>0, <3>1, Replied DEF IInv
  <2> QED
    BY <1>2, <2>1, <2>2, <2>3
<1>5. CASE CreditBuyer(o)
  BY <1>0, <1>2, <1>5, CreditEffect
<1> QED
  BY <1>1, <1>3, <1>4, <1>5


\* A step of the service for an order, whether its client still waits or not.
LEMMA ServeKept == ASSUME MarketInv, NEW o \in Orders, Serve(o) PROVE MarketInv'
<1> USE MarketOrderAssumption
<1>0. IInv /\ TypeOK /\ Journey(o) /\ o \in Calls /\ faults \in Nat
      /\ debited[o] \in Int /\ refunds[o] \in Nat
  BY DEF MarketInv, IInv, TypeOK
<1>1. ServiceStep(o) /\ UNCHANGED <<order, flow, sold, expired, lost, restarts, goFaults>>
  BY DEF Serve, goVars
<1>2. IInv'
  BY <1>0, <1>1, NextKept DEF Next
<1>3. Goes(o)
  BY <1>1 DEF Goes, MarketInv, MarketTypeOK
<1>4. Frame(o, o) /\ call[o].o = o /\ call'[o].o = o
  BY <1>1, ServeEffect
<1>5. /\ Bought(o)' <=> Bought(o)
      /\ Calm' => Calm /\ faults' = faults
      /\ faults' = faults + 1 => ~Calm'
  BY <1>0, <1>1, <1>4 DEF Bought, Calm, Untroubled, Frame, MarketInv, MarketTypeOK
<1>6. call[o].pc # "idle" /\ call[o].pc # "answered" /\ call'[o].pc # "idle" /\ CallOfOrder(o)'
  BY <1>1, <1>4, ServeEffect DEF CallOfOrder
<1>7. status'[o] = "captured" \/ call'[o].pc = "capture" => Bought(o)'
  BY <1>0, <1>1, <1>5, ServeEffect DEF Journey
<1>8. flow[o] \notin {"new", "balance", "reserve", "supplier", "item", "buy", "release", "capture"}
  BY <1>0, <1>6 DEF Journey, BeforeReserve, BeforeBuy, BeforeRelease, BeforeCapture
<1>9. Reserving(o) => Reserving(o)'
  BY <1>0, <1>1, <1>5, ServeEffect DEF Reserving, Held
<1>10. Releasing(o) => Releasing(o)'
  <2> SUFFICES ASSUME Releasing(o) PROVE Releasing(o)'
    OBVIOUS
  <2>1. /\ call'[o].pc \in {"idle", "claim", "credit", "undo", "finalize", "answered"}
        /\ debited'[o] = 1
    BY <1>1, ServeEffect DEF Releasing
  <2>2. ASSUME Calm'
        PROVE  /\ ~Bought(o)'
               /\ call'[o].pc \notin {"idle", "undo"}
               /\ call'[o].pc = "claim" => status'[o] = "reserved"
               /\ refunds'[o] = IF call'[o].pc \in {"claim", "credit"} THEN 0 ELSE 1
    BY <1>0, <1>1, <1>5, <2>2, ServeEffect DEF Releasing
  <2> QED
    BY <2>1, <2>2 DEF Releasing
<1>11. Capturing(o) => Capturing(o)'
  BY <1>0, <1>1, <1>5, ServeEffect DEF Capturing
<1>12. Ended(o) => Ended(o)'
  BY <1>1, <1>5, <1>6 DEF Ended
<1>13. Journey(o)'
  BY <1>0, <1>1, <1>6, <1>7, <1>8, <1>9, <1>10, <1>11, <1>12 DEF Journey
<1> QED
  BY <1>2, <1>3, <1>4, <1>13, WorkflowKept

\* An answer that nobody waits for.
LEMMA UnheardKept == ASSUME MarketInv, NEW o \in Orders, Unheard(o) PROVE MarketInv'
<1> USE MarketOrderAssumption
<1>0. IInv /\ TypeOK /\ Journey(o) /\ o \in Calls
  BY DEF MarketInv, IInv
<1>1. /\ Answer(o) /\ UNCHANGED <<order, flow, sold, expired, lost, restarts, goFaults>>
      /\ flow[o] \notin Waiting /\ call[o].pc = "answered" /\ call' = [call EXCEPT ![o] = Idle]
      /\ UNCHANGED <<status, balance, debited, refunds, payouts, faults, crashes, spends>>
  BY DEF Unheard, goVars, Answer, At, money
<1>2. IInv'
  BY <1>0, <1>1, NextKept DEF Next
<1>3. Goes(o)
  BY <1>1 DEF Goes, MarketInv, MarketTypeOK
<1>4. call'[o].pc = "idle" /\ \A t \in Calls : t # o => call'[t] = call[t]
  BY <1>0, <1>1 DEF TypeOK, Idle
<1>5. Frame(o, o)
  BY <1>0, <1>1, <1>4 DEF Frame, Journey, CallOfOrder
<1>6. (Bought(o)' <=> Bought(o)) /\ (Calm' <=> Calm)
  BY <1>1 DEF Bought, Calm, Untroubled
<1>7. flow[o] = "end"
  BY <1>0, <1>1 DEF Journey, Waiting, FlowPcs, BeforeReserve, BeforeBuy, BeforeRelease, BeforeCapture,
                    MarketInv, MarketTypeOK
<1>8. Ended(o) /\ Ended(o)'
  BY <1>0, <1>1, <1>4, <1>6, <1>7 DEF Journey, Ended
<1>9. Journey(o)'
  BY <1>0, <1>1, <1>4, <1>6, <1>7, <1>8 DEF Journey, CallOfOrder
<1> QED
  BY <1>2, <1>3, <1>5, <1>9, WorkflowKept

\* A process dies: of the service, and its calls are gone; of the Go backend,
\* and its goroutines are.
LEMMA DeathKept == ASSUME MarketInv, CrashService \/ Restart PROVE MarketInv'
<1> USE MarketOrderAssumption
<1>0. IInv /\ TypeOK /\ MarketTypeOK /\ \A o \in Orders : Journey(o)
  BY DEF MarketInv, IInv
<1>1. /\ UNCHANGED <<status, balance, debited, refunds, payouts, faults, spends>>
      /\ UNCHANGED <<order, sold, expired, lost, goFaults>>
      /\ crashes' \in Nat /\ restarts' \in Nat
      /\ crashes' = crashes + 1 \/ restarts' = restarts + 1
      /\ \/ call' = [s \in Calls |-> Idle] /\ flow' = flow
         \/ call' = call /\ flow' = [o \in Orders |-> IF flow[o] = "new" THEN "new" ELSE "end"]
  BY <1>0 DEF CrashService, Restart, Crash, money, vars, goVars, MarketTypeOK, TypeOK
<1>2. IInv'
  <2>1. CASE CrashService
    BY <1>0, <2>1, OutsideKept DEF CrashService
  <2>2. CASE Restart
    BY <1>0, <2>2, NextKept DEF Restart
  <2> QED
    BY <2>1, <2>2
<1>3. ~Calm'
  BY <1>0, <1>1 DEF Calm, Untroubled, MarketTypeOK, TypeOK
<1>4. MarketTypeOK'
  BY <1>0, <1>1, <1>2 DEF MarketTypeOK, IInv, FlowPcs
<1>5. ASSUME NEW o \in Orders PROVE Journey(o)'
  <2>1. Journey(o) /\ (Bought(o)' <=> Bought(o))
    BY <1>0, <1>1 DEF Bought
  <2>2. /\ call'[o] = call[o] \/ call'[o].pc = "idle"
        /\ flow'[o] = flow[o] \/ flow'[o] = "end"
        /\ flow[o] = "new" => flow'[o] = "new"
        /\ flow'[o] # flow[o] => call'[o] = call[o]
    BY <1>0, <1>1 DEF Idle, MarketTypeOK
  <2>3. /\ CallOfOrder(o)' /\ (status'[o] = "captured" \/ call'[o].pc = "capture" => Bought(o)')
        /\ flow'[o] # "end" => order'[o] # "fulfilled"
    BY <1>1, <2>1, <2>2 DEF Journey, CallOfOrder
  <2>4. /\ BeforeReserve(o) => BeforeReserve(o)'
        /\ BeforeBuy(o) => BeforeBuy(o)'
        /\ BeforeRelease(o) => BeforeRelease(o)'
        /\ BeforeCapture(o) => BeforeCapture(o)'
    BY <1>1, <1>3, <2>1, <2>2 DEF BeforeReserve, BeforeBuy, BeforeRelease, BeforeCapture, Held, Unpaid
  <2>5. Reserving(o) => Reserving(o)'
    BY <1>1, <1>3, <2>1, <2>2 DEF Reserving, Held
  <2>6. (Releasing(o) => Releasing(o)') /\ (Capturing(o) => Capturing(o)')
    BY <1>1, <1>3, <2>1, <2>2 DEF Releasing, Capturing
  <2>7. flow'[o] = "end" => Ended(o)'
    BY <1>1, <1>3, <2>1, <2>2 DEF Ended, Journey
  <2> QED
    BY <2>1, <2>2, <2>3, <2>4, <2>5, <2>6, <2>7 DEF Journey
<1> QED
  BY <1>2, <1>4, <1>5 DEF MarketInv

\* Money spent elsewhere, or nothing at all.
LEMMA ElsewhereKept ==
  ASSUME MarketInv, SpendElsewhere \/ UNCHANGED marketVars
  PROVE  MarketInv'
<1>1. /\ UNCHANGED <<status, debited, refunds, call, faults, crashes>>
      /\ UNCHANGED <<order, flow, sold, expired, lost, restarts, goFaults>>
      /\ (\E u \in Users : Spend(u)) \/ UNCHANGED vars
  BY DEF SpendElsewhere, Spend, goVars, marketVars, vars
<1>2. IInv'
  BY <1>1, NextKept DEF MarketInv, Next
<1>3. MarketTypeOK'
  BY <1>1, <1>2 DEF MarketInv, MarketTypeOK, IInv
<1>4. ASSUME NEW o \in Orders PROVE Journey(o)'
  BY <1>1 DEF MarketInv, Journey, CallOfOrder, Bought, BeforeReserve, Reserving, BeforeBuy, BeforeRelease,
              Releasing, BeforeCapture, Capturing, Ended, Held, Unpaid, Calm, Untroubled
<1> QED
  BY <1>2, <1>3, <1>4 DEF MarketInv

\* The invariant of the workflow and the service together holds in every
\* reachable state.
THEOREM MarketInvariance == MarketSpec => []MarketInv
<1>1. MarketInit => MarketInv
  <2> SUFFICES ASSUME MarketInit PROVE MarketInv
    OBVIOUS
  <2> USE MarketOrderAssumption
  <2>1. IInv
    BY ReservationAssumption
       DEF MarketInit, Init, IInv, TypeOK, OnOrder, OneOwner, Owns, Idle, CallType, CallPcs, Statuses
  <2>2. MarketTypeOK
    BY <2>1 DEF MarketInit, MarketTypeOK, IInv, OrderStates, FlowPcs
  <2>3. ASSUME NEW o \in Orders PROVE Journey(o)
    <3>1. /\ flow[o] = "new" /\ order[o] = "none" /\ call[o].pc = "idle" /\ status[o] = "None"
          /\ debited[o] = 0 /\ refunds[o] = 0
      BY DEF MarketInit, Init, Idle
    <3>2. ~Bought(o)
      BY DEF MarketInit, Bought
    <3> QED
      BY <3>1, <3>2 DEF Journey, CallOfOrder, BeforeReserve, Unpaid
  <2> QED
    BY <2>1, <2>2, <2>3 DEF MarketInv
<1>2. MarketInv /\ [MarketNext]_marketVars => MarketInv'
  BY CreateKept, BalanceKept, ProviderKept, SendKept, ReceiveKept, NoAnswerKept, ServeKept, UnheardKept,
     DeathKept, ElsewhereKept DEF MarketNext, Workflow
<1> QED
  BY <1>1, <1>2, PTL DEF MarketSpec

\* A fulfilled order has been bought for the buyer and paid by the buyer, once
\* and for good, whatever was lost, late or dead on the way (FulfilledIsPaid:
\* processOrderAsync over CaptureAsync and ReleaseAsync).
THEOREM FulfilledPaid == MarketSpec => []FulfilledIsPaid
<1>1. MarketInv => FulfilledIsPaid
  BY DEF MarketInv, Journey, Ended, Bought, FulfilledIsPaid
<1> QED
  BY <1>1, MarketInvariance, PTL

\* Money is captured only for an item the provider has sold for this order
\* (CapturedIsSold: CaptureAsync, called by processOrderAsync after the sale).
THEOREM CapturedSold == MarketSpec => []CapturedIsSold
<1>1. MarketInv => CapturedIsSold
  BY DEF MarketInv, Journey, Bought, CapturedIsSold
<1> QED
  BY <1>1, MarketInvariance, PTL

\* While every call is answered in time a finished order is all or nothing
\* (AllOrNothing: the error paths of processOrderAsync).
THEOREM AllOrNothingAlways == MarketSpec => []AllOrNothing
<1>1. MarketInv => AllOrNothing
  BY DEF MarketInv, Journey, Ended, Calm, Bought, AllOrNothing
<1> QED
  BY <1>1, MarketInvariance, PTL

-----------------------------------------------------------------------------
(* The order workflow on top of the reservations.                          *)

\* What a step of the order workflow is for the feature service: nothing, a
\* call of the goroutine of an order or a step of that call, the end of the
\* process, or money spent elsewhere.
LEMMA MarketStep ==
  ASSUME [MarketNext]_marketVars
  PROVE  \/ UNCHANGED vars
         \/ \E o \in Orders : \/ SendReserve(o) \/ SendRelease(o) \/ SendCapture(o)
                              \/ ServiceStep(o) \/ Answer(o)
         \/ Crash
         \/ \E u \in Users : Spend(u)
<1>1. ASSUME NEW o \in Orders,
             \/ CreateOrder(o) \/ CheckUserBalance(o) \/ NoAnswer(o) \/ CheckSupplier(o)
             \/ CheckItem(o) \/ Buy(o) \/ Expire(o)
      PROVE  UNCHANGED vars
  BY <1>1 DEF CreateOrder, CheckUserBalance, NoAnswer, CheckSupplier, CheckItem, Buy, Expire
<1>2. ASSUME NEW o \in Orders, Receive(o) \/ Unheard(o)
      PROVE  Answer(o)
  BY <1>2 DEF Receive, Unheard
<1>3. ASSUME NEW o \in Orders, Serve(o)
      PROVE  ServiceStep(o)
  BY <1>3 DEF Serve
<1>4. Restart \/ UNCHANGED marketVars => UNCHANGED vars
  BY DEF Restart, marketVars
<1>5. (CrashService => Crash) /\ (SpendElsewhere => \E u \in Users : Spend(u))
  BY DEF CrashService, SpendElsewhere
<1> QED
  BY <1>1, <1>2, <1>3, <1>4, <1>5 DEF MarketNext, Workflow

\* An order of the market runs on the reservations as they are: whatever the
\* goroutines, the provider and the network do, the feature service sees only
\* calls it is specified for (postMarketWallet over MarketPurchasesController).
THEOREM OrdersUseReservations == MarketSpec => Spec
<1>1. MarketInit => Init
  BY DEF MarketInit
<1>2. [MarketNext]_marketVars => [Next]_vars
  <2> SUFFICES ASSUME [MarketNext]_marketVars PROVE [Next]_vars
    OBVIOUS
  <2>1. \A o \in Orders : o \in Calls
    BY MarketOrderAssumption
  <2>2. ASSUME NEW o \in Orders, SendReserve(o) \/ SendRelease(o) \/ SendCapture(o)
        PROVE  Begin(o, o)
    BY <2>2 DEF SendReserve, SendRelease, SendCapture, Begin
  <2> QED
    BY MarketStep, <2>1, <2>2 DEF Next
<1> QED
  BY <1>1, <1>2, PTL DEF MarketSpec, Spec

\* An order of the market is refunded at most once (RefundedOnce: ReleaseAsync,
\* called by processOrderAsync).
THEOREM OrderRefundedOnce == MarketSpec => []RefundedOnce
BY OrdersUseReservations, RefundOnce, PTL

\* A step about one order leaves the books of the others.
LEMMA OtherBooks ==
  ASSUME MarketInv, NEW o \in Orders, Frame(o, o), NEW e \in Orders, e # o, BooksFit(e)
  PROVE  BooksFit(e)'
<1>1. /\ call'[e] = call[e] /\ status'[e] = status[e] /\ debited'[e] = debited[e]
      /\ refunds'[e] = refunds[e] /\ payouts'[e] = payouts[e]
      /\ faults' = 0 /\ crashes' = 0 => faults = 0 /\ crashes = 0
  BY MarketOrderAssumption DEF Frame, MarketInv, IInv, TypeOK
<1> QED
  BY <1>1 DEF BooksFit

\* A call is made when the books are at rest.
LEMMA SendBooks ==
  ASSUME MarketInv, NEW o \in Orders, BooksFit(o), SendReserve(o) \/ SendRelease(o) \/ SendCapture(o)
  PROVE  Frame(o, o) /\ BooksFit(o)'
<1> USE MarketOrderAssumption
<1>0. IInv /\ TypeOK /\ Journey(o) /\ o \in Calls
  BY DEF MarketInv, IInv
<1>1. Begin(o, o)
  BY DEF SendReserve, SendRelease, SendCapture, Begin
<1>2. Frame(o, o) /\ UNCHANGED <<status, debited, refunds, payouts, faults, crashes>>
  BY <1>0, <1>1, BeginEffect
<1>3. \/ BeforeReserve(o) /\ BeginReserve(o, o)
      \/ BeforeRelease(o) /\ BeginRelease(o, o)
      \/ BeforeCapture(o) /\ BeginCapture(o, o)
  BY <1>0 DEF SendReserve, SendRelease, SendCapture, Send, Journey
<1>4. \/ Start(o, o, "deduct") /\ status[o] = "None" /\ Unpaid(o)
      \/ Start(o, o, "claim") /\ Held(o)
      \/ Start(o, o, "capture") /\ Held(o)
  BY <1>3 DEF BeforeReserve, BeforeRelease, BeforeCapture, BeginReserve, BeginRelease, BeginCapture, Held
<1>5. \/ call'[o].pc = "deduct" /\ status[o] = "None" /\ Unpaid(o)
      \/ call'[o].pc \in {"claim", "capture"} /\ Held(o)
  BY <1>0, <1>4, Started DEF CallPcs
<1>6. BooksFit(o)'
  BY <1>2, <1>5 DEF BooksFit, Unpaid, Held
<1> QED
  BY <1>2, <1>6

\* A step of the call keeps its books.
LEMMA ServeBooks ==
  ASSUME MarketInv, NEW o \in Orders, BooksFit(o), ServiceStep(o) \/ Answer(o)
  PROVE  Frame(o, o) /\ BooksFit(o)'
<1> USE MarketOrderAssumption
<1>0. IInv /\ TypeOK /\ CallOfOrder(o) /\ o \in Calls /\ faults \in Nat
      /\ debited[o] \in Int /\ refunds[o] \in Nat
  BY DEF MarketInv, IInv, TypeOK, Journey
<1>1. \/ Deduct(o) \/ Insert(o) \/ Compensate(o) \/ CreditBuyer(o)
      \/ Capture(o) \/ ClaimRelease(o) \/ UndoRelease(o) \/ FinalizeRelease(o)
      \/ WriteThrows(o) \/ Answer(o)
  BY <1>0 DEF ServiceStep, ClaimDistribute, PayRecipient, UnpayRecipient, ReopenDistribute,
              SettleDistribute, CallOfOrder, At
<1>2. call[o].o = o
  BY <1>0, <1>1 DEF CallOfOrder, Deduct, Insert, Compensate, CreditBuyer, Capture, ClaimRelease,
                    UndoRelease, FinalizeRelease, WriteThrows, Answer, At
<1>3. faults' = faults + 1 => faults' # 0
  BY <1>0
<1>4. CASE Deduct(o) \/ Insert(o) \/ Compensate(o)
  <2>1. call[o].pc = "insert" => status[o] = "None"
    BY DEF BooksFit
  <2>2. call[o].pc = "insert" => call'[o].pc = "answered"
    <3> SUFFICES ASSUME call[o].pc = "insert" PROVE call'[o].pc = "answered"
      OBVIOUS
    <3>1. Reply(o, o, TRUE) \/ Reply(o, o, FALSE)
      BY <1>2, <1>4, <2>1 DEF Insert, Deduct, Compensate, At
    <3> QED
      BY <1>0, <3>1, Replied
  <2>3. /\ Frame(o, o) /\ UNCHANGED <<refunds, payouts>>
        /\ \/ /\ call[o].pc = "deduct" /\ call'[o].pc = "insert" /\ status' = status
              /\ debited'[o] = debited[o] + 1
           \/ /\ call[o].pc = "deduct" /\ call'[o].pc = "answered" /\ status' = status
              /\ debited' = debited
           \/ /\ call[o].pc = "insert" /\ call'[o].pc = "answered" /\ debited' = debited
              /\ \/ status'[o] = "reserved"
                 \/ status' = status /\ faults' = faults + 1
    BY <1>0, <1>2, <1>4, <2>2, ReserveEffect DEF BooksFit
  <2>4. crashes' = crashes /\ faults' \in {faults, faults + 1}
    BY <2>3 DEF Frame
  <2>5. BooksFit(o)'
    BY <1>0, <1>3, <2>3, <2>4 DEF BooksFit
  <2> QED
    BY <2>3, <2>5
<1>5. CASE CreditBuyer(o)
  <2>1. /\ Frame(o, o) /\ UNCHANGED <<status, debited, payouts>> /\ call[o].pc = "credit"
        /\ \/ call'[o].pc = "finalize" /\ refunds'[o] = refunds[o] + 1
           \/ call'[o].pc = "undo" /\ faults' = faults + 1 /\ refunds' = refunds
    BY <1>0, <1>2, <1>5, CreditEffect
  <2>2. crashes' = crashes /\ faults' \in {faults, faults + 1}
    BY <2>1 DEF Frame
  <2>3. refunds[o] = 0 /\ status[o] # "None" /\ debited[o] = 1
    BY <1>0, <1>2, <2>1 DEF IInv, OneOwner, Owns, BooksFit
  <2>4. BooksFit(o)'
    BY <1>0, <1>3, <2>1, <2>2, <2>3 DEF BooksFit
  <2> QED
    BY <2>1, <2>4
<1>6. CASE \/ Capture(o) \/ ClaimRelease(o) \/ UndoRelease(o) \/ FinalizeRelease(o)
           \/ WriteThrows(o) \/ Answer(o)
  <2>1. /\ Frame(o, o) /\ UNCHANGED <<debited, refunds, payouts>>
        /\ call[o].pc \in {"capture", "claim", "undo", "finalize", "answered"}
        /\ \/ call'[o].pc = "idle" /\ call[o].pc = "answered" /\ status' = status
           \/ /\ call'[o].pc = "answered"
              /\ \/ call[o].pc = "capture" /\ status'[o] = "captured"
                 \/ call[o].pc = "claim" /\ status' = status
                 \/ faults' = faults + 1 /\ status' = status
                 \/ /\ call[o].pc = "undo"
                    /\ status'[o] = IF status[o] = "releasing" THEN "reserved" ELSE status[o]
                 \/ /\ call[o].pc = "finalize"
                    /\ status'[o] = IF status[o] = "releasing" THEN "released" ELSE status[o]
           \/ call[o].pc = "claim" /\ call'[o].pc = "credit" /\ status'[o] = "releasing"
    <3>1. call[o].pc \in {"capture", "claim", "undo", "finalize", "answered"}
      BY <1>0, <1>6 DEF Capture, ClaimRelease, UndoRelease, FinalizeRelease, WriteThrows, Answer, At,
                        CallOfOrder
    <3>2. Frame(o, o) /\ UNCHANGED <<debited, refunds, payouts>>
      BY <1>0, <1>2, <1>6, StatusEffect
    <3> QED
      BY <1>0, <1>2, <1>6, <3>1, <3>2, StatusEffect
  <2>2. crashes' = crashes /\ faults' \in {faults, faults + 1}
    BY <2>1 DEF Frame
  <2>3. call[o].pc = "claim" /\ call'[o].pc = "answered" => faults' = faults + 1 \/ status[o] # "reserved"
    <3> SUFFICES ASSUME call[o].pc = "claim", status[o] = "reserved", call'[o].pc = "answered"
                 PROVE  faults' = faults + 1
      OBVIOUS
    <3>1. Goto(o, "credit") \/ WriteThrows(o)
      BY <1>2, <1>6 DEF Capture, ClaimRelease, UndoRelease, FinalizeRelease, Answer, At
    <3> QED
      BY <1>0, <3>1, Moved DEF CallPcs, WriteThrows, Fault
  <2>4. BooksFit(o)'
    BY <1>0, <1>3, <2>1, <2>2, <2>3 DEF BooksFit
  <2> QED
    BY <2>1, <2>4
<1> QED
  BY <1>1, <1>4, <1>5, <1>6

\* The books of every order fit at every step.
LEMMA BooksInduction ==
  ASSUME MarketInv, AllBooksFit, [MarketNext]_marketVars
  PROVE  AllBooksFit'
<1> USE MarketOrderAssumption
<1>1. CASE UNCHANGED vars
  BY <1>1 DEF AllBooksFit, BooksFit, vars
<1>2. ASSUME NEW o \in Orders,
             \/ SendReserve(o) \/ SendRelease(o) \/ SendCapture(o) \/ ServiceStep(o) \/ Answer(o)
      PROVE  AllBooksFit'
  <2>1. Frame(o, o) /\ BooksFit(o)'
    BY <1>2, SendBooks, ServeBooks DEF AllBooksFit
  <2>2. \A e \in Orders : e # o => BooksFit(e)'
    BY <2>1, OtherBooks DEF AllBooksFit
  <2> QED
    BY <2>1, <2>2 DEF AllBooksFit
<1>3. CASE Crash
  <2>1. /\ UNCHANGED <<status, debited, refunds, payouts>> /\ crashes' # 0
        /\ \A o \in Orders : call'[o].pc = "idle"
    BY <1>3 DEF Crash, money, Idle, MarketInv, IInv, TypeOK
  <2> QED
    BY <2>1 DEF AllBooksFit, BooksFit
<1>4. ASSUME NEW u \in Users, Spend(u) PROVE AllBooksFit'
  BY <1>4 DEF Spend, AllBooksFit, BooksFit
<1> QED
  BY <1>1, <1>2, <1>3, <1>4, MarketStep

\* The buyer of an order pays once at most and gets back no more; and unless
\* the feature service fails or dies, an order it serves no call of is settled,
\* whatever becomes of its goroutine and its calls (OrderIsSettled:
\* processOrderAsync over ReserveAsync, CaptureAsync and ReleaseAsync).
THEOREM OrderSettled == MarketSpec => []OrderIsSettled
<1>1. MarketInit => AllBooksFit
  <2> SUFFICES ASSUME MarketInit, NEW o \in Orders PROVE BooksFit(o)
    BY DEF AllBooksFit
  <2>1. /\ call[o].pc = "idle" /\ status[o] = "None" /\ debited[o] = 0 /\ refunds[o] = 0
        /\ \A u \in Users : payouts[o][u] = 0
    BY MarketOrderAssumption DEF MarketInit, Init, Idle
  <2> QED
    BY <2>1 DEF BooksFit
<1>2. MarketInv /\ AllBooksFit /\ [MarketNext]_marketVars => AllBooksFit'
  BY BooksInduction
<1>3. MarketInv /\ AllBooksFit => OrderIsSettled
  <2> SUFFICES ASSUME MarketInv, AllBooksFit, NEW o \in Orders
               PROVE  /\ refunds[o] <= debited[o] /\ debited[o] <= 1
                      /\ faults = 0 /\ crashes = 0 /\ Serving(o) = {} => Settled(o)
    BY DEF OrderIsSettled
  <2> USE MarketOrderAssumption
  <2>1. BooksFit(o) /\ CallOfOrder(o)
    BY DEF AllBooksFit, MarketInv, Journey
  <2>2. Serving(o) = {} => call[o].pc \in {"idle", "answered"}
    BY <2>1 DEF Serving, CallOfOrder
  <2>3. ASSUME faults = 0, crashes = 0, Serving(o) = {} PROVE Settled(o)
    BY <2>1, <2>2, <2>3 DEF BooksFit, Settled
  <2> QED
    BY <2>1, <2>3 DEF BooksFit
<1> QED
  BY <1>1, <1>2, <1>3, MarketInvariance, PTL DEF MarketSpec

=============================================================================
