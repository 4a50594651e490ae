------------------------------- MODULE Escrow -------------------------------
(***************************************************************************)
(* The escrow of the feature service: TransferService, DisputeService and  *)
(* the auto-release sweep on one set of documents, with faults of the      *)
(* database and of the wallet and deaths of the process.                   *)
(***************************************************************************)
EXTENDS TransferService, DisputeService, Functions

\* The process dies: every handler stops where it stands.
Crash ==
    /\ crashes < MaxCrashes
    /\ \E r \in Jobs : job[r] # Idle
    /\ crashes' = crashes + 1
    /\ job' = [r \in Jobs |-> Idle]
    /\ UNCHANGED <<status, expired, dispute, balance, issued, payout, faults>>

\* A request arrives and makes its first reads.
Arrive(r, t) ==
    \/ BeginCreate(r, t)
    \/ \E by \in {"sender", "receiver"} : BeginRelease(r, t, by)
    \/ BeginCancel(r, t)
    \/ BeginReject(r, t)
    \/ BeginCreateDispute(r, t)
    \/ BeginCancelDispute(r, t)
    \/ BeginContinue(r, t)
    \/ BeginMutualRefund(r, t)
    \/ BeginResolve(r, t)
    \/ \E new \in AdminStatuses : BeginUpdateStatus(r, t, new)

\* The rest of a handler of TransferService.
TransferStep(r) ==
    \/ DeductForTransfer(r) \/ InsertTransfer(r)
    \/ LookUpDuplicate(r) \/ RefundDeduction(r)
    \/ ClaimRelease(r) \/ UndoRelease(r)
    \/ ClaimCancel(r) \/ UndoCancel(r)
    \/ ClaimReject(r) \/ UndoReject(r)
    \/ ClaimAutoRelease(r) \/ UndoAutoRelease(r)

\* The rest of a handler of DisputeService.
DisputeStep(r) ==
    \/ ReadExistingDispute(r) \/ ClaimCreateDispute(r)
    \/ InsertDispute(r) \/ LookUpDispute(r) \/ ThawTransfer(r)
    \/ ClaimCancelDispute(r) \/ CloseCancelDispute(r)
    \/ ReadTransferToContinue(r) \/ ClaimContinue(r) \/ CloseContinue(r) \/ Reopen(r)
    \/ ReadTransferToRefund(r) \/ ClaimMutualRefund(r)
    \/ UndoMutualRefund(r) \/ CloseMutualRefund(r)
    \/ ReadTransferToResolve(r) \/ ClaimNoAction(r) \/ CloseResolve(r)
    \/ \E percent \in SplitPercents : ClaimResolve(r, percent)
    \/ WriteStatus(r)

WalletStep(r) == PaySender(r) \/ PayReceiver(r) \/ PayThrows(r)

Proceed(r) == TransferStep(r) \/ DisputeStep(r) \/ WalletStep(r)

Next ==
    \/ \E r \in Requests, t \in Transfers : Arrive(r, t)
    \/ \E w \in Workers, t \in Transfers : BeginAutoRelease(w, t)
    \/ \E r \in Jobs : Proceed(r) \/ CallThrows(r)
    \/ \E t \in Transfers : Expire(t)
    \/ Crash

Spec == Init /\ [][Next]_vars

(***************************************************************************)
(* Fairness.  A handler that has begun is run to its end by the runtime,   *)
(* and the hosted service sweeps every transfer that stays Pending past    *)
(* its hold again and again.  Nobody has to send a request.                *)
(***************************************************************************)
FairSpec ==
    /\ Spec
    /\ \A r \in Jobs : WF_vars(Proceed(r))
    /\ \A w \in Workers, t \in Transfers : WF_vars(BeginAutoRelease(w, t))

-----------------------------------------------------------------------------
(* Correctness.                                                            *)

TypeOK ==
    /\ status \in [Transfers -> TransferStatus \cup {"None"}]
    /\ expired \in [Transfers -> BOOLEAN]
    /\ dispute \in [Transfers -> DisputeStatus \cup {"None"}]
    /\ balance \in [Users -> Nat]
    /\ issued \subseteq Transfers
    /\ payout \in [Transfers -> [sender : Nat, receiver : Nat]]
    /\ job \in [Jobs -> Job]
    /\ faults \in Nat
    /\ crashes \in Nat

Unpaid == [sender |-> 0, receiver |-> 0]

\* The handlers that have claimed t and have not finished paying or undoing.
Settling(t) == {r \in Jobs : job[r].t = t /\ job[r].pc \in {"pay", "undo"}}

\* However requests, the sweep, administrators, failed credits, rollbacks
\* and crashes interleave, no more than a transfer's amount ever leaves it.
NoDoubleSettlement ==
    \A t \in Transfers : payout[t].sender + payout[t].receiver <= Amount[t]

\* A transfer the service still treats as escrowed (Pending or Disputed, so
\* that some handler may yet pay it out) has paid nothing yet: no rollback
\* puts a transfer back after its money has gone.
EscrowBacked ==
    \A t \in Transfers :
        status[t] \in {"Pending", "Disputed", "None"} => payout[t] = Unpaid

\* Once a credit has gone out, no later step of any handler changes the
\* transfer's status.
PaidIsFinal ==
    [][\A t \in Transfers : payout[t] # Unpaid => status'[t] = status[t]]_vars

\* s to the sender and v to the receiver are the whole of t: a refund is all
\* of the amount, a release is what is left after the fee.
InFull(t, s, v) ==
    LET rest == Amount[t] - s
    IN  /\ v = rest - Fee(rest)
        /\ status[t] # "Released" => rest = 0

\* While no call has failed and no process has died, a transfer in a final
\* status that no handler is working on has been paid out to the last unit.
SettledInFull ==
    faults = 0 /\ crashes = 0 =>
        \A t \in Transfers :
            status[t] \in Terminal /\ Settling(t) = {} =>
                InFull(t, payout[t].sender, payout[t].receiver)

Creates(r, t) == job[r].t = t /\ job[r].op = "create"

\* The call of CreateTransferAsync that has deducted t and not yet inserted or
\* refunded it.
Holds(r, t) ==
    Creates(r, t) /\ job[r].pc \in {"insert", "duplicate", "refundTwice", "refundOnce"}

\* The part of t's amount that has left the sender and reached nobody, the
\* collected fee included.
InEscrow(t) ==
    IF status[t] = "None"
    THEN IF \E r \in Jobs : Holds(r, t) THEN Amount[t] ELSE 0
    ELSE Amount[t] - payout[t].sender - payout[t].receiver

Money ==
    SumFunctionOnSet(balance, Users)
        + SumFunctionOnSet([t \in Transfers |-> InEscrow(t)], Transfers)

\* One failed call loses no deduction, unless it hits the refund of a
\* validation-case transfer whose duplicate left Pending between the insert
\* and the lookup: there a single refund is attempted.
NoLoss == faults = 0 \/ (faults = 1 /\ \A t \in Transfers : CaseLockKey[t] = NoCase)

\* Money is never created, by whatever handlers, sweeps and administrators do
\* at once; it is lost only by a crash, or by the failures NoLoss excludes.
MoneyConserved ==
    LET opening == SumFunctionOnSet(Opening, Users)
    IN  /\ Money <= opening
        /\ crashes = 0 /\ NoLoss => Money = opening

\* Where the money of t is: not yet taken by the call that drew its id, taken
\* and not yet inserted or refunded, held by its document, or none of these.
Stage(t) ==
    CASE status[t] # "None"                      -> "held"
      [] status[t] = "None" /\ \E r \in Jobs : Holds(r, t) -> "taken"
      [] OTHER -> IF t \notin issued \/ \E r \in Jobs : Creates(r, t) /\ job[r].pc = "deduct"
                  THEN "open" ELSE "void"

Contract == INSTANCE EscrowContract WITH
    stage <- [t \in Transfers |-> Stage(t)],
    left <- [t \in Transfers |-> InEscrow(t)],
    troubles <- faults + crashes

\* Every step of every handler is one the contract of the escrow allows: the
\* deduction of CreateTransferAsync is given back or becomes a document, only
\* its two parties are paid from it, and only a failure at that very step can
\* lose it.
ImplementsEscrowContract == Contract!Spec

\* A transfer that is Pending past its hold is paid out to someone, or its
\* sender has disputed it: a failed credit is rolled back and swept again.  A
\* second failure may hit the rollback, and nothing repairs a crash between
\* claim and credit; for a transfer of a validation case, the unique index on
\* the case lock may refuse the rollback.
ExpiredIsSettled ==
    \A t \in Transfers :
        (status[t] = "Pending" /\ expired[t] /\ CaseLockKey[t] = NoCase) ~>
            \/ payout[t] # Unpaid \/ status[t] = "Disputed"
            \/ faults > 1 \/ crashes > 0

=============================================================================
