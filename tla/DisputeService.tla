--------------------------- MODULE DisputeService ---------------------------
(***************************************************************************)
(* The handlers of Services/DisputeService.cs that change a dispute's      *)
(* status or its transfer.  A transfer has at most one dispute: the        *)
(* collection has a unique index on transferId and nothing deletes one.    *)
(***************************************************************************)
EXTENDS EscrowState

\* The handler stands at pc and what it knows is kept in seen.
BeginSeeing(r, op, pc, t, seen) ==
    /\ job[r] = Idle
    /\ job' = [job EXCEPT ![r] = [Idle EXCEPT !.op = op, !.pc = pc, !.t = t,
                                              !.seen = seen]]
    /\ UNCHANGED <<status, expired, dispute, balance, issued, payout, faults, crashes>>

\* The second of two reads: the handler goes on to its claim, or returns.
Reread(r, ok) ==
    /\ IF ok THEN Goto(r, "claim") ELSE Finish(r)
    /\ UNCHANGED <<status, expired, dispute, balance, issued, payout, faults, crashes>>

\* A conditional write of the dispute's final status, then the next step.
CloseDispute(r, from, new, pcIfLost) ==
    LET t == job[r].t IN
    /\ IF dispute[t] \in from
       THEN dispute' = [dispute EXCEPT ![t] = new] /\ Finish(r)
       ELSE /\ IF pcIfLost = "idle" THEN Finish(r) ELSE Goto(r, pcIfLost)
            /\ UNCHANGED dispute
    /\ UNCHANGED <<status, expired, balance, issued, payout, faults, crashes>>

-----------------------------------------------------------------------------
(* CreateDisputeAsync, by the sender.                                      *)

BeginCreateDispute(r, t) ==
    /\ status[t] = "Pending"
    /\ BeginSeeing(r, "createDispute", "read", t, "None")

ReadExistingDispute(r) ==
    At(r, "createDispute", "read") /\ Reread(r, dispute[job[r].t] = "None")

ClaimCreateDispute(r) ==
    /\ At(r, "createDispute", "claim")
    /\ Claim(r, {"Pending"}, "Disputed", "insert", 0, 0)

\* A duplicate key finds the existing dispute and reports success.
InsertDispute(r) ==
    LET t == job[r].t IN
    /\ At(r, "createDispute", "insert")
    /\ \/ /\ dispute' = IF dispute[t] = "None"
                        THEN [dispute EXCEPT ![t] = "Open"] ELSE dispute
          /\ Finish(r)
          /\ UNCHANGED faults
       \/ Fault /\ Goto(r, "lookup") /\ UNCHANGED dispute
    /\ UNCHANGED <<status, expired, balance, issued, payout, crashes>>

LookUpDispute(r) ==
    /\ At(r, "createDispute", "lookup")
    /\ IF dispute[job[r].t] = "None" THEN Goto(r, "thaw") ELSE Finish(r)
    /\ UNCHANGED <<status, expired, dispute, balance, issued, payout, faults, crashes>>

ThawTransfer(r) ==
    At(r, "createDispute", "thaw") /\ Rollback(r, "Disputed", "Pending")

-----------------------------------------------------------------------------
(* CancelDisputeAsync, by the initiator.                                   *)

BeginCancelDispute(r, t) ==
    /\ dispute[t] = "Open"
    /\ BeginSeeing(r, "cancelDispute", "claim", t, "None")

ClaimCancelDispute(r) ==
    /\ At(r, "cancelDispute", "claim")
    /\ Claim(r, {"Disputed"}, "Pending", "close", 0, 0)

CloseCancelDispute(r) ==
    /\ At(r, "cancelDispute", "close")
    /\ CloseDispute(r, {"Open"}, "Cancelled", "reopen")

-----------------------------------------------------------------------------
(* ContinueTransactionAsync, by an administrator.                          *)

BeginContinue(r, t) ==
    /\ dispute[t] \in ActiveDispute
    /\ BeginSeeing(r, "continue", "read", t, dispute[t])

ReadTransferToContinue(r) ==
    At(r, "continue", "read") /\ Reread(r, status[job[r].t] = "Disputed")

ClaimContinue(r) ==
    /\ At(r, "continue", "claim")
    /\ Claim(r, {"Disputed"}, "Pending", "close", 0, 0)

CloseContinue(r) ==
    /\ At(r, "continue", "close")
    /\ CloseDispute(r, {job[r].seen}, "Resolved", "reopen")

\* Mutant: the rollback does not look at the transfer's status.
ReopenBlind(r) ==
    /\ job[r].pc = "reopen"
    /\ status' = [status EXCEPT ![job[r].t] = "Disputed"]
    /\ Finish(r)
    /\ UNCHANGED <<expired, dispute, balance, issued, payout, faults, crashes>>

\* TryRollbackTransferToDisputedAsync, after either of the two above.
Reopen(r) ==
    LET t == job[r].t IN
    /\ job[r].pc = "reopen"
    /\ status' = IF status[t] = "Pending"
                 THEN [status EXCEPT ![t] = "Disputed"] ELSE status
    /\ Finish(r)
    /\ UNCHANGED <<expired, dispute, balance, issued, payout, faults, crashes>>

-----------------------------------------------------------------------------
(* MutualRefundAsync, by the receiver.                                     *)

BeginMutualRefund(r, t) ==
    /\ dispute[t] = "Open"
    /\ BeginSeeing(r, "mutual", "read", t, "None")

ReadTransferToRefund(r) ==
    At(r, "mutual", "read") /\ Reread(r, status[job[r].t] = "Disputed")

\* Mutant: the fee is taken from a refund too.
ClaimRefundLessFee(r) ==
    /\ At(r, "mutual", "claim")
    /\ LET a == Amount[job[r].t]
       IN  Claim(r, {"Disputed"}, "Cancelled", "pay", a - Fee(a), 0)

ClaimMutualRefund(r) ==
    /\ At(r, "mutual", "claim")
    /\ Claim(r, {"Disputed"}, "Cancelled", "pay", Amount[job[r].t], 0)

UndoMutualRefund(r) ==
    At(r, "mutual", "undo") /\ Rollback(r, "Cancelled", "Disputed")

CloseMutualRefund(r) ==
    /\ At(r, "mutual", "close")
    /\ CloseDispute(r, ActiveDispute, "Resolved", "idle")

-----------------------------------------------------------------------------
(* ResolveDisputeAsync, by an administrator.  A resolution is NoAction or  *)
(* a share of the amount that goes back to the sender: FullRefund is 100   *)
(* percent, FullRelease 0 percent, Split any percentage.                   *)

BeginResolve(r, t) ==
    /\ dispute[t] \in ActiveDispute
    /\ BeginSeeing(r, "resolve", "read", t, "None")

ReadTransferToResolve(r) ==
    At(r, "resolve", "read") /\ Reread(r, status[job[r].t] = "Disputed")

RefundToSender(t, percent) == (Amount[t] * percent) \div 100

ReleaseToReceiver(t, percent) ==
    LET rest == Amount[t] - RefundToSender(t, percent) IN rest - Fee(rest)

ClaimResolve(r, percent) ==
    LET t == job[r].t
        refund == RefundToSender(t, percent)
        release == ReleaseToReceiver(t, percent)
    IN  /\ At(r, "resolve", "claim")
        /\ Claim(r, {"Disputed"}, IF release > 0 THEN "Released" ELSE "Cancelled",
                 "pay", refund, release)

ClaimNoAction(r) ==
    /\ At(r, "resolve", "claim")
    /\ Claim(r, {"Disputed"}, "Pending", "close", 0, 0)

\* The final write names the dispute by its id only.
CloseResolve(r) ==
    /\ At(r, "resolve", "close")
    /\ CloseDispute(r, DisputeStatus, "Resolved", "idle")

-----------------------------------------------------------------------------
(* UpdateStatusAsync, by an administrator: the check and the write are two *)
(* calls, and the write names the dispute by its id only.                  *)

BeginUpdateStatus(r, t, new) ==
    /\ dispute[t] \in ActiveDispute
    /\ BeginSeeing(r, "update", "write", t, new)

WriteStatus(r) ==
    /\ At(r, "update", "write")
    /\ dispute' = [dispute EXCEPT ![job[r].t] = job[r].seen]
    /\ Finish(r)
    /\ UNCHANGED <<status, expired, balance, issued, payout, faults, crashes>>

=============================================================================
