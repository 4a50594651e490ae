-------------------------- MODULE TransferService --------------------------
(***************************************************************************)
(* The handlers of Services/TransferService*.cs and the sweep of           *)
(* TransferAutoReleaseHostedService.  A handler that finds its guard false *)
(* returns without effect, so it is simply not begun here.                 *)
(***************************************************************************)
EXTENDS EscrowState

-----------------------------------------------------------------------------
(* CreateTransferAsync: deduct the sender, insert the transfer, give the   *)
(* money back when the insert fails.                                       *)

\* FindExistingPendingCaseLockAsync: by key, else a Pending transfer of the
\* same parties, amount and case message.
ExistingCaseLock(t) ==
    {u \in Transfers :
        /\ status[u] = "Pending"
        /\ \/ CaseLockKey[u] = CaseLockKey[t]
           \/ /\ Sender[u] = Sender[t] /\ Receiver[u] = Receiver[t]
              /\ Amount[u] = Amount[t] /\ CaseMessage[u] = CaseMessage[t]}

BeginCreate(r, t) ==
    /\ t \notin issued
    /\ CaseMessage[t] = NoCase \/ ExistingCaseLock(t) = {}
    /\ Begin(r, "create", "deduct", t)
    /\ issued' = issued \cup {t}
    /\ UNCHANGED <<status, expired, dispute, balance, payout, faults, crashes>>

\* The balance read before DeductBalanceAsync repeats the test the deduction
\* makes atomically, and failing either ends the call without effect.
DeductForTransfer(r) ==
    LET t == job[r].t IN
    /\ At(r, "create", "deduct")
    /\ IF balance[Sender[t]] >= Amount[t]
       THEN /\ balance' = [balance EXCEPT ![Sender[t]] = @ - Amount[t]]
            /\ Goto(r, "insert")
       ELSE Finish(r) /\ UNCHANGED balance
    /\ UNCHANGED <<status, expired, dispute, issued, payout, faults, crashes>>

\* Mutant: a failed insert is not compensated.
InsertWithoutRefund(r) ==
    LET t == job[r].t IN
    /\ At(r, "create", "insert")
    /\ \/ /\ MayBePending(t)
          /\ status' = [status EXCEPT ![t] = "Pending"]
          /\ Finish(r)
          /\ UNCHANGED faults
       \/ ~MayBePending(t) /\ Goto(r, "duplicate") /\ UNCHANGED <<status, faults>>
       \/ Fault /\ Finish(r) /\ UNCHANGED status
    /\ UNCHANGED <<expired, dispute, balance, issued, payout, crashes>>

\* Retries after a duplicate code change nothing; the last one is a fault.
InsertTransfer(r) ==
    LET t == job[r].t IN
    /\ At(r, "create", "insert")
    /\ \/ /\ MayBePending(t)
          /\ status' = [status EXCEPT ![t] = "Pending"]
          /\ Finish(r)
          /\ UNCHANGED faults
       \/ ~MayBePending(t) /\ Goto(r, "duplicate") /\ UNCHANGED <<status, faults>>
       \/ Fault /\ Goto(r, "refundOnce") /\ UNCHANGED status
    /\ UNCHANGED <<expired, dispute, balance, issued, payout, crashes>>

\* Mutant: a duplicate returns the existing transfer and keeps the deduction.
DuplicateKeepsMoney(r) ==
    /\ At(r, "create", "duplicate")
    /\ \/ PendingLock(job[r].t) # {} /\ Finish(r) /\ UNCHANGED faults
       \/ PendingLock(job[r].t) = {} /\ Goto(r, "refundOnce") /\ UNCHANGED faults
       \/ Fault /\ Goto(r, "refundOnce")
    /\ UNCHANGED <<status, expired, dispute, balance, issued, payout, crashes>>

\* FindPendingCaseLockByKeyAsync after the duplicate-key error: the holder of
\* the key may have left Pending meanwhile.
LookUpDuplicate(r) ==
    /\ At(r, "create", "duplicate")
    /\ \/ PendingLock(job[r].t) # {} /\ Goto(r, "refundTwice") /\ UNCHANGED faults
       \/ PendingLock(job[r].t) = {} /\ Goto(r, "refundOnce") /\ UNCHANGED faults
       \/ Fault /\ Goto(r, "refundOnce")
    /\ UNCHANGED <<status, expired, dispute, balance, issued, payout, crashes>>

\* TryRefundFailedTransferDeductionAsync, from the duplicate branch (whose
\* failure is caught by the outer handler, which tries again) or from the
\* outer handler (whose failure loses the deduction).
RefundDeduction(r) ==
    LET t == job[r].t IN
    /\ job[r].op = "create" /\ job[r].pc \in {"refundTwice", "refundOnce"}
    /\ \/ /\ balance' = [balance EXCEPT ![Sender[t]] = @ + Amount[t]]
          /\ Finish(r)
          /\ UNCHANGED faults
       \/ /\ Fault
          /\ IF job[r].pc = "refundTwice" THEN Goto(r, "refundOnce") ELSE Finish(r)
          /\ UNCHANGED balance
    /\ UNCHANGED <<status, expired, dispute, issued, payout, crashes>>

-----------------------------------------------------------------------------
(* ReleaseTransferAsync.  The filter of its update compares HoldUntil with *)
(* the time read before the PIN check, so it repeats the answer got then.  *)

BeginRelease(r, t, by) ==
    /\ status[t] = "Pending"
    /\ by = IF expired[t] THEN "receiver" ELSE "sender"
    /\ job[r] = Idle
    /\ job' = [job EXCEPT ![r] = [Idle EXCEPT !.op = "release", !.pc = "claim",
                                              !.t = t, !.by = by]]
    /\ UNCHANGED <<status, expired, dispute, balance, issued, payout, faults, crashes>>

ClaimRelease(r) ==
    /\ At(r, "release", "claim")
    /\ LET a == Amount[job[r].t]
       IN  Claim(r, {"Pending"}, "Released", "pay", 0, a - Fee(a))

UndoRelease(r) ==
    At(r, "release", "undo") /\ Rollback(r, "Released", "Pending")

-----------------------------------------------------------------------------
(* CancelTransferAsync, by the sender before the hold expires.             *)

BeginCancel(r, t) ==
    /\ status[t] = "Pending"
    /\ ~expired[t]
    /\ Begin(r, "cancel", "claim", t)
    /\ UNCHANGED <<status, expired, dispute, balance, issued, payout, faults, crashes>>

\* Mutant: the update names the transfer by its id only.
ClaimCancelBlind(r) ==
    /\ At(r, "cancel", "claim")
    /\ Claim(r, TransferStatus, "Cancelled", "pay", Amount[job[r].t], 0)

ClaimCancel(r) ==
    /\ At(r, "cancel", "claim")
    /\ Claim(r, {"Pending"}, "Cancelled", "pay", Amount[job[r].t], 0)

UndoCancel(r) ==
    At(r, "cancel", "undo") /\ Rollback(r, "Cancelled", "Pending")

-----------------------------------------------------------------------------
(* RejectTransferAsync, by the receiver, also of a disputed transfer.  Its *)
(* rollback always goes to Pending.                                        *)

BeginReject(r, t) ==
    /\ status[t] \in {"Pending", "Disputed"}
    /\ Begin(r, "reject", "claim", t)
    /\ UNCHANGED <<status, expired, dispute, balance, issued, payout, faults, crashes>>

ClaimReject(r) ==
    /\ At(r, "reject", "claim")
    /\ Claim(r, {"Pending", "Disputed"}, "Rejected", "pay", Amount[job[r].t], 0)

UndoReject(r) ==
    At(r, "reject", "undo") /\ Rollback(r, "Rejected", "Pending")

-----------------------------------------------------------------------------
(* AutoReleaseExpiredTransfersAsync: one transfer of the sweep's list.     *)

BeginAutoRelease(w, t) ==
    /\ status[t] = "Pending"
    /\ expired[t]
    /\ Begin(w, "auto", "claim", t)
    /\ UNCHANGED <<status, expired, dispute, balance, issued, payout, faults, crashes>>

ClaimAutoRelease(w) ==
    /\ At(w, "auto", "claim")
    /\ LET a == Amount[job[w].t]
       IN  Claim(w, {"Pending"}, "Released", "pay", 0, a - Fee(a))

\* Mutant: a failed credit is only logged.
AutoReleaseGivesUp(w) ==
    /\ At(w, "auto", "undo")
    /\ Finish(w)
    /\ UNCHANGED <<status, expired, dispute, balance, issued, payout, faults, crashes>>

UndoAutoRelease(w) ==
    At(w, "auto", "undo") /\ Rollback(w, "Released", "Pending")

-----------------------------------------------------------------------------

\* Time passes HoldUntil.
Expire(t) ==
    /\ status[t] # "None"
    /\ ~expired[t]
    /\ expired' = [expired EXCEPT ![t] = TRUE]
    /\ UNCHANGED <<status, dispute, balance, issued, payout, job, faults, crashes>>

=============================================================================
