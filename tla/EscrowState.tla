---------------------------- MODULE EscrowState ----------------------------
(***************************************************************************)
(* The state shared by the escrow handlers of the feature service: the     *)
(* "transfers", "disputes" and "wallets" collections, and the handlers     *)
(* that are part-way through.  TransferService and DisputeService add the  *)
(* handlers, Escrow composes them.                                         *)
(*                                                                         *)
(* A handler is a sequence of awaited database calls.  Each call is one    *)
(* atomic step of the model; between two calls of one handler any other    *)
(* handler may run, the wallet or a collection may fail, and the process   *)
(* may die.  What a handler read before an await is kept in its job.       *)
(***************************************************************************)
EXTENDS Integers, FiniteSets

CONSTANTS
    Requests,        \* slots in which HTTP requests run concurrently
    Workers,         \* instances of TransferAutoReleaseHostedService
    Users,           \* wallet owners
    Transfers,       \* transfer ids: one Ulid per CreateTransferAsync call
    Sender,          \* [Transfers -> Users], arguments of the creating call
    Receiver,        \* [Transfers -> Users]
    Amount,          \* [Transfers -> Nat]
    CaseMessage,     \* the validation case of the message, or NoCase
    CaseLockKey,     \* the key derived from it (adds the hold hours), or NoCase
    NoCase,          \* "the message names no validation case"
    NoTransfer,      \* the transfer of an idle slot
    Opening,         \* [Users -> Nat], wallet balances before any escrow
    SplitPercents,   \* values of ResolveDisputeRequest.SenderPercent explored
    AdminStatuses,   \* values of UpdateDisputeStatusRequest.Status explored
    MaxFaults,       \* bound: database calls that throw
    MaxCrashes       \* bound: deaths of the service process

Jobs == Requests \cup Workers

TransferStatus == {"Pending", "Released", "Cancelled", "Rejected", "Disputed"}

\* A document that has not been inserted has status "None".
Terminal == {"Released", "Cancelled", "Rejected"}

ActiveDispute == {"Open", "UnderReview", "WaitingForEvidence"}

ClosedDispute == {"Resolved", "Cancelled"}

DisputeStatus == ActiveDispute \cup ClosedDispute

ASSUME EscrowAssumption ==
    /\ IsFiniteSet(Users) /\ IsFiniteSet(Transfers)
    /\ Requests \cap Workers = {}
    /\ NoTransfer \notin Transfers
    /\ Sender \in [Transfers -> Users]
    /\ Receiver \in [Transfers -> Users]
    /\ Amount \in [Transfers -> Nat]
    /\ \A t \in Transfers : Amount[t] >= 10000    \* the minimum transfer
    /\ \A t \in Transfers : Sender[t] # Receiver[t]
    /\ DOMAIN CaseMessage = Transfers /\ DOMAIN CaseLockKey = Transfers
    /\ \A t \in Transfers : CaseLockKey[t] = NoCase <=> CaseMessage[t] = NoCase
    /\ Opening \in [Users -> Nat]
    /\ SplitPercents \subseteq 0..100
    /\ AdminStatuses \subseteq DisputeStatus
    /\ MaxFaults \in Nat /\ MaxCrashes \in Nat

VARIABLES
    status,    \* Transfer.Status; ReleasedAt is set exactly while it is Released
    expired,   \* HoldUntil has passed
    dispute,   \* Dispute.Status of the one dispute a transfer may have, or "None"
    balance,   \* UserWallet.Balance
    issued,    \* ids already drawn by CreateTransferAsync
    payout,    \* history: what has been credited out of each transfer
    job,       \* the handler each slot runs and where it stands
    faults,    \* database calls that have thrown so far
    crashes    \* process deaths so far

vars == <<status, expired, dispute, balance, issued, payout, job, faults, crashes>>

Ops == {"idle", "create", "release", "cancel", "reject", "auto",
        "createDispute", "cancelDispute", "continue", "mutual", "resolve", "update"}

(***************************************************************************)
(* read    has read one of transfer and dispute, about to read the other   *)
(* claim   about to compare-and-set the transfer's status                  *)
(* pay     owns the transfer's new status, credits outstanding             *)
(* undo    a credit has thrown, about to restore the status                *)
(* close   about to write the dispute's final status                       *)
(* reopen  lost the dispute, about to put the transfer back to Disputed    *)
(* lookup  dispute insert failed, about to look for an existing dispute    *)
(* thaw    found none, about to put the transfer back to Pending           *)
(* deduct, insert, duplicate, refundTwice, refundOnce: CreateTransferAsync *)
(* write   about to write the status an administrator chose                *)
(***************************************************************************)
Pcs == {"idle", "read", "claim", "pay", "undo", "close", "reopen", "lookup",
        "thaw", "deduct", "insert", "duplicate", "refundTwice", "refundOnce", "write"}

\* toSender and toReceiver are the credits the handler still has to make;
\* by is the user who asked, where the code distinguishes them; seen is the
\* dispute status read (ContinueTransaction) or chosen (UpdateStatus).
Job == [op : Ops, pc : Pcs, t : Transfers \cup {NoTransfer},
        toSender : Nat, toReceiver : Nat,
        by : {"sender", "receiver", "other"}, seen : DisputeStatus \cup {"None"}]

Idle == [op |-> "idle", pc |-> "idle", t |-> NoTransfer, toSender |-> 0,
         toReceiver |-> 0, by |-> "other", seen |-> "None"]

Init ==
    /\ status = [t \in Transfers |-> "None"]
    /\ expired = [t \in Transfers |-> FALSE]
    /\ dispute = [t \in Transfers |-> "None"]
    /\ balance = Opening
    /\ issued = {}
    /\ payout = [t \in Transfers |-> [sender |-> 0, receiver |-> 0]]
    /\ job = [r \in Jobs |-> Idle]
    /\ faults = 0
    /\ crashes = 0

-----------------------------------------------------------------------------
(* Helpers.                                                                *)

At(r, op, pc) == job[r].op = op /\ job[r].pc = pc

\* The slot starts a handler for t and stops at its first conditional write.
Begin(r, op, pc, t) ==
    /\ job[r] = Idle
    /\ job' = [job EXCEPT ![r] = [Idle EXCEPT !.op = op, !.pc = pc, !.t = t]]

Goto(r, pc) == job' = [job EXCEPT ![r].pc = pc]

Finish(r) == job' = [job EXCEPT ![r] = Idle]

Fault == faults < MaxFaults /\ faults' = faults + 1

\* The 2% fee, truncated: integer division here, (long)(x * 0.02m) in disputes.
Fee(x) == (x * 2) \div 100

(***************************************************************************)
(* The partial unique index caseLockKey_pending_unique: at most one        *)
(* Pending transfer per lock key.  A write that would break it throws.     *)
(***************************************************************************)
PendingLock(t) ==
    {u \in Transfers : /\ status[u] = "Pending"
                       /\ CaseLockKey[u] = CaseLockKey[t]}

MayBePending(t) == CaseLockKey[t] = NoCase \/ PendingLock(t) \ {t} = {}

\* A status write passes the index unless it makes a second Pending document.
Writable(t, new) == new = "Pending" => MayBePending(t)

(***************************************************************************)
(* UpdateOneAsync with a filter on the status: the new status is written   *)
(* and the handler goes on at pc with the credits it now owes.  With a     *)
(* status outside the filter, or a duplicate key, the handler returns.     *)
(***************************************************************************)
Claim(r, from, new, pc, toSender, toReceiver) ==
    LET t == job[r].t IN
    /\ IF status[t] \in from /\ Writable(t, new)
       THEN /\ status' = [status EXCEPT ![t] = new]
            /\ job' = [job EXCEPT ![r] = [job[r] EXCEPT !.pc = pc,
                            !.toSender = toSender, !.toReceiver = toReceiver]]
       ELSE Finish(r) /\ UNCHANGED status
    /\ UNCHANGED <<expired, dispute, balance, issued, payout, faults, crashes>>

(***************************************************************************)
(* A rollback of the transfer's status: conditional on the status the      *)
(* handler left, refused by the index, or lost when the write throws.      *)
(***************************************************************************)
Rollback(r, from, to) ==
    LET t == job[r].t IN
    /\ \/ /\ IF status[t] = from /\ Writable(t, to)
             THEN status' = [status EXCEPT ![t] = to]
             ELSE UNCHANGED status
          /\ UNCHANGED faults
       \/ Fault /\ UNCHANGED status
    /\ Finish(r)
    /\ UNCHANGED <<expired, dispute, balance, issued, payout, crashes>>

(***************************************************************************)
(* WalletService.AddBalanceAsync.  A handler that settles makes the credit *)
(* to the sender first, then the one to the receiver.                      *)
(***************************************************************************)
AfterCredit(j) ==
    CASE j.toReceiver > 0              -> j
      [] j.toReceiver = 0 /\ j.op \in {"mutual", "resolve"} -> [j EXCEPT !.pc = "close"]
      [] OTHER                         -> Idle

PaySender(r) ==
    LET j == job[r] IN
    /\ j.pc = "pay" /\ j.toSender > 0
    /\ balance' = [balance EXCEPT ![Sender[j.t]] = @ + j.toSender]
    /\ payout' = [payout EXCEPT ![j.t].sender = @ + j.toSender]
    /\ job' = [job EXCEPT ![r] = AfterCredit([j EXCEPT !.toSender = 0])]
    /\ UNCHANGED <<status, expired, dispute, issued, faults, crashes>>

PayReceiver(r) ==
    LET j == job[r] IN
    /\ j.pc = "pay" /\ j.toSender = 0
    /\ balance' = [balance EXCEPT ![Receiver[j.t]] = @ + j.toReceiver]
    /\ payout' = [payout EXCEPT ![j.t].receiver = @ + j.toReceiver]
    /\ job' = [job EXCEPT ![r] = AfterCredit([j EXCEPT !.toReceiver = 0])]
    /\ UNCHANGED <<status, expired, dispute, issued, faults, crashes>>

\* The credit throws and has no effect: most handlers go on to restore the
\* status they wrote, ResolveDisputeAsync returns and leaves it.
PayThrows(r) ==
    /\ job[r].pc = "pay"
    /\ Fault
    /\ IF job[r].op = "resolve" THEN Finish(r) ELSE Goto(r, "undo")
    /\ UNCHANGED <<status, expired, dispute, balance, issued, payout, crashes>>

\* A call outside any try block throws: the handler ends where it stands.
CallThrows(r) ==
    /\ job[r].pc \in {"read", "claim", "close", "reopen", "lookup", "write", "deduct"}
    /\ Fault
    /\ Finish(r)
    /\ UNCHANGED <<status, expired, dispute, balance, issued, payout, crashes>>

=============================================================================
