------------------------------ MODULE Deposit ------------------------------
(***************************************************************************)
(* Services/DepositService.cs: a user reports a payment by its external    *)
(* transaction id, and an administrator approves the deposit, which        *)
(* credits the wallet, or rejects it.                                      *)
(***************************************************************************)
EXTENDS Naturals

CONSTANTS
    Deposits,      \* ids, one per CreateRequestAsync call
    Payments,      \* external transaction ids
    Payment,       \* [Deposits -> Payments]
    Admins,        \* slots of concurrent ApproveAsync and RejectAsync calls
    NoDeposit,     \* the deposit of an idle slot
    MaxFaults,     \* bound: database calls that throw
    MaxCrashes     \* bound: deaths of the service process

ASSUME DepositAssumption ==
    /\ Payment \in [Deposits -> Payments]
    /\ NoDeposit \notin Deposits
    /\ MaxFaults \in Nat /\ MaxCrashes \in Nat

VARIABLES
    status,     \* DepositRequest.Status, "None" before the insert
    linked,     \* deposits whose WalletTransactionId is set
    credits,    \* history: credits made for each deposit
    create,     \* where the creating call of each id stands
    job,        \* the handler each slot runs
    faults,
    crashes

vars == <<status, linked, credits, create, job, faults, crashes>>

Statuses == {"Pending", "Approved", "Rejected"}

(***************************************************************************)
(* claim   read Pending, about to compare-and-set Approved                 *)
(* credit  owns the approval, about to credit the wallet                   *)
(* undo    the credit threw, about to restore Pending                      *)
(* link    credited, about to write WalletTransactionId                    *)
(* reject  read Pending, about to compare-and-set Rejected                 *)
(***************************************************************************)
JobPcs == {"idle", "claim", "credit", "undo", "link", "reject"}

Idle == [pc |-> "idle", d |-> NoDeposit]

TypeOK ==
    /\ status \in [Deposits -> Statuses \cup {"None"}]
    /\ linked \subseteq Deposits
    /\ credits \in [Deposits -> Nat]
    /\ create \in [Deposits -> {"new", "insert", "done"}]
    /\ job \in [Admins -> [pc : JobPcs, d : Deposits \cup {NoDeposit}]]
    /\ faults \in Nat /\ crashes \in Nat

Init ==
    /\ status = [d \in Deposits |-> "None"]
    /\ linked = {}
    /\ credits = [d \in Deposits |-> 0]
    /\ create = [d \in Deposits |-> "new"]
    /\ job = [s \in Admins |-> Idle]
    /\ faults = 0
    /\ crashes = 0

-----------------------------------------------------------------------------

Fault == faults < MaxFaults /\ faults' = faults + 1

\* The deposits that carry the same external id; the unique index
\* externalTransactionId_1 admits one.
SamePayment(d) == {e \in Deposits : Payment[e] = Payment[d] /\ status[e] # "None"}

SetStatus(d, st) == status' = [status EXCEPT ![d] = st]

Goto(s, p) == job' = [job EXCEPT ![s] = [pc |-> p, d |-> @.d]]

Finish(s) == job' = [job EXCEPT ![s] = Idle]

-----------------------------------------------------------------------------
(* CreateRequestAsync.                                                     *)

\* An existing deposit of this payment is returned, or refused to another user.
LookUpPayment(d) ==
    /\ create[d] = "new"
    /\ create' = [create EXCEPT ![d] = IF SamePayment(d) = {} THEN "insert" ELSE "done"]
    /\ UNCHANGED <<status, linked, credits, job, faults, crashes>>

\* Mutant: the unique index on the external id is missing.
InsertUnindexed(d) ==
    /\ create[d] = "insert"
    /\ SetStatus(d, "Pending")
    /\ create' = [create EXCEPT ![d] = "done"]
    /\ UNCHANGED <<linked, credits, job, faults, crashes>>

\* The insert; a duplicate key leads to the existing deposit, as above.
InsertDeposit(d) ==
    /\ create[d] = "insert"
    /\ \/ /\ SamePayment(d) = {}
          /\ SetStatus(d, "Pending")
          /\ UNCHANGED faults
       \/ /\ \/ SamePayment(d) # {} /\ UNCHANGED faults
             \/ Fault
          /\ UNCHANGED status
    /\ create' = [create EXCEPT ![d] = "done"]
    /\ UNCHANGED <<linked, credits, job, crashes>>

-----------------------------------------------------------------------------
(* ApproveAsync.                                                           *)

\* An Approved deposit is answered with success, a Rejected one refused.
BeginApprove(s, d) ==
    /\ job[s] = Idle
    /\ status[d] = "Pending"
    /\ job' = [job EXCEPT ![s] = [pc |-> "claim", d |-> d]]
    /\ UNCHANGED <<status, linked, credits, create, faults, crashes>>

\* UpdateOneAsync filtered on Pending.
ClaimApprove(s) ==
    /\ job[s].pc = "claim"
    /\ IF status[job[s].d] = "Pending"
       THEN SetStatus(job[s].d, "Approved") /\ Goto(s, "credit")
       ELSE Finish(s) /\ UNCHANGED status
    /\ UNCHANGED <<linked, credits, create, faults, crashes>>

CreditDeposit(s) ==
    /\ job[s].pc = "credit"
    /\ \/ /\ credits' = [credits EXCEPT ![job[s].d] = @ + 1]
          /\ Goto(s, "link") /\ UNCHANGED faults
       \/ Fault /\ Goto(s, "undo") /\ UNCHANGED credits
    /\ UNCHANGED <<status, linked, create, crashes>>

\* Mutant: the rollback looks for a deposit that is still Pending.
UndoFromPending(s) ==
    /\ job[s].pc = "undo"
    /\ status[job[s].d] = "Pending" => SetStatus(job[s].d, "Pending")
    /\ status[job[s].d] # "Pending" => UNCHANGED status
    /\ Finish(s)
    /\ UNCHANGED <<linked, credits, create, faults, crashes>>

\* Back to Pending if still Approved and not linked to a wallet transaction.
UndoApprove(s) ==
    /\ job[s].pc = "undo"
    /\ \/ /\ IF status[job[s].d] = "Approved" /\ job[s].d \notin linked
             THEN SetStatus(job[s].d, "Pending")
             ELSE UNCHANGED status
          /\ UNCHANGED faults
       \/ Fault /\ UNCHANGED status
    /\ Finish(s)
    /\ UNCHANGED <<linked, credits, create, crashes>>

\* A failure to write WalletTransactionId is logged only.
LinkTransaction(s) ==
    /\ job[s].pc = "link"
    /\ \/ linked' = linked \cup {job[s].d} /\ UNCHANGED faults
       \/ Fault /\ UNCHANGED linked
    /\ Finish(s)
    /\ UNCHANGED <<status, credits, create, crashes>>

-----------------------------------------------------------------------------
(* RejectAsync.                                                            *)

BeginReject(s, d) ==
    /\ job[s] = Idle
    /\ status[d] = "Pending"
    /\ job' = [job EXCEPT ![s] = [pc |-> "reject", d |-> d]]
    /\ UNCHANGED <<status, linked, credits, create, faults, crashes>>

\* Mutant: the status is written without a filter.
RejectBlind(s) ==
    /\ job[s].pc = "reject"
    /\ SetStatus(job[s].d, "Rejected")
    /\ Finish(s)
    /\ UNCHANGED <<linked, credits, create, faults, crashes>>

ClaimReject(s) ==
    /\ job[s].pc = "reject"
    /\ IF status[job[s].d] = "Pending"
       THEN SetStatus(job[s].d, "Rejected")
       ELSE UNCHANGED status
    /\ Finish(s)
    /\ UNCHANGED <<linked, credits, create, faults, crashes>>

-----------------------------------------------------------------------------

\* A compare-and-set throws outside any try block: the handler ends.
CallThrows(s) ==
    /\ job[s].pc \in {"claim", "reject"}
    /\ Fault
    /\ Finish(s)
    /\ UNCHANGED <<status, linked, credits, create, crashes>>

Crash ==
    /\ crashes < MaxCrashes
    /\ crashes' = crashes + 1
    /\ create' = [d \in Deposits |-> IF create[d] = "new" THEN "new" ELSE "done"]
    /\ job' = [s \in Admins |-> Idle]
    /\ UNCHANGED <<status, linked, credits, faults>>

Begin(s, d) == BeginApprove(s, d) \/ BeginReject(s, d)

AdminStep(s) ==
    \/ ClaimApprove(s) \/ CreditDeposit(s) \/ UndoApprove(s) \/ LinkTransaction(s)
    \/ ClaimReject(s) \/ CallThrows(s)

Next ==
    \/ \E d \in Deposits : LookUpPayment(d) \/ InsertDeposit(d)
    \/ \E s \in Admins, d \in Deposits : Begin(s, d)
    \/ \E s \in Admins : AdminStep(s)
    \/ Crash

Spec == Init /\ [][Next]_vars

-----------------------------------------------------------------------------
(* Properties.                                                             *)

\* A payment is credited once: however often its user reports it
\* (CreateRequestAsync), however many administrators approve and reject its
\* deposit (ApproveAsync, RejectAsync), whatever fails in between.
PaymentCreditedOnce ==
    \A d, e \in Deposits :
        Payment[d] = Payment[e] /\ credits[d] > 0 /\ credits[e] > 0
            => d = e /\ credits[d] = 1

\* A credited deposit is Approved for good: neither RejectAsync nor the
\* rollback of another ApproveAsync takes the status away.
CreditedIsApproved == \A d \in Deposits : credits[d] > 0 => status[d] = "Approved"

Quiet == /\ \A d \in Deposits : create[d] # "insert"
         /\ \A s \in Admins : job[s] = Idle

\* One failed call loses nothing: when the credit of ApproveAsync throws, the
\* rollback reopens the deposit, so at rest no Approved deposit is uncredited.
ApprovedIsCredited ==
    Quiet /\ faults <= 1 /\ crashes = 0 =>
        \A d \in Deposits : status[d] = "Approved" => credits[d] = 1

=============================================================================
