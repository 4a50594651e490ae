----------------------------- MODULE Withdrawal -----------------------------
(***************************************************************************)
(* Services/WithdrawalService.cs: a user asks for money to be sent to a    *)
(* bank, may cancel the request, and an administrator approves or rejects  *)
(* it.  Creating debits the wallet before the document exists; cancelling  *)
(* claims the status before it refunds; processing does neither.           *)
(*                                                                         *)
(* Every step is one awaited call; the calls of a handler are separated by *)
(* steps of the others, and the process may die between them.              *)
(***************************************************************************)
EXTENDS Integers, FiniteSets, Functions

CONSTANTS
    Withdrawals,    \* ids, one per CreateWithdrawalAsync call
    Users,
    Owner,          \* [Withdrawals -> Users]
    Amount,         \* [Withdrawals -> Nat]
    Opening,        \* [Users -> Nat], wallet balances before any withdrawal
    Cancels,        \* slots of concurrent CancelWithdrawalAsync calls
    Admins,         \* slots of concurrent ProcessWithdrawalAsync calls
    NoWithdrawal,   \* the withdrawal of an idle slot
    WithdrawalFee,
    DailyWithdrawalLimit,
    MaxFaults,      \* bound: database calls that throw
    MaxCrashes      \* bound: deaths of the service process

ASSUME WithdrawalAssumption ==
    /\ IsFiniteSet(Withdrawals)
    /\ Owner \in [Withdrawals -> Users]
    /\ Amount \in [Withdrawals -> Nat]
    /\ Opening \in [Users -> Nat]
    /\ Cancels \cap Admins = {}
    /\ NoWithdrawal \notin Withdrawals
    /\ WithdrawalFee \in Nat /\ DailyWithdrawalLimit \in Nat
    /\ MaxFaults \in Nat /\ MaxCrashes \in Nat

VARIABLES
    status,     \* Withdrawal.Status, "None" before the insert
    balance,    \* UserWallet.Balance
    create,     \* where the creating call of each id stands
    job,        \* the handler each cancel or admin slot runs
    returned,   \* history: refunds credited for each withdrawal, by handler
    faults,
    crashes

vars == <<status, balance, create, job, returned, faults, crashes>>

Slots == Cancels \cup Admins

Statuses == {"Pending", "Processing", "Completed", "Rejected", "Cancelled"}

\* The statuses of MongoIndexFilters.ActiveWithdrawalByUserPartialFilter.
Active == {"Pending", "Processing"}

(***************************************************************************)
(* CreateWithdrawalAsync                                                   *)
(*   new, count, limit   about to read the balance, to count the active    *)
(*                withdrawals, to sum the withdrawals of the day           *)
(*   deduct       passed every check, about to debit                       *)
(*   insert       debited, about to insert the document                    *)
(*   refund       the insert failed, about to return the debit             *)
(* CancelWithdrawalAsync and ProcessWithdrawalAsync                        *)
(*   claim        read Pending, about to compare-and-set Cancelled         *)
(*   refund       about to credit                                          *)
(*   undo         the credit threw, about to restore Pending               *)
(*   approve, reject   about to write Completed or Rejected                *)
(***************************************************************************)
CreatePcs == {"new", "count", "limit", "deduct", "insert", "refund", "done"}

JobPcs == {"idle", "claim", "refund", "undo", "approve", "reject"}

Idle == [pc |-> "idle", w |-> NoWithdrawal]

TypeOK ==
    /\ status \in [Withdrawals -> Statuses \cup {"None"}]
    /\ balance \in [Users -> Int]
    /\ create \in [Withdrawals -> CreatePcs]
    /\ job \in [Slots -> [pc : JobPcs, w : Withdrawals \cup {NoWithdrawal}]]
    /\ returned \in [Withdrawals -> [create : Nat, cancel : Nat, reject : Nat]]
    /\ faults \in Nat /\ crashes \in Nat

Init ==
    /\ status = [w \in Withdrawals |-> "None"]
    /\ balance = Opening
    /\ create = [w \in Withdrawals |-> "new"]
    /\ job = [s \in Slots |-> Idle]
    /\ returned = [w \in Withdrawals |-> [create |-> 0, cancel |-> 0, reject |-> 0]]
    /\ faults = 0
    /\ crashes = 0

-----------------------------------------------------------------------------

Fault == faults < MaxFaults /\ faults' = faults + 1

\* Amount and fee leave and come back together.
Total(w) == Amount[w] + WithdrawalFee

Credit(w) == balance' = [balance EXCEPT ![Owner[w]] = @ + Total(w)]

ActiveOf(u) == {w \in Withdrawals : Owner[w] = u /\ status[w] \in Active}

\* The partial unique index userId_active_withdrawal_unique lets w be active.
MayBeActive(w) == ActiveOf(Owner[w]) \ {w} = {}

\* What the user's withdrawals of the day amount to; one day is modelled.
DayTotal(u) ==
    SumFunctionOnSet(Amount,
                     {w \in Withdrawals : /\ Owner[w] = u
                                          /\ status[w] \in {"Pending", "Processing", "Completed"}})

SetStatus(w, st) == status' = [status EXCEPT ![w] = st]

Goto(s, p) == job' = [job EXCEPT ![s] = [pc |-> p, w |-> @.w]]

Finish(s) == job' = [job EXCEPT ![s] = Idle]

-----------------------------------------------------------------------------
(* CreateWithdrawalAsync.                                                  *)

\* The three checks read in advance what later steps depend on.
CheckBalance(w) ==
    /\ create[w] = "new"
    /\ create' = [create EXCEPT ![w] =
          IF balance[Owner[w]] >= Total(w) THEN "count" ELSE "done"]
    /\ UNCHANGED <<status, balance, job, returned, faults, crashes>>

CheckActive(w) ==
    /\ create[w] = "count"
    /\ create' = [create EXCEPT ![w] = IF ActiveOf(Owner[w]) = {} THEN "limit" ELSE "done"]
    /\ UNCHANGED <<status, balance, job, returned, faults, crashes>>

CheckDailyLimit(w) ==
    /\ create[w] = "limit"
    /\ create' = [create EXCEPT ![w] =
          IF DayTotal(Owner[w]) + Amount[w] <= DailyWithdrawalLimit
          THEN "deduct" ELSE "done"]
    /\ UNCHANGED <<status, balance, job, returned, faults, crashes>>

\* DeductBalanceAsync refuses when the balance has shrunk meanwhile, and may
\* throw without effect.
Deduct(w) ==
    /\ create[w] = "deduct"
    /\ \/ /\ balance[Owner[w]] >= Total(w)
          /\ balance' = [balance EXCEPT ![Owner[w]] = @ - Total(w)]
          /\ create' = [create EXCEPT ![w] = "insert"]
          /\ UNCHANGED faults
       \/ /\ \/ balance[Owner[w]] < Total(w) /\ UNCHANGED faults
             \/ Fault
          /\ create' = [create EXCEPT ![w] = "done"]
          /\ UNCHANGED balance
    /\ UNCHANGED <<status, job, returned, crashes>>

\* Mutant: there is no unique index on active withdrawals.
InsertUnindexed(w) ==
    /\ create[w] = "insert"
    /\ SetStatus(w, "Pending")
    /\ create' = [create EXCEPT ![w] = "done"]
    /\ UNCHANGED <<balance, job, returned, faults, crashes>>

\* The insert, refused by the index or failed, leads to the same refund.
InsertWithdrawal(w) ==
    /\ create[w] = "insert"
    /\ \/ /\ MayBeActive(w)
          /\ SetStatus(w, "Pending")
          /\ create' = [create EXCEPT ![w] = "done"]
          /\ UNCHANGED faults
       \/ /\ \/ ~MayBeActive(w) /\ UNCHANGED faults
             \/ Fault
          /\ create' = [create EXCEPT ![w] = "refund"]
          /\ UNCHANGED status
    /\ UNCHANGED <<balance, job, returned, crashes>>

\* Mutant: the duplicate request is answered without a refund.
ForgetRefund(w) ==
    /\ create[w] = "refund"
    /\ create' = [create EXCEPT ![w] = "done"]
    /\ UNCHANGED <<status, balance, job, returned, faults, crashes>>

\* A refund that throws is logged as critical and given up.
RefundCreate(w) ==
    /\ create[w] = "refund"
    /\ \/ /\ Credit(w)
          /\ returned' = [returned EXCEPT ![w].create = @ + 1]
          /\ UNCHANGED faults
       \/ Fault /\ UNCHANGED <<balance, returned>>
    /\ create' = [create EXCEPT ![w] = "done"]
    /\ UNCHANGED <<status, job, crashes>>

-----------------------------------------------------------------------------
(* CancelWithdrawalAsync.                                                  *)

BeginCancel(s, w) ==
    /\ s \in Cancels /\ job[s] = Idle
    /\ status[w] = "Pending"
    /\ job' = [job EXCEPT ![s] = [pc |-> "claim", w |-> w]]
    /\ UNCHANGED <<status, balance, create, returned, faults, crashes>>

\* Mutant: the status is written without a filter.
ClaimCancelBlind(s) ==
    /\ s \in Cancels /\ job[s].pc = "claim"
    /\ SetStatus(job[s].w, "Cancelled")
    /\ Goto(s, "refund")
    /\ UNCHANGED <<balance, create, returned, faults, crashes>>

\* UpdateOneAsync filtered on Pending.
ClaimCancel(s) ==
    /\ s \in Cancels /\ job[s].pc = "claim"
    /\ IF status[job[s].w] = "Pending"
       THEN SetStatus(job[s].w, "Cancelled") /\ Goto(s, "refund")
       ELSE Finish(s) /\ UNCHANGED status
    /\ UNCHANGED <<balance, create, returned, faults, crashes>>

RefundCancel(s) ==
    /\ s \in Cancels /\ job[s].pc = "refund"
    /\ \/ /\ Credit(job[s].w)
          /\ returned' = [returned EXCEPT ![job[s].w].cancel = @ + 1]
          /\ Finish(s) /\ UNCHANGED faults
       \/ /\ Fault /\ Goto(s, "undo")
          /\ UNCHANGED <<balance, returned>>
    /\ UNCHANGED <<status, create, crashes>>

\* Back to Pending if still Cancelled; the index may refuse, or the write
\* throw, and that is logged only.
UndoCancel(s) ==
    /\ s \in Cancels /\ job[s].pc = "undo"
    /\ \/ /\ IF status[job[s].w] = "Cancelled" /\ MayBeActive(job[s].w)
             THEN SetStatus(job[s].w, "Pending")
             ELSE UNCHANGED status
          /\ UNCHANGED faults
       \/ Fault /\ UNCHANGED status
    /\ Finish(s)
    /\ UNCHANGED <<balance, create, returned, crashes>>

-----------------------------------------------------------------------------
(* ProcessWithdrawalAsync.                                                 *)

BeginApprove(s, w) ==
    /\ s \in Admins /\ job[s] = Idle
    /\ status[w] \in Active
    /\ job' = [job EXCEPT ![s] = [pc |-> "approve", w |-> w]]
    /\ UNCHANGED <<status, balance, create, returned, faults, crashes>>

BeginReject(s, w) ==
    /\ s \in Admins /\ job[s] = Idle
    /\ status[w] \in Active
    /\ job' = [job EXCEPT ![s] = [pc |-> "refund", w |-> w]]
    /\ UNCHANGED <<status, balance, create, returned, faults, crashes>>

\* The status is written whatever it is by now.
Approve(s) ==
    /\ s \in Admins /\ job[s].pc = "approve"
    /\ SetStatus(job[s].w, "Completed")
    /\ Finish(s)
    /\ UNCHANGED <<balance, create, returned, faults, crashes>>

\* The refund comes before the status write.
RefundReject(s) ==
    /\ s \in Admins /\ job[s].pc = "refund"
    /\ Credit(job[s].w)
    /\ returned' = [returned EXCEPT ![job[s].w].reject = @ + 1]
    /\ Goto(s, "reject")
    /\ UNCHANGED <<status, create, faults, crashes>>

Reject(s) ==
    /\ s \in Admins /\ job[s].pc = "reject"
    /\ SetStatus(job[s].w, "Rejected")
    /\ Finish(s)
    /\ UNCHANGED <<balance, create, returned, faults, crashes>>

-----------------------------------------------------------------------------

\* A call outside any try block throws without effect: the handler ends.
CallThrows(s) ==
    /\ \/ s \in Cancels /\ job[s].pc = "claim"
       \/ s \in Admins /\ job[s].pc \in {"approve", "refund", "reject"}
    /\ Fault
    /\ Finish(s)
    /\ UNCHANGED <<status, balance, create, returned, crashes>>

Crash ==
    /\ crashes < MaxCrashes
    /\ crashes' = crashes + 1
    /\ create' = [w \in Withdrawals |-> IF create[w] = "new" THEN "new" ELSE "done"]
    /\ job' = [s \in Slots |-> Idle]
    /\ UNCHANGED <<status, balance, returned, faults>>

CreateStep(w) ==
    \/ CheckBalance(w) \/ CheckActive(w) \/ CheckDailyLimit(w) \/ Deduct(w)
    \/ InsertWithdrawal(w) \/ RefundCreate(w)

CancelStep(s) ==
    \/ ClaimCancel(s) \/ RefundCancel(s) \/ UndoCancel(s)

AdminStep(s) ==
    \/ Approve(s) \/ RefundReject(s) \/ Reject(s)

Begin(s, w) == BeginCancel(s, w) \/ BeginApprove(s, w) \/ BeginReject(s, w)

Next ==
    \/ \E w \in Withdrawals : CreateStep(w)
    \/ \E s \in Slots, w \in Withdrawals : Begin(s, w)
    \/ \E s \in Slots : CancelStep(s) \/ AdminStep(s) \/ CallThrows(s)
    \/ Crash

Spec == Init /\ [][Next]_vars

-----------------------------------------------------------------------------
(* Properties.                                                             *)

Refunds(w) == returned[w].create + returned[w].cancel + returned[w].reject

\* "One active withdrawal per user": the partial unique index holds through
\* inserts and through the rollback of CancelWithdrawalAsync.
OneActive ==
    \A v, w \in Withdrawals :
        v # w /\ Owner[v] = Owner[w] => ~(status[v] \in Active /\ status[w] \in Active)

\* CancelWithdrawalAsync, with its compare-and-set and its rollback, refunds a
\* withdrawal once, and CreateWithdrawalAsync refunds only what never became a
\* withdrawal: the two never return the same debit twice.
UserRefundsOnce ==
    \A w \in Withdrawals : returned[w].create + returned[w].cancel <= 1

\* No debit is made that the wallet cannot cover, though the balance was
\* checked several awaits earlier.
NeverOverdrawn == \A u \in Users : balance[u] >= 0

\* What the withdrawal holds of its owner's money: the debit, while it has
\* been taken and not given back.
Held(w) ==
    IF Refunds(w) = 0 /\ (status[w] # "None" \/ create[w] \in {"insert", "refund"})
    THEN Total(w) ELSE 0

Outstanding(u) ==
    SumFunctionOnSet([w \in Withdrawals |-> IF Owner[w] = u THEN Held(w) ELSE 0], Withdrawals)

\* Unless ProcessWithdrawalAsync refunds what another handler refunds as well,
\* a wallet and the withdrawals of its user never hold more than the user
\* brought, whatever fails and whenever the process dies; and while nothing
\* fails the books balance at every step.
BooksBalance ==
    (\A w \in Withdrawals : Refunds(w) <= 1) =>
        \A u \in Users :
            /\ balance[u] + Outstanding(u) <= Opening[u]
            /\ faults = 0 /\ crashes = 0 => balance[u] + Outstanding(u) = Opening[u]

=============================================================================
