-------------------------- MODULE WithdrawalProofs --------------------------
(***************************************************************************)
(* The invariants of WithdrawalService that hold under every interleaving  *)
(* of users and administrators, for any withdrawals, amounts, faults and   *)
(* crashes; and of the idempotency keys SecureWithdrawalService wraps its  *)
(* requests in: mutual exclusion of the requests of one key, and that a    *)
(* client which waits for its answers runs its operation once.             *)
(***************************************************************************)
EXTENDS Withdrawal, Idempotency, Sums, TLAPS

-----------------------------------------------------------------------------
(* The inductive invariant behind OneActive, UserRefundsOnce and           *)
(* NeverOverdrawn.                                                         *)

\* The cancelling handler that has claimed w and not yet refunded it.
Claims(s, w) == s \in Cancels /\ job[s].w = w /\ job[s].pc \in {"refund", "undo"}

\* A document exists only after its creating call is over.
NotYetThere ==
    \A w \in Withdrawals :
        /\ create[w] # "done" => status[w] = "None" /\ returned[w].create = 0
        /\ status[w] # "None" => returned[w].create = 0
        /\ status[w] = "None" => returned[w].cancel = 0

\* Handlers work on documents that exist.
OnExisting ==
    \A s \in Slots :
        job[s].pc # "idle" => job[s].w \in Withdrawals /\ status[job[s].w] # "None"

\* At most one handler has claimed w; w is then not Pending, nor refunded yet.
OneClaim(w) ==
    /\ \A s, t \in Cancels : Claims(s, w) /\ Claims(t, w) => s = t
    /\ \A s \in Cancels : Claims(s, w) => status[w] # "Pending" /\ returned[w].cancel = 0
    /\ returned[w].cancel > 0 => status[w] # "Pending"
    /\ returned[w].cancel <= 1 /\ returned[w].create <= 1

ClaimedOnce == \A w \in Withdrawals : OneClaim(w)

IInv ==
    /\ TypeOK
    /\ OneActive
    /\ NeverOverdrawn
    /\ NotYetThere
    /\ OnExisting
    /\ ClaimedOnce

\* What BooksBalance needs beside it: only documents are rejected.
RejectsExist == \A w \in Withdrawals : status[w] = "None" => returned[w].reject = 0

-----------------------------------------------------------------------------
(* The inductive invariants of Idempotency, behind MutualExclusion and     *)
(* SerialRetriesRunOnce.                                                   *)

\* A request that works under a lock nobody has lost is the lock's holder.
HolderWorks ==
    \A r \in Requests : Working(r) /\ Key[r] \notin lost => lock[Key[r]] = r

\* What is about to be stored is a result.
RanBeforeStore ==
    \A r \in Requests : pc[r] \in {"store", "confirm"} => outcome[r] \in {"ok", "refused"}

LockInv == IdempotencyTypeOK /\ RanBeforeStore /\ HolderWorks

\* Without faults and without overlapping requests, an execution is either still to
\* be stored by the only request in flight or stored.
SerialRunIsStored ==
    thrown = 0 /\ deaths = 0 =>
        /\ \A r, s \in Requests :
               Key[r] = Key[s] /\ Key[r] \notin overlapped /\ UnderWay(r) /\ UnderWay(s) => r = s
        /\ \A r \in {q \in Requests : Key[q] \notin overlapped} :
               /\ pc[r] = "release" => outcome[r] = "threw"
               /\ outcome[r] \in {"ok", "refused"} =>
                     \/ pc[r] = "store"
                     \/ /\ pc[r] \in {"confirm", "done"}
                        /\ result[Key[r]] # NoResult \/ Key[r] \in staleResults
               /\ pc[r] \in {"lock", "run", "store"} /\ Key[r] \notin staleResults =>
                     result[Key[r]] = NoResult

SerialInv == IdempotencyTypeOK /\ RanBeforeStore /\ SerialRunIsStored /\ SerialRetriesRunOnce

-----------------------------------------------------------------------------
\* Amount and fee together are a natural number.
LEMMA TotalNat == \A w \in Withdrawals : Total(w) \in Nat
BY WithdrawalAssumption DEF Total

JobType == [Slots -> [pc : JobPcs, w : Withdrawals \cup {NoWithdrawal}]]

\* A handler that goes on stays on its withdrawal.
LEMMA Moved ==
  ASSUME TypeOK, NEW s \in Slots, NEW p \in JobPcs, Goto(s, p)
  PROVE  /\ job' \in JobType
         /\ job'[s].pc = p /\ job'[s].w = job[s].w
         /\ \A t \in Slots : t # s => job'[t] = job[t]
<1>1. [pc |-> p, w |-> job[s].w] \in [pc : JobPcs, w : Withdrawals \cup {NoWithdrawal}]
  BY DEF TypeOK
<1> QED
  BY <1>1 DEF TypeOK, Goto, JobType

\* A handler that ends leaves an idle slot.
LEMMA Freed ==
  ASSUME TypeOK, NEW s \in Slots, Finish(s)
  PROVE  /\ job' \in JobType
         /\ job'[s].pc = "idle"
         /\ \A t \in Slots : t # s => job'[t] = job[t]
<1>1. Idle \in [pc : JobPcs, w : Withdrawals \cup {NoWithdrawal}]
  BY DEF Idle, JobPcs
<1> QED
  BY <1>1 DEF TypeOK, Finish, JobType, Idle

\* One refund more, of any kind, keeps the counts of refunds their type.
LEMMA CountOneMore ==
  ASSUME NEW v \in Withdrawals,
         returned \in [Withdrawals -> [create : Nat, cancel : Nat, reject : Nat]],
         \/ returned' = [returned EXCEPT ![v].create = @ + 1]
         \/ returned' = [returned EXCEPT ![v].cancel = @ + 1]
         \/ returned' = [returned EXCEPT ![v].reject = @ + 1]
  PROVE  /\ returned' \in [Withdrawals -> [create : Nat, cancel : Nat, reject : Nat]]
         /\ \A w \in Withdrawals \ {v} : returned'[w] = returned[w]
         /\ \/ returned'[v] = [returned[v] EXCEPT !.create = @ + 1]
            \/ returned'[v] = [returned[v] EXCEPT !.cancel = @ + 1]
            \/ returned'[v] = [returned[v] EXCEPT !.reject = @ + 1]
OBVIOUS

\* The initial state of the withdrawals collection satisfies the invariant.
LEMMA Initial == Init => IInv
<1> SUFFICES ASSUME Init PROVE IInv
  OBVIOUS
<1> USE WithdrawalAssumption DEF Init
<1>1. TypeOK
  BY DEF TypeOK, Idle, Slots, Statuses, CreatePcs, JobPcs
<1>2. OneActive /\ NeverOverdrawn /\ NotYetThere
  BY DEF OneActive, NeverOverdrawn, NotYetThere, Active
<1>3. OnExisting /\ ClaimedOnce
  BY DEF OnExisting, ClaimedOnce, OneClaim, Claims, Idle, Slots
<1> QED
  BY <1>1, <1>2, <1>3 DEF IInv

\* The three checks of CreateWithdrawalAsync read, and change only the position
\* of the call.
LEMMA ChecksKept ==
  ASSUME IInv, NEW w \in Withdrawals, CheckBalance(w) \/ CheckActive(w) \/ CheckDailyLimit(w)
  PROVE  IInv'
<1>1. /\ UNCHANGED <<status, balance, job, returned, faults, crashes>>
      /\ create[w] # "done"
      /\ \E p \in {"count", "limit", "deduct", "done"} : create' = [create EXCEPT ![w] = p]
  BY DEF CheckBalance, CheckActive, CheckDailyLimit
<1>2. TypeOK'
  BY <1>1 DEF IInv, TypeOK, CreatePcs
<1>3. OneActive' /\ NeverOverdrawn' /\ OnExisting'
  BY <1>1 DEF IInv, OneActive, NeverOverdrawn, OnExisting
<1>4. NotYetThere'
  BY <1>1 DEF IInv, TypeOK, NotYetThere
<1>5. ClaimedOnce'
  BY <1>1 DEF IInv, ClaimedOnce, OneClaim, Claims
<1> QED
  BY <1>2, <1>3, <1>4, <1>5 DEF IInv

\* The debit tests the balance it changes, so no balance becomes negative.
LEMMA DeductKept == ASSUME IInv, NEW w \in Withdrawals, Deduct(w) PROVE IInv'
<1> USE WithdrawalAssumption DEF IInv, TypeOK, Deduct, Fault
<1>1. TypeOK'
  BY TotalNat DEF Statuses, CreatePcs, JobPcs, Slots, Idle
<1>2. OneActive'
  BY DEF OneActive, Active
<1>3. NeverOverdrawn'
  BY TotalNat DEF NeverOverdrawn
<1>4. NotYetThere'
  BY DEF NotYetThere
<1>5. OnExisting'
  BY DEF OnExisting, Active, Slots, Idle
<1>6. ClaimedOnce'
  BY DEF ClaimedOnce, OneClaim, Claims, OnExisting, NotYetThere, Slots, Idle
<1> QED
  BY <1>1, <1>2, <1>3, <1>4, <1>5, <1>6

\* The unique index lets the new document be the only active one of its owner.
LEMMA InsertWithdrawalKept == ASSUME IInv, NEW w \in Withdrawals, InsertWithdrawal(w) PROVE IInv'
<1> USE WithdrawalAssumption DEF IInv, TypeOK, InsertWithdrawal, SetStatus, Fault
<1>1. TypeOK'
  <2>1. status' \in [Withdrawals -> Statuses \cup {"None"}]
    BY DEF Statuses
  <2>2. create' \in [Withdrawals -> CreatePcs] /\ faults' \in Nat
    BY SMTT(30) DEF CreatePcs
  <2> QED
    BY <2>1, <2>2
<1>2. OneActive'
  BY DEF OneActive, Active, MayBeActive, ActiveOf
<1>3. NeverOverdrawn'
  BY DEF NeverOverdrawn
<1>4. NotYetThere'
  BY DEF NotYetThere
<1>5. OnExisting'
  BY DEF OnExisting, Active, Slots, Idle
<1>6. ClaimedOnce'
  BY DEF ClaimedOnce, OneClaim, Claims, OnExisting, NotYetThere, Slots, Idle
<1> QED
  BY <1>1, <1>2, <1>3, <1>4, <1>5, <1>6

\* The refund of a failed insert happens once: the call is over, and no document exists.
LEMMA RefundCreateKept == ASSUME IInv, NEW w \in Withdrawals, RefundCreate(w) PROVE IInv'
<1> USE WithdrawalAssumption DEF IInv, TypeOK, RefundCreate, Credit, Fault
<1>1. TypeOK'
  <2>1. balance' \in [Users -> Int]
    BY TotalNat
  <2>2. returned' \in [Withdrawals -> [create : Nat, cancel : Nat, reject : Nat]]
    OBVIOUS
  <2>3. create' \in [Withdrawals -> CreatePcs] /\ faults' \in Nat
    BY DEF CreatePcs
  <2> QED
    BY <2>1, <2>2, <2>3
<1>2. OneActive'
  BY DEF OneActive, Active
<1>3. NeverOverdrawn'
  BY TotalNat DEF NeverOverdrawn
<1>4. NotYetThere'
  BY DEF NotYetThere
<1>5. OnExisting'
  BY DEF OnExisting, Active, Slots, Idle
<1>6. ClaimedOnce'
  BY DEF ClaimedOnce, OneClaim, Claims, OnExisting, NotYetThere, Slots, Idle
<1> QED
  BY <1>1, <1>2, <1>3, <1>4, <1>5, <1>6

\* Only one cancellation finds the status Pending, and it becomes the one claim.
LEMMA ClaimCancelKept == ASSUME IInv, NEW s \in Slots, ClaimCancel(s) PROVE IInv'
<1> DEFINE v == job[s].w
<1> USE WithdrawalAssumption DEF IInv, TypeOK
<1>0. v \in Withdrawals /\ status[v] # "None"
  BY DEF OnExisting, ClaimCancel
<1>1. /\ job' \in JobType
      /\ \A t \in Slots : t # s => job'[t] = job[t]
      /\ \/ status[v] = "Pending" /\ job'[s].pc = "refund" /\ job'[s].w = v
         \/ status[v] # "Pending" /\ job'[s].pc = "idle"
  BY Moved, Freed DEF ClaimCancel, JobPcs
<1>2. /\ UNCHANGED <<balance, create, returned, faults, crashes>>
      /\ \/ status[v] = "Pending" /\ status' = [status EXCEPT ![v] = "Cancelled"]
         \/ status[v] # "Pending" /\ status' = status
  BY DEF ClaimCancel, SetStatus
<1> HIDE DEF v
<1>3. TypeOK'
  BY <1>0, <1>1, <1>2 DEF Statuses, JobType
<1>4. OneActive' /\ NeverOverdrawn'
  BY <1>0, <1>2 DEF OneActive, Active, NeverOverdrawn
<1>5. NotYetThere'
  BY <1>0, <1>2 DEF NotYetThere
<1>6. OnExisting'
  BY <1>0, <1>1, <1>2 DEF OnExisting
<1>7. ClaimedOnce'
  <2> SUFFICES ASSUME NEW w \in Withdrawals PROVE OneClaim(w)'
    BY DEF ClaimedOnce
  <2>1. OneClaim(w)
    BY DEF ClaimedOnce
  <2>2. \A t \in Cancels :
            Claims(t, w)' => Claims(t, w) \/ (t = s /\ w = v /\ status[v] = "Pending")
    <3> SUFFICES ASSUME NEW t \in Cancels, Claims(t, w)'
                 PROVE  Claims(t, w) \/ (t = s /\ w = v /\ status[v] = "Pending")
      OBVIOUS
    <3>1. CASE t = s
      BY <1>1, <3>1 DEF Claims
    <3>2. CASE t # s
      BY <1>1, <3>2 DEF Claims, Slots
    <3> QED
      BY <3>1, <3>2
  <2> QED
    BY <1>0, <1>2, <2>1, <2>2 DEF OneClaim
<1> QED
  BY <1>3, <1>4, <1>5, <1>6, <1>7

\* The claim of CancelWithdrawalAsync is spent by the one refund.
LEMMA RefundCancelKept == ASSUME IInv, NEW s \in Slots, RefundCancel(s) PROVE IInv'
<1> DEFINE v == job[s].w
           Refunded == returned' = [returned EXCEPT ![v].cancel = @ + 1]
<1> USE WithdrawalAssumption DEF IInv, TypeOK
<1>0. v \in Withdrawals /\ status[v] # "None" /\ Claims(s, v)
  BY DEF OnExisting, RefundCancel, Claims
<1>1. /\ job' \in JobType
      /\ \A t \in Slots : t # s => job'[t] = job[t]
      /\ \/ Refunded /\ job'[s].pc = "idle"
         \/ returned' = returned /\ job'[s].pc = "undo" /\ job'[s].w = v
  BY Moved, Freed DEF RefundCancel, JobPcs
<1>2. /\ UNCHANGED <<status, create, crashes>> /\ faults' \in Nat
      /\ balance' = balance \/ Credit(v)
  BY DEF RefundCancel, Fault
<1> HIDE DEF v
<1>3. TypeOK' /\ NeverOverdrawn'
  <2>1. balance' \in [Users -> Int] /\ NeverOverdrawn'
    BY <1>0, <1>2, TotalNat DEF Credit, NeverOverdrawn
  <2>2. returned' \in [Withdrawals -> [create : Nat, cancel : Nat, reject : Nat]]
    BY <1>0, <1>1
  <2> QED
    BY <1>1, <1>2, <2>1, <2>2 DEF JobType
<1>4. OneActive'
  BY <1>2 DEF OneActive
<1>5. NotYetThere'
  BY <1>0, <1>1, <1>2 DEF NotYetThere
<1>6. OnExisting'
  BY <1>0, <1>1, <1>2 DEF OnExisting
<1>7. ClaimedOnce'
  <2> SUFFICES ASSUME NEW w \in Withdrawals PROVE OneClaim(w)'
    BY DEF ClaimedOnce
  <2>1. OneClaim(w)
    BY DEF ClaimedOnce
  <2>2. \A t \in Cancels : Claims(t, w)' => Claims(t, w)
    BY <1>0, <1>1 DEF Claims, Slots
  <2>3. CASE w # v \/ returned' = returned
    <3>1. returned'[w] = returned[w]
      BY <1>0, <1>1, <2>3
    <3> QED
      BY <1>2, <2>1, <2>2, <3>1 DEF OneClaim
  <2>4. CASE w = v /\ Refunded /\ job'[s].pc = "idle"
    <3>1. returned'[w].cancel = 1 /\ returned'[w].create = returned[w].create
      BY <1>0, <2>1, <2>4 DEF OneClaim, Claims
    <3>2. \A t \in Cancels : ~Claims(t, w)'
      BY <1>0, <2>1, <2>2, <2>4 DEF OneClaim, Claims
    <3>3. status'[w] # "Pending"
      BY <1>0, <1>2, <2>1, <2>4 DEF OneClaim, Claims
    <3> QED
      BY <1>0, <2>1, <3>1, <3>2, <3>3 DEF OneClaim
  <2> QED
    BY <1>1, <2>3, <2>4
<1> QED
  BY <1>3, <1>4, <1>5, <1>6, <1>7

\* The rollback gives the claim back unspent, if the unique index allows.
LEMMA UndoCancelKept == ASSUME IInv, NEW s \in Slots, UndoCancel(s) PROVE IInv'
<1> USE WithdrawalAssumption DEF IInv, TypeOK, UndoCancel, SetStatus, Finish, Fault
<1>0. job[s].w \in Withdrawals /\ status[job[s].w] # "None"
  BY DEF OnExisting
<1>1. TypeOK'
  <2>1. status' \in [Withdrawals -> Statuses \cup {"None"}]
    BY <1>0 DEF Statuses
  <2>2. job' \in [Slots -> [pc : JobPcs, w : Withdrawals \cup {NoWithdrawal}]]
    BY DEF JobPcs, Slots, Idle
  <2>3. faults' \in Nat
    OBVIOUS
  <2> QED
    BY <2>1, <2>2, <2>3
<1>2. OneActive'
  BY <1>0 DEF OneActive, Active, MayBeActive, ActiveOf
<1>3. NeverOverdrawn'
  BY <1>0 DEF NeverOverdrawn
<1>4. NotYetThere'
  BY <1>0 DEF NotYetThere
<1>5. OnExisting'
  BY <1>0 DEF OnExisting, Active, Slots, Idle
<1>6. ClaimedOnce'
  BY <1>0 DEF ClaimedOnce, OneClaim, Claims, OnExisting, NotYetThere, Slots, Idle
<1> QED
  BY <1>1, <1>2, <1>3, <1>4, <1>5, <1>6

\* The approval may end an active withdrawal, never start one.
LEMMA ApproveKept == ASSUME IInv, NEW s \in Slots, Approve(s) PROVE IInv'
<1> USE WithdrawalAssumption DEF IInv, TypeOK, Approve, SetStatus, Finish
<1>0. job[s].w \in Withdrawals /\ status[job[s].w] # "None"
  BY DEF OnExisting
<1>1. TypeOK'
  BY <1>0 DEF Statuses, CreatePcs, JobPcs, Slots, Idle
<1>2. OneActive'
  BY <1>0 DEF OneActive, Active
<1>3. NeverOverdrawn'
  BY <1>0 DEF NeverOverdrawn
<1>4. NotYetThere'
  BY <1>0 DEF NotYetThere
<1>5. OnExisting'
  BY <1>0 DEF OnExisting, Active, Slots, Idle
<1>6. ClaimedOnce'
  BY <1>0 DEF ClaimedOnce, OneClaim, Claims, OnExisting, NotYetThere, Slots, Idle
<1> QED
  BY <1>1, <1>2, <1>3, <1>4, <1>5, <1>6

\* The refund of a rejection is counted apart and only adds to the balance.
LEMMA RefundRejectKept == ASSUME IInv, NEW s \in Slots, RefundReject(s) PROVE IInv'
<1> USE WithdrawalAssumption DEF IInv, TypeOK, RefundReject, Credit, Goto
<1>0. job[s].w \in Withdrawals /\ status[job[s].w] # "None"
  BY DEF OnExisting
<1>1. TypeOK'
  <2>0. Total(job[s].w) \in Nat /\ Owner[job[s].w] \in Users
    BY <1>0, TotalNat
  <2>1. balance' \in [Users -> Int]
    BY <2>0
  <2>2. returned' \in [Withdrawals -> [create : Nat, cancel : Nat, reject : Nat]]
    BY <1>0, CountOneMore
  <2>3. job' \in [Slots -> [pc : JobPcs, w : Withdrawals \cup {NoWithdrawal}]]
    BY <1>0 DEF JobPcs, Slots, Idle
  <2> QED
    BY <2>1, <2>2, <2>3
<1>2. OneActive'
  BY <1>0 DEF OneActive, Active
<1>3. NeverOverdrawn'
  BY <1>0, TotalNat DEF NeverOverdrawn
<1>4. NotYetThere'
  BY <1>0 DEF NotYetThere
<1>5. OnExisting'
  BY <1>0 DEF OnExisting, Active, Slots, Idle
<1>6. ClaimedOnce'
  BY <1>0 DEF ClaimedOnce, OneClaim, Claims, OnExisting, NotYetThere, Slots, Idle
<1> QED
  BY <1>1, <1>2, <1>3, <1>4, <1>5, <1>6

\* The rejection may end an active withdrawal, never start one.
LEMMA RejectKept == ASSUME IInv, NEW s \in Slots, Reject(s) PROVE IInv'
<1> USE WithdrawalAssumption DEF IInv, TypeOK, Reject, SetStatus, Finish
<1>0. job[s].w \in Withdrawals /\ status[job[s].w] # "None"
  BY DEF OnExisting
<1>1. TypeOK'
  BY <1>0 DEF Statuses, CreatePcs, JobPcs, Slots, Idle
<1>2. OneActive'
  BY <1>0 DEF OneActive, Active
<1>3. NeverOverdrawn'
  BY <1>0 DEF NeverOverdrawn
<1>4. NotYetThere'
  BY <1>0 DEF NotYetThere
<1>5. OnExisting'
  BY <1>0 DEF OnExisting, Active, Slots, Idle
<1>6. ClaimedOnce'
  BY <1>0 DEF ClaimedOnce, OneClaim, Claims, OnExisting, NotYetThere, Slots, Idle
<1> QED
  BY <1>1, <1>2, <1>3, <1>4, <1>5, <1>6

\* A call that throws ends its handler of WithdrawalService without any effect.
LEMMA CallThrowsKept == ASSUME IInv, NEW s \in Slots, CallThrows(s) PROVE IInv'
<1> USE WithdrawalAssumption DEF IInv, TypeOK, CallThrows, Fault, Finish
<1>1. TypeOK'
  BY DEF Statuses, CreatePcs, JobPcs, Slots, Idle
<1>2. OneActive'
  BY DEF OneActive, Active
<1>3. NeverOverdrawn'
  BY DEF NeverOverdrawn
<1>4. NotYetThere'
  BY DEF NotYetThere
<1>5. OnExisting'
  BY DEF OnExisting, Active, Slots, Idle
<1>6. ClaimedOnce'
  BY DEF ClaimedOnce, OneClaim, Claims, OnExisting, NotYetThere, Slots, Idle
<1> QED
  BY <1>1, <1>2, <1>3, <1>4, <1>5, <1>6

\* A handler starts on an active withdrawal and claims nothing yet: a
\* cancellation has still to write, the others are administrators'.
LEMMA BeginKept ==
  ASSUME IInv, NEW s \in Slots, NEW w \in Withdrawals, Begin(s, w)
  PROVE  IInv'
<1> USE WithdrawalAssumption DEF IInv, TypeOK
<1>1. /\ UNCHANGED <<status, balance, create, returned, faults, crashes>>
      /\ status[w] # "None"
      /\ \E p \in {"claim", "approve", "refund"} :
             job' = [job EXCEPT ![s] = [pc |-> p, w |-> w]] /\ (s \in Cancels => p = "claim")
  BY DEF Begin, BeginCancel, BeginApprove, BeginReject, Active
<1>2. TypeOK'
  BY <1>1 DEF JobPcs
<1>3. OneActive' /\ NeverOverdrawn' /\ NotYetThere'
  BY <1>1 DEF OneActive, NeverOverdrawn, NotYetThere
<1>4. OnExisting'
  BY <1>1 DEF OnExisting
<1>5. ClaimedOnce'
  <2>1. \A t \in Cancels, v \in Withdrawals : Claims(t, v)' => Claims(t, v)
    BY <1>1 DEF Claims, Slots
  <2> QED
    BY <1>1, <2>1 DEF ClaimedOnce, OneClaim
<1> QED
  BY <1>2, <1>3, <1>4, <1>5

\* A dead process of WithdrawalService leaves documents and wallets alone and
\* forgets its claims.
LEMMA CrashKept == ASSUME IInv, Crash PROVE IInv'
BY WithdrawalAssumption
   DEF IInv, TypeOK, OneActive, NeverOverdrawn, NotYetThere, OnExisting, ClaimedOnce, OneClaim, Claims,
       Crash, Idle, Slots, CreatePcs, JobPcs

\* The invariant of WithdrawalService holds in every reachable state.
THEOREM Invariance == Spec => []IInv
<1>1. IInv /\ [Next]_vars => IInv'
  <2> SUFFICES ASSUME IInv, [Next]_vars PROVE IInv'
    OBVIOUS
  <2>1. ASSUME NEW w \in Withdrawals, CreateStep(w) PROVE IInv'
    BY <2>1, ChecksKept, DeductKept, InsertWithdrawalKept, RefundCreateKept DEF CreateStep
  <2>2. ASSUME NEW s \in Slots, NEW w \in Withdrawals, Begin(s, w) PROVE IInv'
    BY <2>2, BeginKept
  <2>3. ASSUME NEW s \in Slots, CancelStep(s) PROVE IInv'
    BY <2>3, ClaimCancelKept, RefundCancelKept, UndoCancelKept DEF CancelStep
  <2>4. ASSUME NEW s \in Slots, AdminStep(s) PROVE IInv'
    BY <2>4, ApproveKept, RefundRejectKept, RejectKept DEF AdminStep
  <2>5. ASSUME NEW s \in Slots, CallThrows(s) PROVE IInv'
    BY <2>5, CallThrowsKept
  <2>6. CASE UNCHANGED vars
    BY <2>6 DEF vars, IInv, TypeOK, OneActive, NeverOverdrawn, NotYetThere, OnExisting,
                ClaimedOnce, OneClaim, Claims
  <2> QED
    BY <2>1, <2>2, <2>3, <2>4, <2>5, <2>6, CrashKept DEF Next
<1> QED
  BY Initial, <1>1, PTL DEF Spec

\* A user has at most one active withdrawal (OneActive), through the inserts of
\* CreateWithdrawalAsync and the rollbacks of CancelWithdrawalAsync.
THEOREM OneActiveAlways == Spec => []OneActive
<1>1. IInv => OneActive
  BY DEF IInv
<1> QED
  BY Invariance, <1>1, PTL

\* No withdrawal overdraws its wallet (NeverOverdrawn), however stale the
\* balance CreateWithdrawalAsync checked.
THEOREM NoOverdraft == Spec => []NeverOverdrawn
<1>1. IInv => NeverOverdrawn
  BY DEF IInv
<1> QED
  BY Invariance, <1>1, PTL

\* The refunds of CreateWithdrawalAsync and CancelWithdrawalAsync return a debit
\* at most once (UserRefundsOnce), whatever administrators do meanwhile.
THEOREM CancelRefundsOnce == Spec => []UserRefundsOnce
<1>1. IInv => UserRefundsOnce
  BY DEF IInv, TypeOK, NotYetThere, ClaimedOnce, OneClaim, UserRefundsOnce
<1> QED
  BY Invariance, <1>1, PTL

-----------------------------------------------------------------------------
(* The books.                                                              *)

\* The effect of a step on the money: none; an amount d between a wallet and a
\* withdrawal of its owner; or, after a failure, a debit nobody holds any more.
Still == balance' = balance /\ \A w \in Withdrawals : Held(w)' = Held(w)

Exchanges(w, d) ==
    /\ balance' = [balance EXCEPT ![Owner[w]] = @ + d]
    /\ Held(w)' = Held(w) - d
    /\ \A v \in Withdrawals \ {w} : Held(v)' = Held(v)

Loses ==
    /\ balance' = balance
    /\ \A w \in Withdrawals : Held(w)' <= Held(w)
    /\ faults' > 0 \/ crashes' > 0

MoneyStep == Still \/ Loses \/ \E w \in Withdrawals, d \in Int : Exchanges(w, d)

Counted(w) == returned[w].create \in Nat /\ returned[w].cancel \in Nat /\ returned[w].reject \in Nat

\* Refunds are counted, and what a withdrawal holds is a natural number.
LEMMA HeldNat ==
  ASSUME IInv
  PROVE  \A w \in Withdrawals : /\ Held(w) \in Nat /\ Total(w) \in Nat
                                /\ Refunds(w) \in Nat /\ Counted(w)
BY TotalNat DEF Held, Refunds, Counted, IInv, TypeOK

\* Only RefundReject counts a rejection, and only of a document.
LEMMA RejectsExistKept == ASSUME IInv, RejectsExist, [Next]_vars PROVE RejectsExist'
<1> USE DEF RejectsExist
<1>1. ASSUME NEW w \in Withdrawals, CreateStep(w) PROVE RejectsExist'
  <2>1. CASE RefundCreate(w)
    BY <2>1 DEF RefundCreate, IInv, TypeOK
  <2> QED
    BY <1>1, <2>1 DEF CreateStep, CheckBalance, CheckActive, CheckDailyLimit, Deduct,
                      InsertWithdrawal, SetStatus, IInv, TypeOK
<1>2. ASSUME NEW s \in Slots, CancelStep(s) \/ AdminStep(s) PROVE RejectsExist'
  <2>1. job[s].w \in Withdrawals /\ status[job[s].w] # "None"
    BY <1>2 DEF IInv, OnExisting, CancelStep, AdminStep, ClaimCancel, RefundCancel, UndoCancel,
                Approve, RefundReject, Reject
  <2>2. CASE RefundCancel(s) \/ RefundReject(s)
    BY <2>1, <2>2 DEF RefundCancel, RefundReject, IInv, TypeOK
  <2> QED
    BY <1>2, <2>1, <2>2 DEF CancelStep, AdminStep, ClaimCancel, UndoCancel, Approve, Reject,
                            SetStatus, IInv, TypeOK
<1> QED
  BY <1>1, <1>2 DEF Next, Begin, BeginCancel, BeginApprove, BeginReject, CallThrows, Crash, vars

\* The creating call: the debit moves money into the withdrawal, the refund of
\* a failed insert moves it back, and a failed refund loses it.
LEMMA CreateMoney ==
  ASSUME IInv, RejectsExist, NEW w \in Withdrawals, CreateStep(w)
  PROVE  MoneyStep
<1>1. /\ \A v \in Withdrawals : Held(v) \in Nat /\ Total(v) \in Nat /\ Refunds(v) \in Nat /\ Counted(v)
      /\ create[w] # "done" => status[w] = "None" /\ Refunds(w) = 0
  BY HeldNat DEF IInv, NotYetThere, RejectsExist, Refunds, Counted
<1>2. CASE CheckBalance(w) \/ CheckActive(w) \/ CheckDailyLimit(w)
  <2>1. Still
    BY <1>1, <1>2 DEF CheckBalance, CheckActive, CheckDailyLimit, Still, Held, Refunds, IInv, TypeOK
  <2> QED
    BY <2>1 DEF MoneyStep
<1>3. CASE Deduct(w)
  <2>1. CASE create' = [create EXCEPT ![w] = "done"]
    <3>1. Still
      BY <1>1, <1>3, <2>1 DEF Deduct, Still, Held, Refunds, IInv, TypeOK
    <3> QED
      BY <3>1 DEF MoneyStep
  <2>2. CASE balance' = [balance EXCEPT ![Owner[w]] = @ - Total(w)]
             /\ create' = [create EXCEPT ![w] = "insert"]
    <3>1. Exchanges(w, 0 - Total(w))
      <4>1. balance' = [balance EXCEPT ![Owner[w]] = @ + (0 - Total(w))]
        <5>1. balance[Owner[w]] - Total(w) = balance[Owner[w]] + (0 - Total(w))
          BY <1>1, WithdrawalAssumption DEF IInv, TypeOK
        <5> QED
          BY <2>2, <5>1
      <4>2. Held(w) = 0 /\ Held(w)' = Total(w)
        BY <1>1, <1>3, <2>2 DEF Deduct, Held, Refunds, IInv, TypeOK, Total
      <4>3. \A v \in Withdrawals \ {w} : Held(v)' = Held(v)
        BY <1>3, <2>2 DEF Deduct, Held, Refunds, Total, IInv, TypeOK
      <4> QED
        BY <1>1, <4>1, <4>2, <4>3 DEF Exchanges
    <3>2. 0 - Total(w) \in Int
      BY <1>1
    <3> QED
      BY <3>1, <3>2 DEF MoneyStep
  <2> QED
    BY <1>3, <2>1, <2>2 DEF Deduct
<1>4. CASE InsertWithdrawal(w)
  <2>1. Still
    BY <1>1, <1>4 DEF InsertWithdrawal, SetStatus, Still, Held, Refunds, Total, IInv, TypeOK
  <2> QED
    BY <2>1 DEF MoneyStep
<1>5. CASE RefundCreate(w)
  <2>1. CASE Credit(w) /\ returned' = [returned EXCEPT ![w].create = @ + 1]
    <3>1. Held(w) = Total(w)
      BY <1>1, <1>5 DEF RefundCreate, Held
    <3>2. Refunds(w)' = 1
      <4>1. /\ returned'[w].create = returned[w].create + 1
            /\ returned'[w].cancel = returned[w].cancel
            /\ returned'[w].reject = returned[w].reject
        BY <2>1 DEF IInv, TypeOK
      <4> QED
        BY <1>1, <1>5, <4>1 DEF RefundCreate, Refunds, Counted
    <3>3. Held(w)' = 0
      BY <3>2 DEF Held
    <3>4. \A v \in Withdrawals \ {w} : Held(v)' = Held(v)
      BY <1>5, <2>1 DEF RefundCreate, Held, Refunds, Total, IInv, TypeOK
    <3>5. Exchanges(w, Total(w))
      BY <1>1, <2>1, <3>1, <3>3, <3>4 DEF Exchanges, Credit
    <3> QED
      BY <1>1, <3>5 DEF MoneyStep
  <2>2. CASE Fault /\ UNCHANGED <<balance, returned>>
    <3>1. \A v \in Withdrawals : Held(v)' <= Held(v)
      BY <1>1, <1>5, <2>2 DEF RefundCreate, Held, Refunds, Total, IInv, TypeOK
    <3>2. faults' > 0
      BY <2>2 DEF Fault, IInv, TypeOK
    <3> QED
      BY <2>2, <3>1, <3>2 DEF Loses, MoneyStep
  <2> QED
    BY <1>5, <2>1, <2>2 DEF RefundCreate
<1> QED
  BY <1>2, <1>3, <1>4, <1>5 DEF CreateStep

\* The first refund of a document gives back what it holds.
LEMMA RefundMoney ==
  ASSUME IInv, NEW w \in Withdrawals, status[w] # "None", Credit(w), UNCHANGED <<status, create>>,
         \/ returned' = [returned EXCEPT ![w].cancel = @ + 1]
         \/ returned' = [returned EXCEPT ![w].reject = @ + 1],
         Refunds(w)' <= 1
  PROVE  MoneyStep
<1>1. Held(w) \in Nat /\ Total(w) \in Nat /\ Refunds(w) \in Nat /\ Counted(w)
  BY HeldNat
<1>2. Refunds(w)' = Refunds(w) + 1
  BY SMTT(30), <1>1 DEF Refunds, Counted, IInv, TypeOK
<1>3. Refunds(w) = 0 /\ Refunds(w)' = 1
  BY <1>1, <1>2
<1>4. Held(w) = Total(w) /\ Held(w)' = 0
  BY <1>3 DEF Held
<1>5. \A v \in Withdrawals \ {w} : Held(v)' = Held(v)
  BY DEF Held, Refunds, Total, IInv, TypeOK
<1>6. Exchanges(w, Total(w))
  BY <1>1, <1>4, <1>5 DEF Exchanges, Credit
<1> QED
  BY <1>1, <1>6 DEF MoneyStep

\* The handlers of an existing document.
LEMMA HandlerMoney ==
  ASSUME IInv, NEW s \in Slots, CancelStep(s) \/ AdminStep(s),
         \A w \in Withdrawals : Refunds(w)' <= 1
  PROVE  MoneyStep
<1>1. job[s].w \in Withdrawals /\ status[job[s].w] # "None"
  BY DEF IInv, OnExisting, CancelStep, AdminStep, ClaimCancel, RefundCancel, UndoCancel,
         Approve, RefundReject, Reject
<1>2. PICK w \in Withdrawals : w = job[s].w /\ status[w] # "None"
  BY <1>1
<1>3. CASE ClaimCancel(s) \/ UndoCancel(s) \/ Approve(s) \/ Reject(s)
  <2>1. /\ UNCHANGED <<balance, create, returned>>
        /\ status' = status \/ \E st \in Statuses : status' = [status EXCEPT ![w] = st]
    BY <1>2, <1>3 DEF ClaimCancel, UndoCancel, Approve, Reject, SetStatus, Statuses
  <2>2. \A v \in Withdrawals : status[v] = "None" <=> status'[v] = "None"
    BY <1>2, <2>1 DEF IInv, TypeOK, Statuses
  <2>3. Still
    BY <2>1, <2>2 DEF Still, Held, Refunds, Total
  <2> QED
    BY <2>3 DEF MoneyStep
<1>4. CASE RefundCancel(s)
  <2>1. CASE UNCHANGED <<balance, returned>>
    BY <1>4, <2>1 DEF RefundCancel, MoneyStep, Still, Held, Refunds, Total
  <2> QED
    BY <1>2, <1>4, <2>1, RefundMoney DEF RefundCancel
<1>5. CASE RefundReject(s)
  BY <1>2, <1>5, RefundMoney DEF RefundReject
<1> QED
  BY <1>3, <1>4, <1>5 DEF CancelStep, AdminStep

\* Every step of WithdrawalService that does not refund twice.
LEMMA EveryMoneyStep ==
  ASSUME IInv, RejectsExist, [Next]_vars, \A w \in Withdrawals : Refunds(w)' <= 1
  PROVE  MoneyStep /\ (faults' = 0 => faults = 0) /\ (crashes' = 0 => crashes = 0)
<1>0. faults \in Nat /\ crashes \in Nat /\ faults' \in Nat /\ crashes' \in Nat
      /\ faults <= faults' /\ crashes <= crashes'
  <2>1. faults \in Nat /\ crashes \in Nat
    BY DEF IInv, TypeOK
  <2>2. ASSUME NEW w \in Withdrawals, CreateStep(w)
        PROVE  faults' \in {faults, faults + 1} /\ crashes' = crashes
    BY <2>2 DEF CreateStep, CheckBalance, CheckActive, CheckDailyLimit, Deduct, InsertWithdrawal,
                RefundCreate, Fault
  <2>3. ASSUME NEW s \in Slots, CancelStep(s) \/ AdminStep(s) \/ CallThrows(s)
        PROVE  faults' \in {faults, faults + 1} /\ crashes' = crashes
    BY <2>3 DEF CancelStep, ClaimCancel, RefundCancel, UndoCancel, AdminStep, Approve, RefundReject,
                Reject, CallThrows, Fault
  <2>4. faults' \in {faults, faults + 1} /\ crashes' \in {crashes, crashes + 1}
    BY <2>2, <2>3 DEF Next, Begin, BeginCancel, BeginApprove, BeginReject, Crash, vars
  <2> QED
    BY <2>1, <2>4
<1>1. ASSUME NEW w \in Withdrawals, CreateStep(w) PROVE MoneyStep
  BY <1>1, CreateMoney
<1>2. ASSUME NEW s \in Slots, CancelStep(s) \/ AdminStep(s) PROVE MoneyStep
  BY <1>2, HandlerMoney
<1>3. CASE Crash
  <2>1. \A v \in Withdrawals : Held(v)' <= Held(v)
    BY <1>3, HeldNat DEF Crash, Held, Refunds, Total, IInv, TypeOK
  <2> QED
    BY <1>0, <1>3, <2>1 DEF Crash, Loses, MoneyStep, IInv, TypeOK
<1>4. ASSUME UNCHANGED <<status, balance, create, returned>> PROVE MoneyStep
  BY <1>4 DEF MoneyStep, Still, Held, Refunds, Total
<1>5. MoneyStep
  BY <1>1, <1>2, <1>3, <1>4 DEF Next, Begin, BeginCancel, BeginApprove, BeginReject, CallThrows, vars
<1> QED
  BY <1>0, <1>5

\* A refund is never taken off the count.
LEMMA RefundsGrow ==
  ASSUME IInv, IInv', [Next]_vars
  PROVE  \A w \in Withdrawals : Refunds(w) \in Nat /\ Refunds(w)' \in Nat /\ Refunds(w) <= Refunds(w)'
<1> SUFFICES ASSUME NEW w \in Withdrawals
             PROVE  Refunds(w) \in Nat /\ Refunds(w)' \in Nat /\ Refunds(w) <= Refunds(w)'
  OBVIOUS
<1>1. /\ Counted(w) /\ Counted(w)'
  BY DEF Counted, IInv, TypeOK
<1> DEFINE Grows == /\ returned[w].create <= returned'[w].create
                    /\ returned[w].cancel <= returned'[w].cancel
                    /\ returned[w].reject <= returned'[w].reject
<1>2. Grows
  <2>1. ASSUME UNCHANGED returned PROVE Grows
    BY <1>1, <2>1 DEF Counted
  <2>2. ASSUME NEW v \in Withdrawals,
                      \/ returned' = [returned EXCEPT ![v].create = @ + 1]
                      \/ returned' = [returned EXCEPT ![v].cancel = @ + 1]
                      \/ returned' = [returned EXCEPT ![v].reject = @ + 1]
        PROVE  Grows
    <3>1. CASE v = w
      BY <1>1, <2>2, <3>1, CountOneMore DEF Counted, IInv, TypeOK
    <3>2. CASE v # w
      <4>1. returned'[w] = returned[w]
        BY <2>2, <3>2, CountOneMore DEF IInv, TypeOK
      <4> QED
        BY <1>1, <4>1 DEF Counted
    <3> QED
      BY <3>1, <3>2
  <2> HIDE DEF Grows
  <2>3. ASSUME NEW v \in Withdrawals, CreateStep(v) PROVE Grows
    BY <2>1, <2>2, <2>3 DEF CreateStep, CheckBalance, CheckActive, CheckDailyLimit, Deduct,
                            InsertWithdrawal, RefundCreate
  <2>4. ASSUME NEW s \in Slots, CancelStep(s) \/ AdminStep(s) PROVE Grows
    <3>1. job[s].w \in Withdrawals
      BY <2>4 DEF IInv, OnExisting, CancelStep, AdminStep, ClaimCancel, RefundCancel, UndoCancel,
                  Approve, RefundReject, Reject
    <3> QED
      BY <2>1, <2>2, <2>4, <3>1 DEF CancelStep, ClaimCancel, RefundCancel, UndoCancel, AdminStep,
                                    Approve, RefundReject, Reject
  <2> QED
    BY <2>1, <2>3, <2>4 DEF Next, Begin, BeginCancel, BeginApprove, BeginReject, CallThrows,
                            Crash, vars
<1> QED
  BY <1>1, <1>2 DEF Refunds, Counted

\* The sum of what a user's withdrawals hold follows the wallet.
LEMMA BooksKept ==
  ASSUME IInv, IInv', RejectsExist, BooksBalance, [Next]_vars
  PROVE  BooksBalance'
<1> SUFFICES ASSUME \A w \in Withdrawals : Refunds(w)' <= 1, NEW u \in Users
             PROVE  /\ balance'[u] + Outstanding(u)' <= Opening[u]
                    /\ faults' = 0 /\ crashes' = 0 => balance'[u] + Outstanding(u)' = Opening[u]
  BY DEF BooksBalance
<1> DEFINE f == [w \in Withdrawals |-> IF Owner[w] = u THEN Held(w) ELSE 0]
           g == [w \in Withdrawals |-> IF Owner[w] = u THEN Held(w)' ELSE 0]
<1>1. /\ Outstanding(u) = SumFunctionOnSet(f, Withdrawals)
      /\ Outstanding(u)' = SumFunctionOnSet(g, Withdrawals)
  BY DEF Outstanding
<1>2. /\ IsFiniteSet(Withdrawals)
      /\ \A w \in Withdrawals : Held(w) \in Int /\ Held(w)' \in Int /\ f[w] \in Int /\ g[w] \in Int
  <2>1. \A w \in Withdrawals : Held(w) \in Nat
    BY HeldNat
  <2>2. \A w \in Withdrawals : Held(w)' \in Nat
    BY TotalNat DEF Held, IInv, TypeOK, Refunds, Total
  <2> QED
    BY <2>1, <2>2, WithdrawalAssumption
<1>3. /\ MoneyStep /\ (faults' = 0 => faults = 0) /\ (crashes' = 0 => crashes = 0)
  BY EveryMoneyStep
<1>4. /\ balance[u] + Outstanding(u) <= Opening[u]
      /\ faults = 0 /\ crashes = 0 => balance[u] + Outstanding(u) = Opening[u]
  <2>1. \A w \in Withdrawals : Refunds(w) <= 1
    <3>1. \A w \in Withdrawals : Refunds(w) \in Nat /\ Refunds(w)' \in Nat /\ Refunds(w) <= Refunds(w)'
      BY RefundsGrow
    <3> QED
      BY <3>1
  <2> QED
    BY <2>1 DEF BooksBalance
<1>5. balance[u] \in Int /\ balance'[u] \in Int /\ Opening[u] \in Int
  BY WithdrawalAssumption DEF IInv, TypeOK
<1> HIDE DEF f, g
<1>6. SumFunctionOnSet(f, Withdrawals) \in Int /\ SumFunctionOnSet(g, Withdrawals) \in Int
  BY <1>2, SumInt
<1>7. CASE Still
  <2>1. SumFunctionOnSet(g, Withdrawals) = SumFunctionOnSet(f, Withdrawals)
    <3>1. \A w \in Withdrawals : g[w] = f[w]
      BY <1>7 DEF Still, f, g
    <3> QED
      BY <1>2, <3>1, SumSame
  <2> QED
    BY <1>1, <1>3, <1>4, <1>7, <2>1 DEF Still
<1>8. CASE Loses
  <2>1. SumFunctionOnSet(g, Withdrawals) <= SumFunctionOnSet(f, Withdrawals)
    <3>1. \A w \in Withdrawals : g[w] <= f[w]
      BY <1>2, <1>8 DEF Loses, f, g
    <3> QED
      BY <1>2, <3>1, SumMonotone
  <2>2. balance'[u] + Outstanding(u)' <= Opening[u]
    BY <1>1, <1>4, <1>5, <1>6, <1>8, <2>1 DEF Loses
  <2>3. ~(faults' = 0 /\ crashes' = 0)
    BY <1>8 DEF Loses
  <2> QED
    BY <2>2, <2>3
<1>9. ASSUME NEW w \in Withdrawals, NEW d \in Int, Exchanges(w, d)
      PROVE  balance'[u] + Outstanding(u)' = balance[u] + Outstanding(u)
  <2>1. CASE Owner[w] = u
    <3>1. g[w] = f[w] - d /\ \A v \in Withdrawals \ {w} : g[v] = f[v]
      BY <1>9, <2>1 DEF Exchanges, f, g
    <3>2. SumFunctionOnSet(g, Withdrawals) = SumFunctionOnSet(f, Withdrawals) + g[w] - f[w]
      BY <1>2, <3>1, SumChange
    <3>3. balance'[u] = balance[u] + d
      BY <1>9, <2>1 DEF Exchanges, IInv, TypeOK
    <3>4. f[w] \in Int /\ g[w] \in Int
      BY <1>2
    <3> QED
      BY <1>1, <1>5, <1>6, <3>1, <3>2, <3>3, <3>4
  <2>2. CASE Owner[w] # u
    <3>1. \A v \in Withdrawals : g[v] = f[v]
      BY <1>9, <2>2 DEF Exchanges, f, g
    <3>2. SumFunctionOnSet(g, Withdrawals) = SumFunctionOnSet(f, Withdrawals)
      BY <1>2, <3>1, SumSame
    <3>3. balance'[u] = balance[u]
      BY <1>9, <2>2 DEF Exchanges, IInv, TypeOK
    <3> QED
      BY <1>1, <3>2, <3>3
  <2> QED
    BY <2>1, <2>2
<1> QED
  BY <1>3, <1>4, <1>7, <1>8, <1>9 DEF MoneyStep

\* Before the first request nothing is held.
LEMMA BooksOpen == Init => RejectsExist /\ BooksBalance
<1> SUFFICES ASSUME Init PROVE RejectsExist /\ BooksBalance
  OBVIOUS
<1>1. RejectsExist
  BY DEF Init, RejectsExist
<1>2. ASSUME NEW u \in Users PROVE Outstanding(u) = 0
  <2> DEFINE f == [w \in Withdrawals |-> IF Owner[w] = u THEN Held(w) ELSE 0]
  <2>1. f = [w \in Withdrawals |-> 0]
    BY DEF Held, Init
  <2>2. Outstanding(u) = SumFunctionOnSet([w \in Withdrawals |-> 0], Withdrawals)
    BY <2>1 DEF Outstanding
  <2> QED
    BY <2>2, SumZero, WithdrawalAssumption
<1> QED
  BY <1>1, <1>2, WithdrawalAssumption DEF Init, BooksBalance

\* The wallet and the withdrawals of a user hold together what the user brought
\* (BooksBalance): less only after a failure, more only if
\* ProcessWithdrawalAsync refunds twice.
THEOREM BooksAlwaysBalance == Spec => []BooksBalance
<1>1. /\ IInv /\ IInv' /\ RejectsExist /\ BooksBalance /\ [Next]_vars
      => RejectsExist' /\ BooksBalance'
  BY RejectsExistKept, BooksKept
<1> QED
  BY <1>1, BooksOpen, Invariance, PTL DEF Spec

-----------------------------------------------------------------------------
(* Idempotency keys.                                                       *)

Typed == IdempotencyTypeOK /\ RanBeforeStore

\* The state of RedisIdempotencyService and its callers keeps its types, and
\* a handler that stores has a result of the operation to store.
LEMMA TypeCorrect == Typed /\ [IdempotencyNext]_idempotencyVars => Typed'
<1> SUFFICES ASSUME Typed, [IdempotencyNext]_idempotencyVars PROVE Typed'
  OBVIOUS
<1> USE IdempotencyAssumption DEF Typed, IdempotencyTypeOK, RanBeforeStore, Pcs, MoveTo, Answer, Throws
<1>1. ASSUME NEW r \in Requests, GetResult(r) PROVE Typed'
  BY <1>1 DEF GetResult, Answers
<1>2. ASSUME NEW r \in Requests, Replay(r) PROVE Typed'
  BY <1>2 DEF Replay, Answers, Parse, Json
<1>3. ASSUME NEW r \in Requests, SetLock(r) PROVE Typed'
  BY <1>3 DEF SetLock, Answers
<1>4. ASSUME NEW r \in Requests, RunOperation(r) PROVE Typed'
  BY <1>4 DEF RunOperation, Outcomes
<1>5. ASSUME NEW r \in Requests, StoreResult(r) PROVE Typed'
  BY <1>5 DEF StoreResult, DeleteLock, Serialize, Json
<1>6. ASSUME NEW r \in Requests, ConfirmAudit(r) PROVE Typed'
  BY <1>6 DEF ConfirmAudit, Outcomes, Answers
<1>7. ASSUME NEW r \in Requests, Release(r) PROVE Typed'
  BY <1>7 DEF Release, DeleteLock, Answers
<1>8. ASSUME NEW r \in Requests, Die(r) PROVE Typed'
  BY <1>8 DEF Die, Answers
<1>9. ASSUME NEW k \in Keys, ExpireLock(k) PROVE Typed'
  BY <1>9 DEF ExpireLock
<1>10. ASSUME NEW k \in Keys, ExpireResult(k) PROVE Typed'
  BY <1>10 DEF ExpireResult
<1>11. CASE UNCHANGED idempotencyVars
  BY <1>11 DEF idempotencyVars
<1> QED
  BY <1>1, <1>2, <1>3, <1>4, <1>5, <1>6, <1>7, <1>8, <1>9, <1>10, <1>11 DEF IdempotencyNext, Step

-----------------------------------------------------------------------------
(* The lock.                                                               *)

\* Only SET NX makes a request the worker of its key, and it makes it the
\* holder; every step that takes the lock from a working holder marks it lost.
LEMMA HolderKept == LockInv /\ [IdempotencyNext]_idempotencyVars => HolderWorks'
<1> SUFFICES ASSUME LockInv, [IdempotencyNext]_idempotencyVars PROVE HolderWorks'
  OBVIOUS
<1> USE IdempotencyAssumption
    DEF LockInv, IdempotencyTypeOK, HolderWorks, Working, MoveTo, Answer, Throws
<1>1. ASSUME NEW r \in Requests, GetResult(r) \/ Replay(r) \/ ConfirmAudit(r) \/ Die(r)
      PROVE HolderWorks'
  BY <1>1 DEF GetResult, Replay, ConfirmAudit, Die
<1>2. ASSUME NEW r \in Requests, SetLock(r) PROVE HolderWorks'
  BY <1>2 DEF SetLock
<1>3. ASSUME NEW r \in Requests, RunOperation(r) PROVE HolderWorks'
  BY <1>3 DEF RunOperation
<1>4. ASSUME NEW r \in Requests, StoreResult(r) PROVE HolderWorks'
  BY <1>4 DEF StoreResult, DeleteLock
<1>5. ASSUME NEW r \in Requests, Release(r) PROVE HolderWorks'
  BY <1>5 DEF Release, DeleteLock
<1>6. ASSUME NEW k \in Keys, ExpireLock(k) \/ ExpireResult(k) PROVE HolderWorks'
  BY <1>6 DEF ExpireLock, ExpireResult
<1>7. CASE UNCHANGED idempotencyVars
  BY <1>7 DEF idempotencyVars
<1> QED
  BY <1>1, <1>2, <1>3, <1>4, <1>5, <1>6, <1>7 DEF IdempotencyNext, Step

\* Two requests of one key never run their operation together while
\* RedisIdempotencyService keeps the lock of the first (MutualExclusion),
\* whatever throws, dies or expires.
THEOREM LockExcludes == IdempotencySpec => []MutualExclusion
<1>1. IdempotencyInit => LockInv
  BY IdempotencyAssumption
     DEF IdempotencyInit, LockInv, IdempotencyTypeOK, RanBeforeStore, HolderWorks, Working, Pcs, Outcomes, Answers
<1>2. LockInv /\ [IdempotencyNext]_idempotencyVars => LockInv'
  BY TypeCorrect, HolderKept DEF LockInv, Typed
<1>3. LockInv => MutualExclusion
  BY DEF LockInv, HolderWorks, MutualExclusion
<1> QED
  BY <1>1, <1>2, <1>3, PTL DEF IdempotencySpec

-----------------------------------------------------------------------------
(* A client that waits.                                                    *)

\* While no requests of a key overlap, every run of the operation is stored
\* before the next request of the key looks for a result.
LEMMA RunIsStored == SerialInv /\ [IdempotencyNext]_idempotencyVars => SerialRunIsStored'
<1> SUFFICES ASSUME SerialInv, [IdempotencyNext]_idempotencyVars,
                    thrown' = 0, deaths' = 0
             PROVE  SerialRunIsStored'
  BY DEF SerialRunIsStored
<1> USE IdempotencyAssumption
    DEF SerialInv, IdempotencyTypeOK, RanBeforeStore, SerialRunIsStored, UnderWay, MoveTo, Answer, Throws
<1>1. ASSUME NEW r \in Requests, GetResult(r) PROVE SerialRunIsStored'
  BY <1>1 DEF GetResult, InFlight
<1>2. ASSUME NEW r \in Requests, Replay(r) PROVE SerialRunIsStored'
  BY <1>2 DEF Replay, InFlight
<1>3. ASSUME NEW r \in Requests, SetLock(r) PROVE SerialRunIsStored'
  BY <1>3 DEF SetLock
<1>4. ASSUME NEW r \in Requests, RunOperation(r) PROVE SerialRunIsStored'
  BY <1>4 DEF RunOperation
<1>5. ASSUME NEW r \in Requests, StoreResult(r) PROVE SerialRunIsStored'
  BY <1>5 DEF StoreResult, Serialize, Json
<1>6. ASSUME NEW r \in Requests, ConfirmAudit(r) PROVE SerialRunIsStored'
  BY <1>6 DEF ConfirmAudit
<1>7. ASSUME NEW r \in Requests, Release(r) \/ Die(r) PROVE SerialRunIsStored'
  BY <1>7 DEF Release, Die
<1>8. ASSUME NEW k \in Keys, ExpireLock(k) PROVE SerialRunIsStored'
  BY <1>8 DEF ExpireLock
<1>9. ASSUME NEW k \in Keys, ExpireResult(k) PROVE SerialRunIsStored'
  BY <1>9 DEF ExpireResult
<1>10. CASE UNCHANGED idempotencyVars
  BY <1>10 DEF idempotencyVars
<1> QED
  BY <1>1, <1>2, <1>3, <1>4, <1>5, <1>6, <1>7, <1>8, <1>9, <1>10 DEF IdempotencyNext, Step

\* Only RunOperation adds an execution; the stored result of an earlier one
\* keeps every later request of the key from getting there.
LEMMA RunOnceKept == SerialInv /\ [IdempotencyNext]_idempotencyVars => SerialRetriesRunOnce'
<1> SUFFICES ASSUME SerialInv, [IdempotencyNext]_idempotencyVars,
                    thrown' = 0, deaths' = 0
             PROVE  SerialRetriesRunOnce'
  BY DEF SerialRetriesRunOnce
<1> USE IdempotencyAssumption
    DEF SerialInv, IdempotencyTypeOK, SerialRunIsStored, SerialRetriesRunOnce, Executions
<1>1. ASSUME NEW r \in Requests, RunOperation(r) PROVE SerialRetriesRunOnce'
  BY <1>1 DEF RunOperation, MoveTo, Throws, UnderWay
<1>2. ASSUME UNCHANGED outcome, staleResults \subseteq staleResults',
             overlapped \subseteq overlapped',
             thrown <= thrown', deaths <= deaths'
      PROVE  SerialRetriesRunOnce'
  <2>1. thrown = 0 /\ deaths = 0
    BY <1>2
  <2> QED
    BY <1>2, <2>1
<1>3. ASSUME NEW r \in Requests, Step(r) \/ Die(r), ~RunOperation(r)
      PROVE  SerialRetriesRunOnce'
  <2>1. /\ UNCHANGED <<outcome, staleResults>>
        /\ overlapped \subseteq overlapped'
        /\ thrown <= thrown' /\ deaths <= deaths'
    BY <1>3 DEF Step, Die, GetResult, Replay, SetLock, StoreResult, ConfirmAudit,
                Release, Throws
  <2> QED
    BY <1>2, <2>1
<1>4. ASSUME NEW k \in Keys, ExpireLock(k) \/ ExpireResult(k) PROVE SerialRetriesRunOnce'
  BY <1>4, <1>2 DEF ExpireLock, ExpireResult
<1>5. CASE UNCHANGED idempotencyVars
  BY <1>5 DEF idempotencyVars
<1> QED
  BY <1>1, <1>3, <1>4, <1>5 DEF IdempotencyNext

\* A client that waits for each answer runs its operation at most once, while
\* nothing fails and the stored result lives (SerialRetriesRunOnce), however
\* many retries it sends and however many locks expire.
THEOREM SerialClientRunsOnce == IdempotencySpec => []SerialRetriesRunOnce
<1>1. IdempotencyInit => SerialInv
  BY IdempotencyAssumption
     DEF IdempotencyInit, SerialInv, IdempotencyTypeOK, RanBeforeStore, SerialRunIsStored, SerialRetriesRunOnce,
         Executions, UnderWay, Pcs, Outcomes, Answers
<1>2. SerialInv /\ [IdempotencyNext]_idempotencyVars => SerialInv'
  BY TypeCorrect, RunIsStored, RunOnceKept DEF SerialInv, Typed
<1>3. SerialInv => SerialRetriesRunOnce
  BY DEF SerialInv
<1> QED
  BY <1>1, <1>2, <1>3, PTL DEF IdempotencySpec

=============================================================================
