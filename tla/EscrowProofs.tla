---------------------------- MODULE EscrowProofs ----------------------------
(***************************************************************************)
(* Escrow for any set of transfers, users, concurrent requests and sweeps, *)
(* any number of faults and crashes: no transfer is settled twice, what it *)
(* holds is there, the money in the system is conserved, and the handlers  *)
(* together implement EscrowContract.                                      *)
(***************************************************************************)
EXTENDS Escrow, Sums, TLAPS

-----------------------------------------------------------------------------
(***************************************************************************)
(* The inductive invariant. NoDoubleSettlement is not inductive: a second  *)
(* credit is excluded only because a transfer has at most one handler that *)
(* still owes money for it, and that handler holds the transfer in a final *)
(* status no other handler may leave.                                      *)
(***************************************************************************)
Owns(r, t) == job[r].t = t /\ job[r].pc \in {"pay", "undo"}

\* A handler in flight knows its transfer.
HasTransfer == \A r \in Jobs : job[r].pc # "idle" => job[r].t \in Transfers

\* An id is drawn by one call of CreateTransferAsync, which alone inserts it.
OneCreator ==
    /\ \A t \in Transfers : t \notin issued => status[t] = "None"
    /\ \A r \in Jobs, t \in Transfers :
          Creates(r, t) => /\ t \in issued
                           /\ status[t] = "None"
                           /\ ~Owns(r, t)
    /\ \A r1, r2 \in Jobs, t \in Transfers :
          Creates(r1, t) /\ Creates(r2, t) => r1 = r2

\* A final status has at most one handler that may still pay or roll back.
OneOwner ==
    /\ \A r \in Jobs, t \in Transfers : Owns(r, t) => status[t] \in Terminal
    /\ \A r1, r2 \in Jobs, t \in Transfers :
          Owns(r1, t) /\ Owns(r2, t) => r1 = r2

\* What the owner still owes fits into what the transfer has left, and a
\* handler that may roll back has paid nothing.
OwnerOwes ==
    \A r \in Jobs, t \in Transfers :
        Owns(r, t) =>
            /\ payout[t].sender + payout[t].receiver
                 + job[r].toSender + job[r].toReceiver <= Amount[t]
            /\ job[r].op # "resolve" =>
                  /\ payout[t] = Unpaid
                  /\ job[r].toSender = 0 \/ job[r].toReceiver = 0
            /\ job[r].pc = "undo" => job[r].op # "resolve"

IInv == /\ TypeOK
        /\ HasTransfer
        /\ OneCreator
        /\ OneOwner
        /\ OwnerOwes
        /\ EscrowBacked
        /\ NoDoubleSettlement

\* While nothing fails, nobody rolls back, and what a transfer has paid and
\* what its owner still owes are together the whole of it.
OwedInFull ==
    faults = 0 /\ crashes = 0 =>
        /\ \A r \in Jobs : job[r].pc # "undo"
        /\ \A r \in Jobs, t \in Transfers :
              Owns(r, t) => InFull(t, payout[t].sender + job[r].toSender,
                                      payout[t].receiver + job[r].toReceiver)
        /\ \A t \in Transfers :
              status[t] \in Terminal /\ (\A r \in Jobs : ~Owns(r, t)) =>
                  InFull(t, payout[t].sender, payout[t].receiver)

\* A deduction is given back by a single refund only after a failure, or for a
\* transfer of a validation case.
RefundsExplained ==
    \A r \in Jobs :
        job[r].op = "create" =>
            /\ job[r].pc \in {"duplicate", "refundTwice"} => CaseLockKey[job[r].t] # NoCase
            /\ job[r].pc = "refundOnce" => faults > 0 \/ CaseLockKey[job[r].t] # NoCase

-----------------------------------------------------------------------------
(* Arithmetic of the fee and of a split.                                   *)

\* The truncated fee is never more than what it is taken from.
LEMMA FeeBound ==
  ASSUME NEW x \in Nat
  PROVE  Fee(x) \in Nat /\ Fee(x) <= x
  BY DEF Fee

\* The shares of a resolution are natural numbers and fit into the amount.
LEMMA SplitBound ==
  ASSUME NEW t \in Transfers, NEW percent \in SplitPercents
  PROVE  /\ RefundToSender(t, percent) \in Nat
         /\ ReleaseToReceiver(t, percent) \in Nat
         /\ RefundToSender(t, percent) + ReleaseToReceiver(t, percent) <= Amount[t]
<1> DEFINE a == Amount[t]
<1>1. a \in Nat /\ percent \in 0..100
  BY EscrowAssumption
<1>2. a * percent \in Nat /\ a * percent <= a * 100
  BY <1>1
<1>3. RefundToSender(t, percent) \in Nat /\ RefundToSender(t, percent) <= a
  <2> DEFINE p == a * percent
  <2>1. p \in Nat /\ p <= a * 100 BY <1>2
  <2> HIDE DEF p
  <2>2. p \div 100 \in Nat /\ p \div 100 <= a BY <2>1, <1>1
  <2> QED BY <2>2 DEF RefundToSender, p
<1>4. QED
  BY <1>1, <1>3, FeeBound DEF ReleaseToReceiver

-----------------------------------------------------------------------------
(* Types.                                                                  *)

\* Init establishes the inductive invariant.
LEMMA InitInvariant == Init => IInv
  BY EscrowAssumption DEF Init, IInv, TypeOK, HasTransfer, OneCreator, OneOwner,
     OwnerOwes, EscrowBacked, NoDoubleSettlement, Owns, Creates, Unpaid, Idle, Job,
     Ops, Pcs, Terminal, DisputeStatus

\* A conditional write of the transfer's status keeps the types.
LEMMA ClaimType ==
  ASSUME IInv, NEW r \in Jobs, job[r].pc # "idle",
         NEW from, NEW new \in TransferStatus, NEW pc \in Pcs,
         NEW toSender \in Nat, NEW toReceiver \in Nat,
         Claim(r, from, new, pc, toSender, toReceiver)
  PROVE  TypeOK'
<1> USE DEF IInv, TypeOK, HasTransfer
<1>1. job' \in [Jobs -> Job]
  <2>1. Idle \in Job
    BY DEF Idle, Job, Ops, Pcs
  <2>2. [job[r] EXCEPT !.pc = pc, !.toSender = toSender, !.toReceiver = toReceiver] \in Job
    BY DEF Job
  <2> QED BY <2>1, <2>2 DEF Claim, Finish
<1>2. status' \in [Transfers -> TransferStatus \cup {"None"}]
  BY DEF Claim
<1> QED BY <1>1, <1>2 DEF Claim

\* So does a rollback.
LEMMA RollbackType ==
  ASSUME IInv, NEW r \in Jobs, job[r].pc # "idle",
         NEW from, NEW to \in TransferStatus, Rollback(r, from, to)
  PROVE  TypeOK'
<1> USE DEF IInv, TypeOK, HasTransfer
<1>1. job' \in [Jobs -> Job]
  BY DEF Rollback, Finish, Idle, Job, Ops, Pcs, DisputeStatus
<1>2. status' \in [Transfers -> TransferStatus \cup {"None"}]
  BY DEF Rollback
<1> QED BY <1>1, <1>2 DEF Rollback, Fault

-----------------------------------------------------------------------------
(* The shapes of a step.                                                   *)

\* A step of r after which r owes nothing: no credit is made, and a status is
\* changed only between unsettled ones or by the owner's rollback.
LEMMA NonOwnerStep ==
  ASSUME IInv, TypeOK', NEW r \in Jobs,
         \A q \in Jobs \ {r} : job'[q] = job[q],
         job'[r].pc \notin {"pay", "undo"},
         job'[r].pc # "idle" => job'[r].t \in Transfers,
         job'[r].op = "create" => job[r].op = "create" /\ job'[r].t = job[r].t,
         payout' = payout, issued' = issued,
         \A t \in Transfers :
            status'[t] # status[t] =>
                /\ status[t] # "None" /\ status'[t] # "None"
                /\ \/ status[t] \notin Terminal /\ status'[t] \notin Terminal
                   \/ Owns(r, t) /\ payout[t] = Unpaid
  PROVE  IInv'
<1>1. HasTransfer'
  BY DEF IInv, HasTransfer
<1>2. OneCreator'
  BY DEF IInv, OneCreator, Creates, Owns
<1>3. OneOwner'
  BY DEF IInv, OneOwner, Owns, Terminal
<1>4. OwnerOwes'
  BY DEF IInv, OwnerOwes, Owns
<1>5. EscrowBacked'
  BY DEF IInv, EscrowBacked, TypeOK, TransferStatus, Terminal
<1>6. NoDoubleSettlement'
  BY DEF IInv, NoDoubleSettlement
<1> QED BY <1>1, <1>2, <1>3, <1>4, <1>5, <1>6 DEF IInv

\* A successful claim of a final status makes r the one owner.
LEMMA ClaimFinalStep ==
  ASSUME IInv, TypeOK', NEW r \in Jobs, job[r].pc = "claim", job[r].op # "create",
         NEW new \in Terminal, NEW toSender \in Nat, NEW toReceiver \in Nat,
         NEW from \in SUBSET {"Pending", "Disputed"},
         toSender + toReceiver <= Amount[job[r].t],
         job[r].op # "resolve" => toSender = 0 \/ toReceiver = 0,
         Claim(r, from, new, "pay", toSender, toReceiver)
  PROVE  IInv'
<1> DEFINE t == job[r].t
<1>1. t \in Transfers
  BY DEF IInv, HasTransfer
<1>2. CASE status[t] \in from /\ Writable(t, new)
  <2>1. /\ status' = [status EXCEPT ![t] = new]
        /\ job' = [job EXCEPT ![r] = [job[r] EXCEPT !.pc = "pay",
                        !.toSender = toSender, !.toReceiver = toReceiver]]
        /\ payout' = payout /\ issued' = issued
    BY <1>2 DEF Claim
  <2>2. /\ \A q \in Jobs \ {r} : job'[q] = job[q]
        /\ job'[r].pc = "pay" /\ job'[r].t = t /\ job'[r].op = job[r].op
        /\ job'[r].toSender = toSender /\ job'[r].toReceiver = toReceiver
        /\ \A u \in Transfers \ {t} : status'[u] = status[u]
        /\ status'[t] = new
    BY <2>1, <1>1 DEF IInv, TypeOK, Job
  <2>3. \A q \in Jobs : ~Owns(q, t)
    BY <1>1, <1>2 DEF IInv, OneOwner, Terminal
  <2>4. payout[t] = Unpaid
    BY <1>1, <1>2 DEF IInv, EscrowBacked
  <2>5. HasTransfer'
    BY <2>2, <1>1 DEF IInv, HasTransfer
  <2>6. OneCreator'
    BY <2>1, <2>2, <1>1, <1>2 DEF IInv, OneCreator, Creates, Owns
  <2>7. OneOwner'
    BY <2>2, <2>3, <1>1 DEF IInv, OneOwner, Owns
  <2>8. OwnerOwes'
    <3> SUFFICES ASSUME NEW q \in Jobs, NEW u \in Transfers, Owns(q, u)'
                 PROVE  /\ payout[u].sender + payout[u].receiver
                            + job'[q].toSender + job'[q].toReceiver <= Amount[u]
                        /\ job'[q].op # "resolve" =>
                             /\ payout[u] = Unpaid
                             /\ job'[q].toSender = 0 \/ job'[q].toReceiver = 0
                        /\ job'[q].pc = "undo" => job'[q].op # "resolve"
      BY <2>1 DEF OwnerOwes
    <3>1. CASE q = r
      BY <3>1, <2>2, <2>4, <1>1, EscrowAssumption DEF Owns, Unpaid
    <3>2. CASE q # r
      BY <3>2, <2>2 DEF Owns, IInv, OwnerOwes
    <3> QED BY <3>1, <3>2
  <2>9. EscrowBacked' /\ NoDoubleSettlement'
    BY <2>1, <2>2, <1>1 DEF IInv, EscrowBacked, NoDoubleSettlement, Terminal
  <2> QED BY <2>5, <2>6, <2>7, <2>8, <2>9 DEF IInv
<1>3. CASE ~(status[t] \in from /\ Writable(t, new))
  <2>1. /\ status' = status /\ job' = [job EXCEPT ![r] = Idle]
        /\ payout' = payout /\ issued' = issued
    BY <1>3 DEF Claim, Finish
  <2> QED BY <2>1, NonOwnerStep DEF Idle, IInv, TypeOK
<1> QED BY <1>2, <1>3

\* A claim of an unsettled status leaves r owing nothing.
LEMMA ClaimOpenStep ==
  ASSUME IInv, TypeOK', NEW r \in Jobs, job[r].pc = "claim", job[r].op # "create",
         NEW new \in {"Pending", "Disputed"}, NEW pc \in {"close", "insert"},
         NEW from \in SUBSET {"Pending", "Disputed"},
         Claim(r, from, new, pc, 0, 0)
  PROVE  IInv'
<1> DEFINE t == job[r].t
<1>1. t \in Transfers
  BY DEF IInv, HasTransfer
<1>2. CASE status[t] \in from /\ Writable(t, new)
  <2>1. /\ status' = [status EXCEPT ![t] = new]
        /\ job' = [job EXCEPT ![r] = [job[r] EXCEPT !.pc = pc, !.toSender = 0,
                                                    !.toReceiver = 0]]
        /\ payout' = payout /\ issued' = issued
    BY <1>2 DEF Claim
  <2>2. /\ \A q \in Jobs \ {r} : job'[q] = job[q]
        /\ job'[r].pc = pc /\ job'[r].t = t /\ job'[r].op = job[r].op
        /\ \A u \in Transfers \ {t} : status'[u] = status[u]
        /\ status'[t] = new
    BY <2>1, <1>1 DEF IInv, TypeOK, Job
  <2> QED BY <2>1, <2>2, <1>1, <1>2, NonOwnerStep DEF Terminal
<1>3. CASE ~(status[t] \in from /\ Writable(t, new))
  <2>1. /\ status' = status /\ job' = [job EXCEPT ![r] = Idle]
        /\ payout' = payout /\ issued' = issued
    BY <1>3 DEF Claim, Finish
  <2> QED BY <2>1, NonOwnerStep DEF Idle, IInv, TypeOK
<1> QED BY <1>2, <1>3

\* A rollback by the owner of a final status, which has paid nothing.
LEMMA RollbackStep ==
  ASSUME IInv, TypeOK', NEW r \in Jobs, job[r].pc = "undo",
         NEW from \in Terminal, NEW to \in {"Pending", "Disputed"},
         Rollback(r, from, to)
  PROVE  IInv'
<1> DEFINE t == job[r].t
<1>1. t \in Transfers
  BY DEF IInv, HasTransfer
<1>2. Owns(r, t) /\ payout[t] = Unpaid
  BY <1>1 DEF Owns, IInv, OwnerOwes
<1>3. /\ job' = [job EXCEPT ![r] = Idle]
      /\ payout' = payout /\ issued' = issued
      /\ \/ status' = status
         \/ status[t] = from /\ status' = [status EXCEPT ![t] = to]
  BY DEF Rollback, Finish
<1>4. \A u \in Transfers : status'[u] # status[u] =>
          u = t /\ status[u] = from /\ status'[u] = to
  BY <1>3, <1>1 DEF IInv, TypeOK
<1> QED BY <1>1, <1>2, <1>3, <1>4, NonOwnerStep DEF Idle, Terminal, IInv, TypeOK

\* A step that only moves r on, or ends it, without a credit or a claim.
LEMMA MoveStep ==
  ASSUME IInv, TypeOK', NEW r \in Jobs, job[r].pc # "idle",
         \/ Finish(r)
         \/ \E pc \in Pcs \ {"idle", "pay", "undo"} : Goto(r, pc),
         UNCHANGED <<status, payout, issued>>
  PROVE  IInv'
<1>1. CASE Finish(r)
  BY <1>1, NonOwnerStep DEF Finish, Idle, IInv, TypeOK
<1>2. ASSUME NEW pc \in Pcs \ {"idle", "pay", "undo"}, Goto(r, pc)
      PROVE  IInv'
  <2>1. /\ \A q \in Jobs \ {r} : job'[q] = job[q]
        /\ job'[r].pc = pc /\ job'[r].t = job[r].t /\ job'[r].op = job[r].op
    BY <1>2 DEF Goto, IInv, TypeOK, Job
  <2> QED BY <2>1, <1>2, NonOwnerStep DEF IInv, HasTransfer
<1> QED BY <1>1, <1>2

-----------------------------------------------------------------------------
(* The actions.                                                            *)

LEMMA IdleJob == Idle \in Job
  BY DEF Idle, Job, Ops, Pcs

\* Moving on or ending keeps the type of the jobs.
LEMMA MoveType ==
  ASSUME IInv, NEW r \in Jobs, Finish(r) \/ \E pc \in Pcs : Goto(r, pc)
  PROVE  job' \in [Jobs -> Job]
<1>1. \A pc \in Pcs : [job[r] EXCEPT !.pc = pc] \in Job
  BY DEF IInv, TypeOK, Job
<1> QED BY <1>1, IdleJob DEF IInv, TypeOK, Finish, Goto

\* A request that begins a handler other than CreateTransferAsync.
LEMMA BeginStep ==
  ASSUME IInv, NEW r \in Jobs, NEW t \in Transfers, NEW j \in Job,
         j.t = t, j.pc \notin {"pay", "undo"}, j.op # "create",
         job' = [job EXCEPT ![r] = j],
         UNCHANGED <<status, expired, dispute, balance, issued, payout, faults, crashes>>
  PROVE  IInv'
<1>1. TypeOK'
  BY DEF IInv, TypeOK
<1> QED BY <1>1, NonOwnerStep DEF IInv, TypeOK

LEMMA ArriveStep ==
  ASSUME IInv, NEW r \in Jobs, NEW t \in Transfers, Arrive(r, t)
  PROVE  IInv'
<1>1. CASE BeginCreate(r, t)
  <2> DEFINE j == [Idle EXCEPT !.op = "create", !.pc = "deduct", !.t = t]
  <2>1. /\ job' = [job EXCEPT ![r] = j] /\ job[r] = Idle
        /\ t \notin issued /\ issued' = issued \cup {t}
        /\ UNCHANGED <<status, expired, dispute, balance, payout, faults, crashes>>
    BY <1>1 DEF BeginCreate, Begin
  <2>2. j \in Job /\ j.t = t /\ j.op = "create" /\ j.pc = "deduct"
    BY DEF Idle, Job, Ops, Pcs
  <2> HIDE DEF j
  <2>3. /\ job'[r] = j
        /\ \A q \in Jobs \ {r} : job'[q] = job[q]
    BY <2>1 DEF IInv, TypeOK
  <2>4. TypeOK'
    BY <2>1, <2>2 DEF IInv, TypeOK
  <2>5. HasTransfer'
    BY <2>2, <2>3 DEF IInv, HasTransfer
  <2>6. OneCreator'
    BY <2>1, <2>2, <2>3 DEF IInv, OneCreator, Creates, Owns
  <2>7. OneOwner'
    BY <2>1, <2>2, <2>3 DEF IInv, OneOwner, Owns
  <2>8. OwnerOwes'
    BY <2>1, <2>2, <2>3 DEF IInv, OwnerOwes, Owns
  <2>9. EscrowBacked' /\ NoDoubleSettlement'
    BY <2>1 DEF IInv, EscrowBacked, NoDoubleSettlement
  <2> QED BY <2>4, <2>5, <2>6, <2>7, <2>8, <2>9 DEF IInv
<1>2. ASSUME NEW by \in {"sender", "receiver"}, BeginRelease(r, t, by)
      PROVE  IInv'
  <2> DEFINE j == [Idle EXCEPT !.op = "release", !.pc = "claim", !.t = t, !.by = by]
  <2>1. j \in Job /\ j.t = t /\ j.op = "release" /\ j.pc = "claim"
    BY DEF Idle, Job, Ops, Pcs
  <2> QED BY <1>2, <2>1, BeginStep DEF BeginRelease
<1>3. ASSUME NEW op \in {"cancel", "reject"}, Begin(r, op, "claim", t),
             UNCHANGED <<status, expired, dispute, balance, issued, payout, faults, crashes>>
      PROVE  IInv'
  <2> DEFINE j == [Idle EXCEPT !.op = op, !.pc = "claim", !.t = t]
  <2>1. j \in Job /\ j.t = t /\ j.op = op /\ j.pc = "claim"
    BY DEF Idle, Job, Ops, Pcs
  <2> QED BY <1>3, <2>1, BeginStep DEF Begin
<1>4. CASE BeginCancel(r, t) \/ BeginReject(r, t)
  BY <1>3, <1>4 DEF BeginCancel, BeginReject
<1>5. ASSUME NEW op \in Ops \ {"create"}, NEW pc \in {"read", "claim", "write"},
             NEW seen \in DisputeStatus \cup {"None"}, BeginSeeing(r, op, pc, t, seen)
      PROVE  IInv'
  <2> DEFINE j == [Idle EXCEPT !.op = op, !.pc = pc, !.t = t, !.seen = seen]
  <2>1. j \in Job /\ j.t = t /\ j.op = op /\ j.pc = pc
    BY DEF Idle, Job, Pcs
  <2> QED BY <1>5, <2>1, BeginStep DEF BeginSeeing
<1>6. CASE BeginCreateDispute(r, t) \/ BeginCancelDispute(r, t)
           \/ BeginMutualRefund(r, t) \/ BeginResolve(r, t)
  BY <1>5, <1>6 DEF BeginCreateDispute, BeginCancelDispute, BeginMutualRefund,
     BeginResolve, Ops
<1>7. CASE BeginContinue(r, t)
  BY <1>5, <1>7 DEF BeginContinue, Ops, DisputeStatus
<1>8. ASSUME NEW new \in AdminStatuses, BeginUpdateStatus(r, t, new)
      PROVE  IInv'
  BY <1>5, <1>8, EscrowAssumption DEF BeginUpdateStatus, Ops
<1> QED BY <1>1, <1>2, <1>4, <1>6, <1>7, <1>8 DEF Arrive

LEMMA BeginAutoReleaseStep ==
  ASSUME IInv, NEW w \in Jobs, NEW t \in Transfers, BeginAutoRelease(w, t)
  PROVE  IInv'
<1> DEFINE j == [Idle EXCEPT !.op = "auto", !.pc = "claim", !.t = t]
<1>1. j \in Job /\ j.t = t /\ j.op = "auto" /\ j.pc = "claim"
  BY DEF Idle, Job, Ops, Pcs
<1> QED BY <1>1, BeginStep DEF BeginAutoRelease, Begin

LEMMA CreateStep ==
  ASSUME IInv, NEW r \in Jobs,
         DeductForTransfer(r) \/ InsertTransfer(r) \/ LookUpDuplicate(r) \/ RefundDeduction(r)
  PROVE  IInv'
<1> DEFINE t == job[r].t
<1>1. /\ job[r].op = "create" /\ job[r].pc # "idle"
      /\ t \in Transfers /\ Sender[t] \in Users /\ Amount[t] \in Nat
      /\ job[r] \in Job
  BY EscrowAssumption DEF DeductForTransfer, InsertTransfer, LookUpDuplicate,
     RefundDeduction, At, IInv, HasTransfer, TypeOK
<1>2. CASE DeductForTransfer(r)
  <2>1. balance' \in [Users -> Nat]
    BY <1>1, <1>2 DEF DeductForTransfer, IInv, TypeOK
  <2>2. TypeOK'
    BY <2>1, <1>2, MoveType DEF DeductForTransfer, IInv, TypeOK, Pcs
  <2> QED BY <2>2, <1>1, <1>2, MoveStep DEF DeductForTransfer, Pcs
<1>3. CASE InsertTransfer(r)
  <2>1. CASE status' = status
    <3>1. TypeOK'
      BY <2>1, <1>3, MoveType DEF InsertTransfer, IInv, TypeOK, Pcs, Fault
    <3> QED BY <2>1, <3>1, <1>1, <1>3, MoveStep DEF InsertTransfer, Pcs
  <2>2. CASE status' = [status EXCEPT ![t] = "Pending"] /\ Finish(r) /\ UNCHANGED faults
    <3>1. TypeOK'
      BY <2>2, <1>1, <1>3, MoveType DEF InsertTransfer, IInv, TypeOK, TransferStatus
    <3>2. /\ job'[r] = Idle
          /\ \A q \in Jobs \ {r} : job'[q] = job[q]
          /\ payout' = payout /\ issued' = issued
          /\ \A u \in Transfers : status'[u] # status[u] => u = t
          /\ status'[t] = "Pending"
      BY <2>2, <1>1, <1>3 DEF InsertTransfer, Finish, IInv, TypeOK
    <3>3. /\ Creates(r, t) /\ status[t] = "None" /\ t \in issued
          /\ \A q \in Jobs \ {r} : ~Creates(q, t)
      BY <1>1 DEF Creates, IInv, OneCreator
    <3>4. HasTransfer'
      BY <3>2 DEF IInv, HasTransfer, Idle
    <3>5. OneCreator'
      BY <3>2, <3>3 DEF IInv, OneCreator, Creates, Owns, Idle
    <3>6. OneOwner'
      BY <3>2, <3>3 DEF IInv, OneOwner, Owns, Idle, Terminal
    <3>7. OwnerOwes'
      BY <3>2 DEF IInv, OwnerOwes, Owns, Idle
    <3>8. EscrowBacked' /\ NoDoubleSettlement'
      BY <3>2, <3>3, <1>1 DEF IInv, EscrowBacked, NoDoubleSettlement
    <3> QED BY <3>1, <3>4, <3>5, <3>6, <3>7, <3>8 DEF IInv
  <2> QED BY <2>1, <2>2, <1>3 DEF InsertTransfer
<1>4. CASE LookUpDuplicate(r)
  <2>1. TypeOK'
    BY <1>4, MoveType DEF LookUpDuplicate, IInv, TypeOK, Pcs, Fault
  <2> QED BY <2>1, <1>1, <1>4, MoveStep DEF LookUpDuplicate, Pcs
<1>5. CASE RefundDeduction(r)
  <2>1. balance' \in [Users -> Nat]
    BY <1>1, <1>5 DEF RefundDeduction, IInv, TypeOK
  <2>2. TypeOK'
    BY <2>1, <1>5, MoveType DEF RefundDeduction, IInv, TypeOK, Pcs, Fault
  <2> QED BY <2>2, <1>1, <1>5, MoveStep DEF RefundDeduction, Pcs
<1> QED BY <1>2, <1>3, <1>4, <1>5

LEMMA TransferStepInv ==
  ASSUME IInv, NEW r \in Jobs, TransferStep(r)
  PROVE  IInv'
<1>1. job[r].pc # "idle" => /\ job[r].t \in Transfers
                           /\ Amount[job[r].t] \in Nat
                           /\ Amount[job[r].t] - Fee(Amount[job[r].t]) \in Nat
                           /\ Amount[job[r].t] - Fee(Amount[job[r].t]) <= Amount[job[r].t]
  BY EscrowAssumption, FeeBound DEF IInv, HasTransfer
<1>2. CASE DeductForTransfer(r) \/ InsertTransfer(r) \/ LookUpDuplicate(r)
           \/ RefundDeduction(r)
  BY <1>2, CreateStep
<1>3. CASE ClaimRelease(r) \/ ClaimAutoRelease(r)
  <2> DEFINE a == Amount[job[r].t]
  <2>1. /\ job[r].pc = "claim" /\ job[r].op \in {"release", "auto"}
        /\ Claim(r, {"Pending"}, "Released", "pay", 0, a - Fee(a))
    BY <1>3 DEF ClaimRelease, ClaimAutoRelease, At
  <2>2. TypeOK'
    BY <2>1, <1>1, ClaimType DEF TransferStatus, Pcs
  <2> QED BY <2>1, <2>2, <1>1, ClaimFinalStep DEF Terminal
<1>4. CASE ClaimCancel(r)
  <2>1. TypeOK'
    BY <1>1, <1>4, ClaimType DEF ClaimCancel, At, TransferStatus, Pcs
  <2> QED BY <2>1, <1>1, <1>4, ClaimFinalStep DEF ClaimCancel, At, Terminal
<1>5. CASE ClaimReject(r)
  <2>1. TypeOK'
    BY <1>1, <1>5, ClaimType DEF ClaimReject, At, TransferStatus, Pcs
  <2> QED BY <2>1, <1>1, <1>5, ClaimFinalStep DEF ClaimReject, At, Terminal
<1>6. CASE UndoRelease(r) \/ UndoCancel(r) \/ UndoReject(r) \/ UndoAutoRelease(r)
  <2>1. PICK from \in Terminal : job[r].pc = "undo" /\ Rollback(r, from, "Pending")
    BY <1>6 DEF UndoRelease, UndoCancel, UndoReject, UndoAutoRelease, At, Terminal
  <2>2. TypeOK'
    BY <2>1, RollbackType DEF TransferStatus
  <2> QED BY <2>1, <2>2, RollbackStep
<1> QED BY <1>2, <1>3, <1>4, <1>5, <1>6 DEF TransferStep

LEMMA DisputeStepInv ==
  ASSUME IInv, NEW r \in Jobs, DisputeStep(r)
  PROVE  IInv'
<1> DEFINE t == job[r].t
<1>1. job[r].pc # "idle" => t \in Transfers /\ Amount[t] \in Nat
  BY EscrowAssumption DEF IInv, HasTransfer
<1>2. CASE ReadExistingDispute(r) \/ ReadTransferToContinue(r)
           \/ ReadTransferToRefund(r) \/ ReadTransferToResolve(r)
  <2>1. PICK ok : job[r].pc = "read" /\ Reread(r, ok)
    BY <1>2 DEF ReadExistingDispute, ReadTransferToContinue, ReadTransferToRefund,
       ReadTransferToResolve, At
  <2>2. TypeOK'
    BY <2>1, MoveType DEF Reread, IInv, TypeOK, Pcs
  <2> QED BY <2>1, <2>2, MoveStep DEF Reread, Pcs
<1>3. CASE ClaimCreateDispute(r)
  <2>1. TypeOK'
    BY <1>3, ClaimType DEF ClaimCreateDispute, At, TransferStatus, Pcs
  <2> QED BY <2>1, <1>3, ClaimOpenStep DEF ClaimCreateDispute, At
<1>4. CASE ClaimCancelDispute(r) \/ ClaimContinue(r) \/ ClaimNoAction(r)
  <2>1. /\ job[r].pc = "claim" /\ job[r].op # "create"
        /\ Claim(r, {"Disputed"}, "Pending", "close", 0, 0)
    BY <1>4 DEF ClaimCancelDispute, ClaimContinue, ClaimNoAction, At
  <2>2. TypeOK'
    BY <2>1, ClaimType DEF TransferStatus, Pcs
  <2> QED BY <2>1, <2>2, ClaimOpenStep
<1>5. CASE InsertDispute(r)
  <2>1. job[r].pc = "insert" /\ dispute' \in [Transfers -> DisputeStatus \cup {"None"}]
    BY <1>5 DEF InsertDispute, At, IInv, TypeOK, DisputeStatus, ActiveDispute
  <2>2. TypeOK'
    BY <2>1, <1>5, MoveType DEF InsertDispute, IInv, TypeOK, Pcs, Fault
  <2> QED BY <2>1, <2>2, <1>5, MoveStep DEF InsertDispute, Pcs
<1>6. CASE LookUpDispute(r)
  <2>1. TypeOK'
    BY <1>6, MoveType DEF LookUpDispute, IInv, TypeOK, Pcs
  <2> QED BY <2>1, <1>6, MoveStep DEF LookUpDispute, At, Pcs
<1>7. CASE ThawTransfer(r)
  <2>1. job[r].pc = "thaw" /\ Rollback(r, "Disputed", "Pending")
    BY <1>7 DEF ThawTransfer, At
  <2>2. TypeOK'
    BY <2>1, RollbackType DEF TransferStatus
  <2>3. /\ job' = [job EXCEPT ![r] = Idle]
        /\ payout' = payout /\ issued' = issued
        /\ \/ status' = status
           \/ status[t] = "Disputed" /\ status' = [status EXCEPT ![t] = "Pending"]
    BY <2>1 DEF Rollback, Finish
  <2>4. \A u \in Transfers : status'[u] # status[u] =>
            status[u] = "Disputed" /\ status'[u] = "Pending"
    BY <2>1, <2>3, <1>1 DEF IInv, TypeOK
  <2> QED BY SMTT(30), <2>2, <2>3, <2>4, NonOwnerStep DEF Idle, Terminal, IInv, TypeOK
<1>8. CASE Reopen(r)
  <2>1. /\ job[r].pc # "idle" /\ job' = [job EXCEPT ![r] = Idle]
        /\ payout' = payout /\ issued' = issued
        /\ UNCHANGED <<expired, dispute, balance, faults, crashes>>
        /\ \/ status' = status
           \/ status[t] = "Pending" /\ status' = [status EXCEPT ![t] = "Disputed"]
    BY <1>8 DEF Reopen, Finish
  <2>2. TypeOK'
    BY <2>1, IdleJob DEF IInv, TypeOK, TransferStatus
  <2>3. \A u \in Transfers : status'[u] # status[u] =>
            status[u] = "Pending" /\ status'[u] = "Disputed"
    BY <2>1, <1>1 DEF IInv, TypeOK
  <2> QED BY <2>1, <2>2, <2>3, NonOwnerStep DEF Idle, Terminal, IInv, TypeOK
<1>9. CASE CloseCancelDispute(r) \/ CloseContinue(r) \/ CloseMutualRefund(r)
           \/ CloseResolve(r)
  <2>1. ASSUME NEW from, NEW new \in ClosedDispute, NEW pc \in {"idle", "reopen"},
               job[r].pc = "close", CloseDispute(r, from, new, pc)
        PROVE  IInv'
    <3>1. Finish(r) \/ Goto(r, "reopen")
      BY <2>1 DEF CloseDispute
    <3>2. dispute' \in [Transfers -> DisputeStatus \cup {"None"}]
      BY <2>1 DEF CloseDispute, IInv, TypeOK, DisputeStatus
    <3>3. TypeOK'
      BY <2>1, <3>1, <3>2, MoveType DEF CloseDispute, IInv, TypeOK, Pcs
    <3> QED BY <2>1, <3>1, <3>3, MoveStep DEF CloseDispute, Pcs
  <2>2. \/ CloseDispute(r, {"Open"}, "Cancelled", "reopen")
        \/ CloseDispute(r, {job[r].seen}, "Resolved", "reopen")
        \/ CloseDispute(r, ActiveDispute, "Resolved", "idle")
        \/ CloseDispute(r, DisputeStatus, "Resolved", "idle")
    BY <1>9 DEF CloseCancelDispute, CloseContinue, CloseMutualRefund, CloseResolve
  <2>3. job[r].pc = "close"
    BY <1>9 DEF CloseCancelDispute, CloseContinue, CloseMutualRefund, CloseResolve, At
  <2>4. "Cancelled" \in ClosedDispute /\ "Resolved" \in ClosedDispute
    BY DEF ClosedDispute
  <2> QED BY <2>1, <2>2, <2>3, <2>4
<1>10. CASE ClaimMutualRefund(r)
  <2>1. TypeOK'
    BY <1>1, <1>10, ClaimType DEF ClaimMutualRefund, At, TransferStatus, Pcs
  <2> QED BY <2>1, <1>1, <1>10, ClaimFinalStep DEF ClaimMutualRefund, At, Terminal
<1>11. CASE UndoMutualRefund(r)
  <2>1. TypeOK'
    BY <1>11, RollbackType DEF UndoMutualRefund, At, TransferStatus
  <2> QED BY <2>1, <1>11, RollbackStep DEF UndoMutualRefund, At, Terminal
<1>12. ASSUME NEW percent \in SplitPercents, ClaimResolve(r, percent)
       PROVE  IInv'
  <2> DEFINE new == IF ReleaseToReceiver(t, percent) > 0 THEN "Released" ELSE "Cancelled"
  <2>1. /\ job[r].pc = "claim" /\ job[r].op = "resolve"
        /\ Claim(r, {"Disputed"}, new, "pay", RefundToSender(t, percent),
                 ReleaseToReceiver(t, percent))
    BY <1>12 DEF ClaimResolve, At
  <2>2. new \in Terminal /\ new \in TransferStatus
    BY DEF Terminal, TransferStatus
  <2> HIDE DEF new
  <2>3. TypeOK'
    BY <2>1, <2>2, <1>1, SplitBound, ClaimType DEF Pcs
  <2> QED BY <2>1, <2>2, <2>3, <1>1, SplitBound, ClaimFinalStep
<1>13. CASE WriteStatus(r)
  <2>1. job[r].pc = "write" /\ dispute' \in [Transfers -> DisputeStatus \cup {"None"}]
    BY <1>13 DEF WriteStatus, At, IInv, TypeOK, Job
  <2>2. TypeOK'
    BY <2>1, <1>13, MoveType DEF WriteStatus, IInv, TypeOK
  <2> QED BY <2>1, <2>2, <1>13, MoveStep DEF WriteStatus
<1> QED BY <1>2, <1>3, <1>4, <1>5, <1>6, <1>7, <1>8, <1>9, <1>10, <1>11, <1>12, <1>13
        DEF DisputeStep

LEMMA WalletStepInv ==
  ASSUME IInv, NEW r \in Jobs, WalletStep(r)
  PROVE  IInv'
<1> DEFINE t == job[r].t
           j == job[r]
<1>1. /\ j \in Job /\ j.pc = "pay" /\ t \in Transfers /\ Owns(r, t)
      /\ Sender[t] \in Users /\ Receiver[t] \in Users /\ Amount[t] \in Nat
      /\ j.toSender \in Nat /\ j.toReceiver \in Nat
      /\ payout[t].sender \in Nat /\ payout[t].receiver \in Nat
  BY EscrowAssumption DEF WalletStep, PaySender, PayReceiver, PayThrows, IInv, TypeOK,
     HasTransfer, Owns, Job
<1>2. CASE PayThrows(r)
  <2>1. TypeOK'
    BY <1>2, MoveType DEF PayThrows, IInv, TypeOK, Pcs, Fault
  <2>2. CASE j.op = "resolve"
    BY <2>1, <2>2, <1>1, <1>2, MoveStep DEF PayThrows
  <2>3. CASE j.op # "resolve"
    <3>1. /\ job' = [job EXCEPT ![r].pc = "undo"]
          /\ status' = status /\ payout' = payout /\ issued' = issued
      BY <2>3, <1>2 DEF PayThrows, Goto
    <3>2. /\ \A q \in Jobs \ {r} : job'[q] = job[q]
          /\ job'[r].pc = "undo" /\ job'[r].t = t /\ job'[r].op = j.op
          /\ job'[r].toSender = j.toSender /\ job'[r].toReceiver = j.toReceiver
      BY <3>1, <1>1 DEF IInv, TypeOK, Job
    <3>3. \A q \in Jobs, u \in Transfers :
            (Owns(q, u)' <=> Owns(q, u)) /\ (Creates(q, u)' <=> Creates(q, u))
      BY <3>2, <1>1 DEF Owns, Creates
    <3>4. HasTransfer' /\ OneCreator' /\ OneOwner'
      BY <3>1, <3>2, <3>3, <1>1 DEF IInv, HasTransfer, OneCreator, OneOwner
    <3>5. OwnerOwes'
      BY <3>1, <3>2, <3>3, <2>3, <1>1 DEF IInv, OwnerOwes
    <3>6. EscrowBacked' /\ NoDoubleSettlement'
      BY <3>1 DEF IInv, EscrowBacked, NoDoubleSettlement
    <3> QED BY <2>1, <3>4, <3>5, <3>6 DEF IInv
  <2> QED BY <2>2, <2>3
<1>3. ASSUME NEW c \in Job, NEW s \in Nat, NEW v \in Nat,
             payout' \in [Transfers -> [sender : Nat, receiver : Nat]],
             payout'[t].sender = payout[t].sender + s,
             payout'[t].receiver = payout[t].receiver + v,
             \A u \in Transfers \ {t} : payout'[u] = payout[u],
             job' = [job EXCEPT ![r] = c], balance' \in [Users -> Nat],
             UNCHANGED <<status, expired, dispute, issued, faults, crashes>>,
             s + v <= j.toSender + j.toReceiver,
             c.pc \in {"pay", "undo"} =>
                /\ c.t = t /\ c.pc = "pay" /\ c.op = "resolve"
                /\ s + v + c.toSender + c.toReceiver <= j.toSender + j.toReceiver,
             c.pc # "idle" => c.t = t,
             c.op # "create"
      PROVE  IInv'
  <2>1. TypeOK'
    BY <1>1, <1>3 DEF IInv, TypeOK
  <2>2. /\ job'[r] = c
        /\ \A q \in Jobs \ {r} : job'[q] = job[q]
    BY <1>1, <1>3 DEF IInv, TypeOK
  <2>3. \A q \in Jobs \ {r} : ~Owns(q, t)
    BY <1>1 DEF IInv, OneOwner
  <2>4. HasTransfer'
    BY <1>1, <1>3, <2>2 DEF IInv, HasTransfer
  <2>5. OneCreator'
    BY <1>1, <1>3, <2>2 DEF IInv, OneCreator, Creates, Owns
  <2>6. OneOwner'
    BY <1>1, <1>3, <2>2, <2>3 DEF IInv, OneOwner, Owns
  <2>7. payout[t].sender + payout[t].receiver + j.toSender + j.toReceiver <= Amount[t]
    BY <1>1 DEF IInv, OwnerOwes
  <2>8. OwnerOwes'
    <3> SUFFICES ASSUME NEW q \in Jobs, NEW u \in Transfers, Owns(q, u)'
                 PROVE  /\ payout'[u].sender + payout'[u].receiver
                            + job'[q].toSender + job'[q].toReceiver <= Amount[u]
                        /\ job'[q].op # "resolve" =>
                             /\ payout'[u] = Unpaid
                             /\ job'[q].toSender = 0 \/ job'[q].toReceiver = 0
                        /\ job'[q].pc = "undo" => job'[q].op # "resolve"
      BY DEF OwnerOwes
    <3>1. CASE q = r
      <4>1. u = t /\ c.toSender \in Nat /\ c.toReceiver \in Nat /\ c.pc = "pay"
        BY <3>1, <2>2, <1>3 DEF Owns, Job
      <4> QED BY <3>1, <4>1, <2>2, <2>7, <1>1, <1>3 DEF Owns
    <3>2. CASE q # r
      <4>1. Owns(q, u) /\ u # t
        BY <3>2, <2>2, <2>3 DEF Owns
      <4> QED BY <3>2, <4>1, <2>2, <1>3 DEF IInv, OwnerOwes
    <3> QED BY <3>1, <3>2
  <2>9. EscrowBacked'
    BY <1>1, <1>3, <2>2 DEF IInv, EscrowBacked, OneOwner, Terminal
  <2>10. NoDoubleSettlement'
    <3> SUFFICES ASSUME NEW u \in Transfers
                 PROVE  payout'[u].sender + payout'[u].receiver <= Amount[u]
      BY DEF NoDoubleSettlement
    <3>1. CASE u = t
      BY <3>1, <2>2, <2>7, <1>1, <1>3
    <3>2. CASE u # t
      BY <3>2, <1>3 DEF IInv, NoDoubleSettlement
    <3> QED BY <3>1, <3>2
  <2> QED BY <2>1, <2>4, <2>5, <2>6, <2>8, <2>9, <2>10 DEF IInv
<1>4. j.op # "create"
  BY <1>1 DEF IInv, OneCreator, Creates
<1>5. CASE PaySender(r)
  <2> DEFINE k == [j EXCEPT !.toSender = 0]
             c == AfterCredit(k)
  <2>1. /\ k \in Job /\ k.op = j.op /\ k.pc = "pay" /\ k.t = t
        /\ k.toSender = 0 /\ k.toReceiver = j.toReceiver
    BY <1>1 DEF Job
  <2>2. j.toReceiver > 0 => j.op = "resolve"
    BY <1>1, <1>5 DEF PaySender, IInv, OwnerOwes
  <2>3. /\ c \in Job /\ c.op # "create" /\ (c.pc # "idle" => c.t = t)
        /\ c.pc \in {"pay", "undo"} => c = k /\ c.pc = "pay" /\ k.op = "resolve"
    <3> HIDE DEF k
    <3>1. CASE k.toReceiver > 0
      BY <3>1, <2>1, <2>2, <1>1, <1>4 DEF AfterCredit
    <3>2. CASE ~(k.toReceiver > 0) /\ k.op \in {"mutual", "resolve"}
      <4>1. c = [k EXCEPT !.pc = "close"]
        BY <3>2, <2>1, <1>1 DEF AfterCredit
      <4> QED BY <4>1, <2>1, <1>4 DEF Job, Pcs
    <3>3. CASE ~(k.toReceiver > 0) /\ k.op \notin {"mutual", "resolve"}
      <4>1. c = Idle
        BY <3>3, <2>1, <1>1 DEF AfterCredit
      <4> QED BY <4>1, IdleJob DEF Idle
    <3> QED BY <3>1, <3>2, <3>3
  <2>4. /\ payout' \in [Transfers -> [sender : Nat, receiver : Nat]]
        /\ payout'[t].sender = payout[t].sender + j.toSender
        /\ payout'[t].receiver = payout[t].receiver + 0
        /\ \A u \in Transfers \ {t} : payout'[u] = payout[u]
        /\ balance' \in [Users -> Nat]
    BY <1>1, <1>5 DEF PaySender, IInv, TypeOK
  <2>5. job' = [job EXCEPT ![r] = c]
        /\ UNCHANGED <<status, expired, dispute, issued, faults, crashes>>
    BY <1>5 DEF PaySender
  <2> HIDE DEF c, k
  <2>6. /\ j.toSender + 0 <= j.toSender + j.toReceiver
        /\ c.pc \in {"pay", "undo"} =>
             /\ c.t = t /\ c.pc = "pay" /\ c.op = "resolve"
             /\ j.toSender + 0 + c.toSender + c.toReceiver <= j.toSender + j.toReceiver
    BY <2>1, <2>3, <1>1
  <2> HIDE DEF j, t
  <2> QED BY <2>3, <2>4, <2>5, <2>6, <1>1, <1>3
<1>6. CASE PayReceiver(r)
  <2> DEFINE k == [j EXCEPT !.toReceiver = 0]
             c == AfterCredit(k)
  <2>1. k \in Job /\ k.op = j.op /\ k.t = t /\ k.toReceiver = 0
    BY <1>1 DEF Job
  <2>2. c \in Job /\ c.op # "create" /\ (c.pc # "idle" => c.t = t)
        /\ c.pc \notin {"pay", "undo"}
    <3> HIDE DEF k
    <3>1. CASE k.op \in {"mutual", "resolve"}
      <4>1. c = [k EXCEPT !.pc = "close"]
        BY <3>1, <2>1 DEF AfterCredit
      <4> QED BY <4>1, <2>1, <1>4 DEF Job, Pcs
    <3>2. CASE k.op \notin {"mutual", "resolve"}
      <4>1. c = Idle
        BY <3>2, <2>1 DEF AfterCredit
      <4> QED BY <4>1, IdleJob DEF Idle
    <3> QED BY <3>1, <3>2
  <2>3. /\ payout' \in [Transfers -> [sender : Nat, receiver : Nat]]
        /\ payout'[t].sender = payout[t].sender + 0
        /\ payout'[t].receiver = payout[t].receiver + j.toReceiver
        /\ \A u \in Transfers \ {t} : payout'[u] = payout[u]
        /\ balance' \in [Users -> Nat]
    BY <1>1, <1>6 DEF PayReceiver, IInv, TypeOK
  <2>4. job' = [job EXCEPT ![r] = c]
        /\ UNCHANGED <<status, expired, dispute, issued, faults, crashes>>
    BY <1>6 DEF PayReceiver
  <2> HIDE DEF c, k
  <2>5. 0 + j.toReceiver <= j.toSender + j.toReceiver
    BY <1>1
  <2> HIDE DEF j, t
  <2> QED BY <2>2, <2>3, <2>4, <2>5, <1>1, <1>3
<1> QED BY <1>2, <1>5, <1>6 DEF WalletStep

-----------------------------------------------------------------------------
(* The theorems.                                                           *)

\* Every step keeps the inductive invariant.
LEMMA NextInvariant == IInv /\ [Next]_vars => IInv'
<1> SUFFICES ASSUME IInv, [Next]_vars
             PROVE  IInv'
  OBVIOUS
<1>1. ASSUME NEW r \in Requests, NEW t \in Transfers, Arrive(r, t)
      PROVE  IInv'
  BY <1>1, ArriveStep DEF Jobs
<1>2. ASSUME NEW w \in Workers, NEW t \in Transfers, BeginAutoRelease(w, t)
      PROVE  IInv'
  BY <1>2, BeginAutoReleaseStep DEF Jobs
<1>3. ASSUME NEW r \in Jobs, Proceed(r)
      PROVE  IInv'
  BY <1>3, TransferStepInv, DisputeStepInv, WalletStepInv DEF Proceed
<1>4. ASSUME NEW r \in Jobs, CallThrows(r)
      PROVE  IInv'
  <2>1. TypeOK'
    BY <1>4, MoveType DEF CallThrows, Fault, IInv, TypeOK
  <2> QED BY <2>1, <1>4, MoveStep DEF CallThrows
<1>5. ASSUME NEW t \in Transfers, Expire(t)
      PROVE  IInv'
  BY <1>5 DEF Expire, IInv, TypeOK, HasTransfer, OneCreator, OneOwner, OwnerOwes,
     EscrowBacked, NoDoubleSettlement, Owns, Creates
<1>6. CASE Crash
  <2>1. /\ job' = [r \in Jobs |-> Idle] /\ crashes' = crashes + 1
        /\ UNCHANGED <<status, expired, dispute, balance, issued, payout, faults>>
    BY <1>6 DEF Crash
  <2>2. TypeOK'
    BY <2>1, IdleJob DEF IInv, TypeOK
  <2>3. \A r \in Jobs : job'[r].pc = "idle" /\ job'[r].op = "idle"
    BY <2>1 DEF Idle
  <2> QED BY <2>1, <2>2, <2>3 DEF IInv, HasTransfer, OneCreator, OneOwner, OwnerOwes,
          EscrowBacked, NoDoubleSettlement, Owns, Creates
<1>7. CASE UNCHANGED vars
  BY <1>7 DEF vars, IInv, TypeOK, HasTransfer, OneCreator, OneOwner, OwnerOwes,
     EscrowBacked, NoDoubleSettlement, Owns, Creates
<1> QED BY <1>1, <1>2, <1>3, <1>4, <1>5, <1>6, <1>7 DEF Next

\* The inductive invariant holds throughout.
THEOREM Invariant == Spec => []IInv
<1> QED BY InitInvariant, NextInvariant, PTL DEF Spec

\* Type correctness: balances stay natural numbers under any interleaving of
\* deductions and credits, and every handler keeps a well-formed state.
THEOREM TypeCorrect == Spec => []TypeOK
<1>1. IInv => TypeOK
  BY DEF IInv
<1> QED BY <1>1, Invariant, PTL

\* No transfer pays out more than its amount, whatever the interleaving of
\* requests, sweeps and administrators, whatever fails and dies.
THEOREM NeverPaidTwice == Spec => []NoDoubleSettlement
<1>1. IInv => NoDoubleSettlement
  BY DEF IInv
<1> QED BY <1>1, Invariant, PTL

\* A transfer that may still be settled has paid nothing.
THEOREM EscrowIsBacked == Spec => []EscrowBacked
<1>1. IInv => EscrowBacked
  BY DEF IInv
<1> QED BY <1>1, Invariant, PTL

\* A write of the status that leaves an unsettled one, or is made by an owner
\* that has paid nothing, does not touch a paid transfer.
LEMMA ClaimLeavesPaid ==
  ASSUME IInv, NEW r \in Jobs, job[r].pc # "idle",
         NEW from \in SUBSET {"Pending", "Disputed"}, NEW new, NEW pc, NEW a, NEW b,
         Claim(r, from, new, pc, a, b),
         NEW t \in Transfers, payout[t] # Unpaid
  PROVE  status'[t] = status[t]
<1>1. job[r].t \in Transfers
  BY DEF IInv, HasTransfer
<1>2. status[t] \notin {"Pending", "Disputed"}
  BY DEF IInv, EscrowBacked
<1> QED BY <1>1, <1>2 DEF Claim, IInv, TypeOK

LEMMA RollbackLeavesPaid ==
  ASSUME IInv, NEW r \in Jobs,
         NEW from, NEW to,
         job[r].pc = "undo" \/ (job[r].pc = "thaw" /\ from = "Disputed"),
         Rollback(r, from, to),
         NEW t \in Transfers, payout[t] # Unpaid
  PROVE  status'[t] = status[t]
<1>1. job[r].t \in Transfers
  BY DEF IInv, HasTransfer
<1>2. job[r].pc = "undo" => payout[job[r].t] = Unpaid
  BY <1>1 DEF IInv, OwnerOwes, Owns
<1>3. status[t] # "Disputed"
  BY DEF IInv, EscrowBacked
<1> QED BY <1>1, <1>2, <1>3 DEF Rollback, IInv, TypeOK

\* Once money has left a transfer its status is final: no rollback, late claim
\* or reopened dispute of any handler changes it.
THEOREM PaidStatusIsFinal == Spec => PaidIsFinal
<1> DEFINE Stays == \A t \in Transfers : payout[t] # Unpaid => status'[t] = status[t]
<1>1. ASSUME IInv, Next PROVE Stays
  <2> SUFFICES ASSUME NEW t \in Transfers, payout[t] # Unpaid
               PROVE  status'[t] = status[t]
    OBVIOUS
  <2>1. status[t] \notin {"Pending", "Disputed", "None"}
    BY <1>1 DEF IInv, EscrowBacked
  <2>2. CASE status' = status
    BY <2>2
  <2>3. ASSUME NEW r \in Jobs, Proceed(r)
        PROVE  status'[t] = status[t]
    <3>1. CASE ClaimRelease(r) \/ ClaimCancel(r) \/ ClaimReject(r) \/ ClaimAutoRelease(r)
               \/ ClaimCreateDispute(r) \/ ClaimCancelDispute(r) \/ ClaimContinue(r)
               \/ ClaimMutualRefund(r) \/ ClaimNoAction(r)
               \/ \E percent \in SplitPercents : ClaimResolve(r, percent)
      <4>1. job[r].pc # "idle"
        BY <3>1 DEF ClaimRelease, ClaimCancel, ClaimReject, ClaimAutoRelease,
           ClaimCreateDispute, ClaimCancelDispute, ClaimContinue, ClaimMutualRefund,
           ClaimNoAction, ClaimResolve, At
      <4>2. \E from \in SUBSET {"Pending", "Disputed"} : \E new, pc, a, b :
              Claim(r, from, new, pc, a, b)
        BY <3>1, Zenon DEF ClaimRelease, ClaimCancel, ClaimReject, ClaimAutoRelease,
           ClaimCreateDispute, ClaimCancelDispute, ClaimContinue, ClaimMutualRefund,
           ClaimNoAction, ClaimResolve
      <4> QED BY <4>1, <4>2, <1>1, ClaimLeavesPaid
    <3>2. CASE UndoRelease(r) \/ UndoCancel(r) \/ UndoReject(r) \/ UndoAutoRelease(r)
               \/ UndoMutualRefund(r) \/ ThawTransfer(r)
      <4>1. \E from, to : /\ job[r].pc = "undo" \/ (job[r].pc = "thaw" /\ from = "Disputed")
                          /\ Rollback(r, from, to)
        BY <3>2, Zenon DEF UndoRelease, UndoCancel, UndoReject, UndoAutoRelease,
           UndoMutualRefund, ThawTransfer, At
      <4> QED BY <4>1, <1>1, RollbackLeavesPaid
    <3>3. CASE InsertTransfer(r)
      <4>1. job[r].t \in Transfers /\ status[job[r].t] = "None"
        BY <3>3, <1>1 DEF InsertTransfer, At, IInv, HasTransfer, OneCreator, Creates
      <4> QED BY <4>1, <3>3, <2>1, <1>1 DEF InsertTransfer, IInv, TypeOK
    <3>4. CASE Reopen(r)
      <4>1. job[r].t \in Transfers
        BY <3>4, <1>1 DEF Reopen, IInv, HasTransfer
      <4> QED BY <4>1, <3>4, <2>1, <1>1 DEF Reopen, IInv, TypeOK
    <3>5. CASE DeductForTransfer(r) \/ LookUpDuplicate(r) \/ RefundDeduction(r)
               \/ InsertDispute(r) \/ LookUpDispute(r) \/ WriteStatus(r)
               \/ WalletStep(r)
      BY <3>5 DEF DeductForTransfer, LookUpDuplicate, RefundDeduction, InsertDispute,
         LookUpDispute, WriteStatus, WalletStep, PaySender, PayReceiver, PayThrows
    <3>6. CASE ReadExistingDispute(r) \/ ReadTransferToContinue(r)
               \/ ReadTransferToRefund(r) \/ ReadTransferToResolve(r)
      BY <3>6 DEF ReadExistingDispute, ReadTransferToContinue, ReadTransferToRefund,
         ReadTransferToResolve, Reread
    <3>7. CASE CloseCancelDispute(r) \/ CloseContinue(r) \/ CloseMutualRefund(r)
               \/ CloseResolve(r)
      BY <3>7 DEF CloseCancelDispute, CloseContinue, CloseMutualRefund, CloseResolve,
         CloseDispute
    <3> QED BY <2>3, <3>1, <3>2, <3>3, <3>4, <3>5, <3>6, <3>7
            DEF Proceed, TransferStep, DisputeStep
  <2>4. ASSUME NEW r \in Requests, NEW u \in Transfers, Arrive(r, u)
        PROVE  status' = status
    BY <2>4 DEF Arrive, BeginCreate, BeginRelease, BeginCancel, BeginReject,
       BeginCreateDispute, BeginCancelDispute, BeginContinue, BeginMutualRefund,
       BeginResolve, BeginUpdateStatus, BeginSeeing
  <2>5. \/ \E r \in Jobs : Proceed(r)
        \/ status' = status
    BY <1>1, <2>4 DEF Next, BeginAutoRelease, CallThrows, Expire, Crash
  <2> QED BY <2>2, <2>3, <2>5
<1>2. ASSUME IInv, [Next]_vars PROVE [Stays]_vars
  BY <1>1, <1>2
<1>3. Spec => []IInv
  BY Invariant
<1> QED BY <1>2, <1>3, PTL DEF Spec, PaidIsFinal

-----------------------------------------------------------------------------
(* While nothing fails, a settled transfer is settled to the last unit.    *)

\* What a handler sees and leaves when neither it nor the others own more or
\* fewer transfers than before, and no status becomes final.
LEMMA BystanderInFull ==
  ASSUME IInv, IInv', OwedInFull, UNCHANGED <<payout, faults, crashes>>,
         NEW r \in Jobs, \A q \in Jobs \ {r} : job'[q] = job[q],
         job[r].pc \notin {"pay", "undo"}, job'[r].pc \notin {"pay", "undo"},
         \A t \in Transfers : status'[t] \in Terminal => status'[t] = status[t]
  PROVE  OwedInFull'
<1> SUFFICES ASSUME faults = 0, crashes = 0 PROVE OwedInFull'
  BY DEF OwedInFull
<1>1. \A q \in Jobs, t \in Transfers : Owns(q, t)' <=> Owns(q, t)
  BY DEF Owns
<1>2. \A q \in Jobs, t \in Transfers : Owns(q, t) => job'[q] = job[q]
  BY DEF Owns
<1>3. \A q \in Jobs : job'[q].pc # "undo"
  BY DEF OwedInFull
<1>4. ASSUME NEW q \in Jobs, NEW t \in Transfers, Owns(q, t)'
      PROVE  InFull(t, payout[t].sender + job[q].toSender,
                       payout[t].receiver + job[q].toReceiver)'
  <2>1. Owns(q, t) /\ job'[q] = job[q]
    BY <1>1, <1>2, <1>4
  <2>2. status'[t] \in Terminal
    BY <1>4 DEF IInv, OneOwner
  <2>3. status'[t] = status[t]
    BY <2>2
  <2>4. InFull(t, payout[t].sender + job[q].toSender,
                  payout[t].receiver + job[q].toReceiver)
    BY <2>1 DEF OwedInFull
  <2> QED BY <2>1, <2>3, <2>4 DEF InFull
<1>5. ASSUME NEW t \in Transfers, status'[t] \in Terminal,
             \A q \in Jobs : ~Owns(q, t)'
      PROVE  InFull(t, payout[t].sender, payout[t].receiver)'
  <2>1. status'[t] = status[t] /\ \A q \in Jobs : ~Owns(q, t)
    BY <1>1, <1>5
  <2>2. InFull(t, payout[t].sender, payout[t].receiver)
    BY <1>5, <2>1 DEF OwedInFull
  <2> QED BY <2>1, <2>2 DEF InFull
<1> QED BY <1>3, <1>4, <1>5 DEF OwedInFull

\* A compare-and-set to a final status that takes on exactly what it leaves.
LEMMA ClaimInFull ==
  ASSUME IInv, IInv', OwedInFull, NEW r \in Jobs, job[r].pc = "claim",
         NEW new \in Terminal, NEW toSender \in Nat, NEW toReceiver \in Nat,
         NEW from \in SUBSET {"Pending", "Disputed"},
         toSender <= Amount[job[r].t],
         toReceiver = (Amount[job[r].t] - toSender) - Fee(Amount[job[r].t] - toSender),
         new # "Released" => toSender = Amount[job[r].t],
         Claim(r, from, new, "pay", toSender, toReceiver)
  PROVE  OwedInFull'
<1>0. PICK t \in Transfers : t = job[r].t
  BY DEF IInv, HasTransfer
<1>1. /\ Amount[t] \in Nat /\ Fee(Amount[t] - toSender) \in Int
      /\ UNCHANGED <<payout, faults, crashes>>
  BY <1>0, EscrowAssumption, FeeBound DEF Claim
<1>2. CASE status' = status /\ job' = [job EXCEPT ![r] = Idle]
  <2>1. job'[r].pc = "idle" /\ \A q \in Jobs \ {r} : job'[q] = job[q]
    BY <1>2 DEF IInv, TypeOK, Idle
  <2> QED BY <1>1, <1>2, <2>1, BystanderInFull
<1>3. CASE /\ status[t] \in {"Pending", "Disputed"}
           /\ status' = [status EXCEPT ![t] = new]
           /\ job' = [job EXCEPT ![r] = [job[r] EXCEPT !.pc = "pay",
                            !.toSender = toSender, !.toReceiver = toReceiver]]
  <2> SUFFICES ASSUME faults = 0, crashes = 0 PROVE OwedInFull'
    BY <1>1 DEF OwedInFull
  <2>1. /\ job'[r].pc = "pay" /\ job'[r].t = t
        /\ job'[r].toSender = toSender /\ job'[r].toReceiver = toReceiver
        /\ \A q \in Jobs \ {r} : job'[q] = job[q]
    BY <1>0, <1>3 DEF IInv, TypeOK, Job
  <2>2. status'[t] = new /\ \A u \in Transfers \ {t} : status'[u] = status[u]
    BY <1>1, <1>3 DEF IInv, TypeOK
  <2>3. payout[t].sender = 0 /\ payout[t].receiver = 0
    BY <1>1, <1>3 DEF IInv, EscrowBacked, Unpaid
  <2>4. \A q \in Jobs : job'[q].pc # "undo"
    BY <2>1 DEF OwedInFull
  <2>5. InFull(t, payout[t].sender + toSender, payout[t].receiver + toReceiver)'
    BY <1>0, <1>1, <2>2, <2>3 DEF InFull
  <2>6. \A q \in Jobs, u \in Transfers : Owns(q, u)' <=> Owns(q, u) \/ (q = r /\ u = t)
    BY <2>1 DEF Owns
  <2>7. ASSUME NEW q \in Jobs, NEW u \in Transfers, Owns(q, u)'
        PROVE  InFull(u, payout[u].sender + job[q].toSender,
                         payout[u].receiver + job[q].toReceiver)'
    <3>1. CASE q = r
      <4>1. u = t
        BY <2>1, <2>7, <3>1 DEF Owns
      <4> QED BY <2>1, <2>5, <3>1, <4>1 DEF InFull
    <3>2. CASE q # r
      <4>1. Owns(q, u) /\ job'[q] = job[q]
        BY <2>1, <2>6, <2>7, <3>2
      <4>2. status[u] \in Terminal
        BY <4>1 DEF IInv, OneOwner
      <4>3. status'[u] = status[u]
        BY <1>3, <2>2, <4>2 DEF Terminal
      <4>4. InFull(u, payout[u].sender + job[q].toSender,
                      payout[u].receiver + job[q].toReceiver)
        BY <4>1 DEF OwedInFull
      <4> QED BY <1>1, <4>1, <4>3, <4>4 DEF InFull
    <3> QED BY <3>1, <3>2
  <2>8. ASSUME NEW u \in Transfers, status'[u] \in Terminal,
               \A q \in Jobs : ~Owns(q, u)'
        PROVE  InFull(u, payout[u].sender, payout[u].receiver)'
    <3>1. u # t /\ \A q \in Jobs : ~Owns(q, u)
      BY <2>6, <2>8
    <3>2. status'[u] = status[u]
      BY <2>2, <3>1
    <3>3. InFull(u, payout[u].sender, payout[u].receiver)
      BY <2>8, <3>1, <3>2 DEF OwedInFull
    <3> QED BY <1>1, <3>2, <3>3 DEF InFull
  <2> QED BY <2>4, <2>7, <2>8 DEF OwedInFull
<1> QED BY <1>0, <1>2, <1>3 DEF Claim, Finish


\* After a credit the handler is still paying the rest, or has left the
\* transfer with nothing owed.
LEMMA AfterCreditOwes ==
  ASSUME NEW k \in Job, k.pc = "pay"
  PROVE  LET c == AfterCredit(k)
         IN  \/ c = k
             \/ c.pc \notin {"pay", "undo"} /\ k.toReceiver = 0
<1>1. k.toReceiver \in Nat
  BY DEF Job
<1>2. CASE k.toReceiver > 0
  BY <1>1, <1>2 DEF AfterCredit
<1>3. CASE ~(k.toReceiver > 0) /\ k.op \in {"mutual", "resolve"}
  <2>1. AfterCredit(k) = [k EXCEPT !.pc = "close"] /\ k.toReceiver = 0
    BY <1>1, <1>3 DEF AfterCredit
  <2> QED BY <2>1 DEF Job
<1>4. CASE ~(k.toReceiver > 0) /\ k.op \notin {"mutual", "resolve"}
  <2>1. AfterCredit(k) = Idle /\ k.toReceiver = 0
    BY <1>1, <1>4 DEF AfterCredit
  <2> QED BY <2>1 DEF Idle
<1> QED BY <1>2, <1>3, <1>4

\* A credit moves a sum from what is owed to what is paid.
LEMMA CreditInFull ==
  ASSUME IInv, OwedInFull, NEW r \in Jobs, PaySender(r) \/ PayReceiver(r)
  PROVE  OwedInFull'
<1>0. PICK t \in Transfers : t = job[r].t
  BY DEF PaySender, PayReceiver, IInv, HasTransfer
<1>1. /\ job[r] \in Job /\ job[r].pc = "pay" /\ Owns(r, t)
      /\ job[r].toSender \in Nat /\ job[r].toReceiver \in Nat
      /\ payout[t].sender \in Nat /\ payout[t].receiver \in Nat
      /\ UNCHANGED <<status, faults, crashes>>
  BY <1>0 DEF PaySender, PayReceiver, IInv, TypeOK, Owns, Job
<1> SUFFICES ASSUME faults = 0, crashes = 0 PROVE OwedInFull'
  BY <1>1 DEF OwedInFull
<1>2. /\ \A q \in Jobs \ {r} : job'[q] = job[q] /\ ~Owns(q, t)
      /\ \A u \in Transfers \ {t} : payout'[u] = payout[u]
  BY <1>0, <1>1 DEF PaySender, PayReceiver, IInv, TypeOK, OneOwner
<1>3. InFull(t, payout[t].sender + job[r].toSender, payout[t].receiver + job[r].toReceiver)
  BY <1>1 DEF OwedInFull
<1>4. \/ /\ job'[r].pc = "pay" /\ job'[r].t = t
         /\ payout'[t].sender + job'[r].toSender = payout[t].sender + job[r].toSender
         /\ payout'[t].receiver + job'[r].toReceiver
              = payout[t].receiver + job[r].toReceiver
      \/ /\ job'[r].pc \notin {"pay", "undo"}
         /\ payout'[t].sender = payout[t].sender + job[r].toSender
         /\ payout'[t].receiver = payout[t].receiver + job[r].toReceiver
  <2>1. CASE PaySender(r)
    <3>1. PICK k \in Job : k = [job[r] EXCEPT !.toSender = 0]
      BY <1>1 DEF Job
    <3>2. /\ k.toSender = 0 /\ k.toReceiver = job[r].toReceiver /\ k.pc = "pay" /\ k.t = t
      BY <1>0, <1>1, <3>1 DEF Job
    <3>3. /\ job'[r] = AfterCredit(k)
          /\ payout'[t].sender = payout[t].sender + job[r].toSender
          /\ payout'[t].receiver = payout[t].receiver
      BY <1>0, <2>1, <3>1 DEF PaySender, IInv, TypeOK
    <3>4. job'[r] = k \/ (job'[r].pc \notin {"pay", "undo"} /\ k.toReceiver = 0)
      BY <3>2, <3>3, AfterCreditOwes
    <3> QED BY <1>1, <3>2, <3>3, <3>4
  <2>2. CASE PayReceiver(r)
    <3>1. PICK k \in Job : k = [job[r] EXCEPT !.toReceiver = 0]
      BY <1>1 DEF Job
    <3>2. /\ k.toSender = 0 /\ k.toReceiver = 0 /\ k.pc = "pay" /\ k.t = t
          /\ job[r].toSender = 0
      BY <1>0, <1>1, <2>2, <3>1 DEF Job, PayReceiver
    <3>3. /\ job'[r] = AfterCredit(k)
          /\ payout'[t].sender = payout[t].sender
          /\ payout'[t].receiver = payout[t].receiver + job[r].toReceiver
      BY <1>0, <2>2, <3>1 DEF PayReceiver, IInv, TypeOK
    <3>4. job'[r] = k \/ job'[r].pc \notin {"pay", "undo"}
      BY <3>2, <3>3, AfterCreditOwes
    <3> QED BY <1>1, <3>2, <3>3, <3>4
  <2> QED BY <2>1, <2>2
<1>5. \A q \in Jobs : job'[q].pc # "undo"
  BY <1>2, <1>4 DEF OwedInFull
<1>6. ASSUME NEW q \in Jobs, NEW u \in Transfers, Owns(q, u)'
      PROVE  InFull(u, payout[u].sender + job[q].toSender,
                       payout[u].receiver + job[q].toReceiver)'
  <2>1. CASE q = r
    <3>1. job'[r].pc \in {"pay", "undo"} /\ job'[r].t = u
      BY <1>6, <2>1 DEF Owns
    <3> QED BY <1>1, <1>3, <1>4, <2>1, <3>1 DEF InFull
  <2>2. CASE q # r
    <3>1. Owns(q, u) /\ u # t /\ job'[q] = job[q]
      BY <1>2, <1>6, <2>2 DEF Owns
    <3>2. InFull(u, payout[u].sender + job[q].toSender,
                    payout[u].receiver + job[q].toReceiver)
      BY <3>1 DEF OwedInFull
    <3> QED BY <1>1, <1>2, <3>1, <3>2 DEF InFull
  <2> QED BY <2>1, <2>2
<1>7. ASSUME NEW u \in Transfers, status'[u] \in Terminal,
             \A q \in Jobs : ~Owns(q, u)'
      PROVE  InFull(u, payout[u].sender, payout[u].receiver)'
  <2>1. CASE u = t
    <3>1. ~(job'[r].pc = "pay" /\ job'[r].t = t)
      BY <1>7, <2>1 DEF Owns
    <3> QED BY <1>1, <1>3, <1>4, <2>1, <3>1 DEF InFull
  <2>2. CASE u # t
    <3>1. \A q \in Jobs : ~Owns(q, u)
      BY <1>0, <1>2, <1>7, <2>2 DEF Owns
    <3>2. InFull(u, payout[u].sender, payout[u].receiver)
      BY <1>1, <1>7, <3>1 DEF OwedInFull
    <3> QED BY <1>1, <1>2, <2>2, <3>2 DEF InFull
  <2> QED BY <2>1, <2>2
<1> QED BY <1>5, <1>6, <1>7 DEF OwedInFull


\* A share of the amount, and what is released of the rest, are all of it.
LEMMA SplitInFull ==
  ASSUME NEW t \in Transfers, NEW percent \in SplitPercents
  PROVE  /\ RefundToSender(t, percent) <= Amount[t]
         /\ ReleaseToReceiver(t, percent)
              = (Amount[t] - RefundToSender(t, percent))
                  - Fee(Amount[t] - RefundToSender(t, percent))
         /\ ~(ReleaseToReceiver(t, percent) > 0) => RefundToSender(t, percent) = Amount[t]
<1>1. /\ RefundToSender(t, percent) \in Nat /\ Amount[t] \in Nat
      /\ RefundToSender(t, percent) <= Amount[t]
  BY SplitBound, EscrowAssumption
<1>2. PICK rest \in Nat : rest = Amount[t] - RefundToSender(t, percent)
  BY <1>1
<1>3. rest > 0 => rest - Fee(rest) > 0
  BY DEF Fee
<1> QED BY <1>1, <1>2, <1>3 DEF ReleaseToReceiver

\* A handler moves on or ends, and no status becomes final.
LEMMA MoveInFull ==
  ASSUME IInv, IInv', OwedInFull, NEW r \in Jobs, job[r].pc \notin {"pay", "undo"},
         Finish(r) \/ \E pc \in Pcs \ {"pay", "undo"} : Goto(r, pc),
         UNCHANGED <<payout, faults, crashes>>,
         \A t \in Transfers : status'[t] \in Terminal => status'[t] = status[t]
  PROVE  OwedInFull'
<1>1. /\ \A q \in Jobs \ {r} : job'[q] = job[q]
      /\ job'[r].pc \notin {"pay", "undo"}
  BY DEF Finish, Goto, Idle, IInv, TypeOK, Job
<1> QED BY <1>1, BystanderInFull

\* A write of the status that leaves the transfer unsettled.
LEMMA ClaimOpenInFull ==
  ASSUME IInv, IInv', OwedInFull, NEW r \in Jobs, job[r].pc = "claim",
         NEW new \in {"Pending", "Disputed"}, NEW pc \in {"close", "insert"}, NEW from,
         Claim(r, from, new, pc, 0, 0)
  PROVE  OwedInFull'
<1>1. job[r].t \in Transfers
  BY DEF IInv, HasTransfer
<1>2. /\ \A t \in Transfers : status'[t] \in Terminal => status'[t] = status[t]
      /\ UNCHANGED <<payout, faults, crashes>>
  BY <1>1 DEF Claim, IInv, TypeOK, Terminal
<1>3. \/ job' = [job EXCEPT ![r] = Idle]
      \/ job' = [job EXCEPT ![r] = [job[r] EXCEPT !.pc = pc, !.toSender = 0,
                                                  !.toReceiver = 0]]
  BY DEF Claim, Finish
<1>4. \A q \in Jobs \ {r} : job'[q] = job[q]
  BY <1>3 DEF IInv, TypeOK
<1>5. Idle.pc = "idle" /\ [job[r] EXCEPT !.pc = pc, !.toSender = 0, !.toReceiver = 0].pc = pc
  BY DEF Idle, IInv, TypeOK, Job
<1>6. job'[r].pc \in {"idle", pc}
  BY <1>3, <1>5 DEF IInv, TypeOK
<1> QED BY <1>2, <1>4, <1>6, BystanderInFull

\* A request or the sweep begins.
LEMMA BeginInFull ==
  ASSUME IInv, IInv', OwedInFull, NEW r \in Jobs, job[r] = Idle, NEW j,
         j.pc \notin {"pay", "undo"}, job' = [job EXCEPT ![r] = j],
         UNCHANGED <<status, payout, faults, crashes>>
  PROVE  OwedInFull'
<1>1. \A q \in Jobs \ {r} : job'[q] = job[q]
  BY DEF IInv, TypeOK, Idle
<1>2. job[r].pc = "idle" /\ job'[r] = j
  BY DEF IInv, TypeOK, Idle
<1> QED BY <1>1, <1>2, BystanderInFull

LEMMA TransferStepInFull ==
  ASSUME IInv, IInv', OwedInFull, faults' = 0, crashes' = 0,
         NEW r \in Jobs, TransferStep(r)
  PROVE  OwedInFull'
<1>0. ~Fault
  BY DEF Fault, IInv, TypeOK
<1>1. job[r].pc # "idle" => /\ job[r].t \in Transfers
                           /\ Amount[job[r].t] \in Nat
                           /\ Amount[job[r].t] - Fee(Amount[job[r].t]) \in Nat
  BY EscrowAssumption, FeeBound DEF IInv, HasTransfer
<1>2. CASE DeductForTransfer(r) \/ LookUpDuplicate(r) \/ RefundDeduction(r)
  <2>1. /\ Finish(r) \/ \E pc \in {"insert", "refundTwice", "refundOnce"} : Goto(r, pc)
        /\ UNCHANGED <<payout, faults, crashes, status>>
        /\ job[r].pc \notin {"pay", "undo"}
    BY <1>0, <1>2 DEF DeductForTransfer, LookUpDuplicate, RefundDeduction, At
  <2> QED BY <2>1, MoveInFull DEF Pcs
<1>3. CASE InsertTransfer(r)
  <2>1. /\ Finish(r) \/ Goto(r, "duplicate")
        /\ UNCHANGED <<payout, faults, crashes>>
        /\ status' = status \/ status' = [status EXCEPT ![job[r].t] = "Pending"]
        /\ job[r].pc = "insert"
    BY <1>0, <1>3 DEF InsertTransfer, At
  <2>2. \A t \in Transfers : status'[t] \in Terminal => status'[t] = status[t]
    BY <1>1, <2>1 DEF IInv, TypeOK, Terminal
  <2> QED BY <2>1, <2>2, MoveInFull DEF Pcs
<1>4. CASE ClaimRelease(r) \/ ClaimAutoRelease(r)
  <2> DEFINE a == Amount[job[r].t]
  <2>1. /\ job[r].pc = "claim"
        /\ Claim(r, {"Pending"}, "Released", "pay", 0, a - Fee(a))
    BY <1>4 DEF ClaimRelease, ClaimAutoRelease, At
  <2>2. a \in Nat /\ a - Fee(a) \in Nat /\ a - 0 = a
    BY <1>1, <2>1
  <2> QED BY <2>1, <2>2, ClaimInFull DEF Terminal
<1>5. CASE ClaimCancel(r) \/ ClaimReject(r)
  <2> DEFINE a == Amount[job[r].t]
  <2>1. PICK from \in SUBSET {"Pending", "Disputed"}, new \in {"Cancelled", "Rejected"} :
          job[r].pc = "claim" /\ Claim(r, from, new, "pay", a, 0)
    BY <1>5 DEF ClaimCancel, ClaimReject, At
  <2>2. a \in Nat /\ 0 = (a - a) - Fee(a - a)
    BY <1>1, <2>1 DEF Fee
  <2> QED BY <2>1, <2>2, ClaimInFull DEF Terminal
<1>6. CASE UndoRelease(r) \/ UndoCancel(r) \/ UndoReject(r) \/ UndoAutoRelease(r)
  <2>1. /\ job[r].pc = "undo" /\ UNCHANGED <<faults, crashes>>
    BY <1>0, <1>6 DEF UndoRelease, UndoCancel, UndoReject, UndoAutoRelease, At, Rollback
  <2> QED BY <2>1 DEF OwedInFull
<1> QED BY <1>2, <1>3, <1>4, <1>5, <1>6 DEF TransferStep

LEMMA DisputeStepInFull ==
  ASSUME IInv, IInv', OwedInFull, faults' = 0, crashes' = 0,
         NEW r \in Jobs, DisputeStep(r)
  PROVE  OwedInFull'
<1>0. ~Fault
  BY DEF Fault, IInv, TypeOK
<1>1. job[r].pc # "idle" => job[r].t \in Transfers /\ Amount[job[r].t] \in Nat
  BY EscrowAssumption DEF IInv, HasTransfer
<1>2. CASE ReadExistingDispute(r) \/ ReadTransferToContinue(r)
           \/ ReadTransferToRefund(r) \/ ReadTransferToResolve(r)
  <2>1. PICK ok : job[r].pc = "read" /\ Reread(r, ok)
    BY <1>2 DEF ReadExistingDispute, ReadTransferToContinue, ReadTransferToRefund,
       ReadTransferToResolve, At
  <2>2. (Finish(r) \/ Goto(r, "claim")) /\ UNCHANGED <<payout, faults, crashes, status>>
    BY <2>1 DEF Reread
  <2> QED BY <2>1, <2>2, MoveInFull DEF Pcs
<1>3. CASE ClaimCreateDispute(r) \/ ClaimCancelDispute(r) \/ ClaimContinue(r)
           \/ ClaimNoAction(r)
  <2>1. /\ job[r].pc = "claim"
        /\ \/ Claim(r, {"Pending"}, "Disputed", "insert", 0, 0)
           \/ Claim(r, {"Disputed"}, "Pending", "close", 0, 0)
    BY <1>3 DEF ClaimCreateDispute, ClaimCancelDispute, ClaimContinue, ClaimNoAction, At
  <2> QED BY <2>1, ClaimOpenInFull
<1>4. CASE InsertDispute(r) \/ LookUpDispute(r) \/ WriteStatus(r)
  <2>1. /\ Finish(r) \/ Goto(r, "thaw")
        /\ UNCHANGED <<payout, faults, crashes, status>>
        /\ job[r].pc \notin {"pay", "undo"}
    BY <1>0, <1>4 DEF InsertDispute, LookUpDispute, WriteStatus, At
  <2> QED BY <2>1, MoveInFull DEF Pcs
<1>5. CASE ThawTransfer(r) \/ Reopen(r)
  <2>1. /\ job[r].pc \in {"thaw", "reopen"} /\ Finish(r)
        /\ UNCHANGED <<payout, faults, crashes>>
        /\ \/ status' = status
           \/ \E new \in {"Pending", "Disputed"} :
                 status' = [status EXCEPT ![job[r].t] = new]
    BY <1>0, <1>5 DEF ThawTransfer, Reopen, Rollback, At
  <2>2. \A t \in Transfers : status'[t] \in Terminal => status'[t] = status[t]
    BY <1>1, <2>1 DEF IInv, TypeOK, Terminal
  <2> QED BY <2>1, <2>2, MoveInFull
<1>6. CASE CloseCancelDispute(r) \/ CloseContinue(r) \/ CloseMutualRefund(r)
           \/ CloseResolve(r)
  <2>1. /\ job[r].pc = "close" /\ (Finish(r) \/ Goto(r, "reopen"))
        /\ UNCHANGED <<payout, faults, crashes, status>>
    BY <1>6 DEF CloseCancelDispute, CloseContinue, CloseMutualRefund, CloseResolve,
       CloseDispute, At
  <2> QED BY <2>1, MoveInFull DEF Pcs
<1>7. CASE ClaimMutualRefund(r)
  <2> DEFINE a == Amount[job[r].t]
  <2>1. job[r].pc = "claim" /\ Claim(r, {"Disputed"}, "Cancelled", "pay", a, 0)
    BY <1>7 DEF ClaimMutualRefund, At
  <2>2. a \in Nat /\ 0 = (a - a) - Fee(a - a)
    BY <1>1, <2>1 DEF Fee
  <2> QED BY <2>1, <2>2, ClaimInFull DEF Terminal
<1>8. CASE UndoMutualRefund(r)
  <2>1. /\ job[r].pc = "undo" /\ UNCHANGED <<faults, crashes>>
    BY <1>0, <1>8 DEF UndoMutualRefund, At, Rollback
  <2> QED BY <2>1 DEF OwedInFull
<1>9. ASSUME NEW percent \in SplitPercents, ClaimResolve(r, percent)
      PROVE  OwedInFull'
  <2>1. PICK t \in Transfers : t = job[r].t
    BY <1>1, <1>9 DEF ClaimResolve, At
  <2>2. PICK new \in Terminal :
          /\ new = IF ReleaseToReceiver(t, percent) > 0 THEN "Released" ELSE "Cancelled"
          /\ Claim(r, {"Disputed"}, new, "pay", RefundToSender(t, percent),
                   ReleaseToReceiver(t, percent))
          /\ job[r].pc = "claim"
    BY <1>9, <2>1 DEF ClaimResolve, At, Terminal
  <2>3. new # "Released" => ~(ReleaseToReceiver(t, percent) > 0)
    BY <2>2
  <2> QED BY <2>1, <2>2, <2>3, SplitBound, SplitInFull, ClaimInFull
<1> QED BY <1>2, <1>3, <1>4, <1>5, <1>6, <1>7, <1>8, <1>9 DEF DisputeStep

LEMMA ArriveInFull ==
  ASSUME IInv, IInv', OwedInFull, NEW r \in Jobs, NEW t \in Transfers,
         Arrive(r, t) \/ BeginAutoRelease(r, t)
  PROVE  OwedInFull'
<1>1. ASSUME NEW op, NEW pc \in {"claim", "deduct"}, Begin(r, op, pc, t),
             UNCHANGED <<status, payout, faults, crashes>>
      PROVE  OwedInFull'
  <2>1. [Idle EXCEPT !.op = op, !.pc = pc, !.t = t].pc = pc
    BY DEF Idle
  <2> QED BY <1>1, <2>1, BeginInFull DEF Begin
<1>2. ASSUME NEW op, NEW pc \in {"read", "claim", "write"}, NEW seen,
             BeginSeeing(r, op, pc, t, seen)
      PROVE  OwedInFull'
  <2>1. [Idle EXCEPT !.op = op, !.pc = pc, !.t = t, !.seen = seen].pc = pc
    BY DEF Idle
  <2> QED BY <1>2, <2>1, BeginInFull DEF BeginSeeing
<1>3. ASSUME NEW by, BeginRelease(r, t, by)
      PROVE  OwedInFull'
  <2>1. [Idle EXCEPT !.op = "release", !.pc = "claim", !.t = t, !.by = by].pc = "claim"
    BY DEF Idle
  <2> QED BY <1>3, <2>1, BeginInFull DEF BeginRelease
<1>4. CASE BeginCreate(r, t) \/ BeginCancel(r, t) \/ BeginReject(r, t)
           \/ BeginAutoRelease(r, t)
  BY <1>1, <1>4 DEF BeginCreate, BeginCancel, BeginReject, BeginAutoRelease
<1>5. CASE \/ BeginCreateDispute(r, t) \/ BeginCancelDispute(r, t) \/ BeginContinue(r, t)
           \/ BeginMutualRefund(r, t) \/ BeginResolve(r, t)
           \/ \E new \in AdminStatuses : BeginUpdateStatus(r, t, new)
  BY <1>2, <1>5 DEF BeginCreateDispute, BeginCancelDispute, BeginContinue,
     BeginMutualRefund, BeginResolve, BeginUpdateStatus
<1> QED BY <1>3, <1>4, <1>5 DEF Arrive


\* Every step keeps paid and owed together the whole of each transfer.
LEMMA NextInFull ==
  ASSUME IInv, IInv', OwedInFull, [Next]_vars
  PROVE  OwedInFull'
<1> SUFFICES ASSUME faults' = 0, crashes' = 0 PROVE OwedInFull'
  BY DEF OwedInFull
<1>0. ~Fault
  BY DEF Fault, IInv, TypeOK
<1>1. ASSUME NEW r \in Requests, NEW t \in Transfers, Arrive(r, t)
      PROVE  OwedInFull'
  BY <1>1, ArriveInFull DEF Jobs
<1>2. ASSUME NEW w \in Workers, NEW t \in Transfers, BeginAutoRelease(w, t)
      PROVE  OwedInFull'
  BY <1>2, ArriveInFull DEF Jobs
<1>3. ASSUME NEW r \in Jobs, Proceed(r)
      PROVE  OwedInFull'
  <2>1. ~PayThrows(r)
    BY <1>0 DEF PayThrows
  <2> QED BY <1>3, <2>1, TransferStepInFull, DisputeStepInFull, CreditInFull
          DEF Proceed, WalletStep
<1>4. ASSUME NEW r \in Jobs, CallThrows(r)
      PROVE  FALSE
  BY <1>0, <1>4 DEF CallThrows
<1>5. ASSUME NEW t \in Transfers, Expire(t)
      PROVE  OwedInFull'
  BY <1>5 DEF Expire, OwedInFull, InFull, Owns
<1>6. ~Crash
  BY DEF Crash, IInv, TypeOK
<1>7. CASE UNCHANGED vars
  BY <1>7 DEF vars, OwedInFull, InFull, Owns
<1> QED BY <1>1, <1>2, <1>3, <1>4, <1>5, <1>6, <1>7 DEF Next

\* While no call fails and no process dies, every transfer that has reached a
\* final status and that no handler holds has paid out its amount to the last
\* unit, whichever handlers met over it: a refund whole, a release less the
\* truncated fee, a resolution in the administrator's shares.
THEOREM SettlementIsFull == Spec => []SettledInFull
<1>1. Init => OwedInFull
  BY DEF Init, OwedInFull, Owns, Idle, Terminal
<1>2. IInv /\ IInv' /\ OwedInFull /\ [Next]_vars => OwedInFull'
  BY NextInFull
<1>3. OwedInFull => SettledInFull
  <2> SUFFICES ASSUME OwedInFull, faults = 0, crashes = 0, NEW t \in Transfers,
                      status[t] \in Terminal, Settling(t) = {}
               PROVE  InFull(t, payout[t].sender, payout[t].receiver)
    BY DEF SettledInFull
  <2>1. \A r \in Jobs : ~Owns(r, t)
    BY DEF Settling, Owns
  <2> QED BY <2>1 DEF OwedInFull
<1> QED BY <1>1, <1>2, <1>3, Invariant, PTL DEF Spec



-----------------------------------------------------------------------------
(* The money of all wallets and transfers together.                        *)

\* The effect of a step on the money: none; an amount d from a transfer to a
\* wallet, or back; or a deduction that nobody holds any more, which only a
\* crash or the failures that NoLoss excludes leave behind.
Same == balance' = balance /\ \A t \in Transfers : InEscrow(t)' = InEscrow(t)

Moves(u, t, d) ==
    /\ balance' = [balance EXCEPT ![u] = @ + d]
    /\ InEscrow(t)' = InEscrow(t) - d
    /\ \A v \in Transfers \ {t} : InEscrow(v)' = InEscrow(v)

Drops ==
    /\ balance' = balance
    /\ \A t \in Transfers : InEscrow(t)' <= InEscrow(t)
    /\ crashes' > 0 \/ ~NoLoss'

MoneyStep == Same \/ Drops \/ \E u \in Users, t \in Transfers, d \in Int : Moves(u, t, d)

\* The handler holds no deduction.
Unheld(j) ==
    j.op = "create" => j.pc \notin {"insert", "duplicate", "refundTwice", "refundOnce"}

\* No transfer comes into being or disappears.
SameTransfers ==
    \A t \in Transfers : status'[t] = status[t] \/ (status[t] # "None" /\ status'[t] # "None")

\* What is in escrow for a transfer is a natural number, of its amount at most.
LEMMA InEscrowNat ==
  ASSUME IInv
  PROVE  \A t \in Transfers : InEscrow(t) \in Nat
<1> SUFFICES ASSUME NEW t \in Transfers PROVE InEscrow(t) \in Nat
  OBVIOUS
<1>1. /\ Amount[t] \in Nat /\ payout[t].sender \in Nat /\ payout[t].receiver \in Nat
      /\ payout[t].sender + payout[t].receiver <= Amount[t]
  BY EscrowAssumption DEF IInv, TypeOK, NoDoubleSettlement
<1> QED BY <1>1 DEF InEscrow

LEMMA EscrowNatNext ==
  ASSUME IInv'
  PROVE  \A t \in Transfers : InEscrow(t)' \in Nat
<1> SUFFICES ASSUME NEW t \in Transfers PROVE InEscrow(t)' \in Nat
  OBVIOUS
<1>1. /\ Amount[t] \in Nat /\ payout'[t].sender \in Nat /\ payout'[t].receiver \in Nat
      /\ payout'[t].sender + payout'[t].receiver <= Amount[t]
  BY EscrowAssumption DEF IInv, TypeOK, NoDoubleSettlement
<1> QED BY <1>1 DEF InEscrow

\* A step of a handler that holds no deduction, and credits nothing.
LEMMA Bystander ==
  ASSUME IInv, RefundsExplained, NEW r \in Jobs,
         \A q \in Jobs \ {r} : job'[q] = job[q],
         Unheld(job[r]), Unheld(job'[r]),
         UNCHANGED <<balance, payout>>, SameTransfers, faults' \in {faults, faults + 1}
  PROVE  MoneyStep /\ RefundsExplained'
<1>1. \A q \in Jobs, t \in Transfers : Holds(q, t)' <=> Holds(q, t)
  BY DEF Holds, Creates, Unheld
<1>2. \A t \in Transfers : InEscrow(t)' = InEscrow(t)
  BY <1>1 DEF InEscrow, SameTransfers
<1>3. RefundsExplained'
  BY DEF RefundsExplained, Unheld, IInv, TypeOK
<1> QED BY <1>2, <1>3 DEF MoneyStep, Same

\* The handler neither is about to deduct nor holds a deduction.
Passive(j) == Unheld(j) /\ ~(j.op = "create" /\ j.pc = "deduct")

\* A step of a handler that moves no money.
Passes(r) ==
    /\ \A q \in Jobs \ {r} : job'[q] = job[q]
    /\ Passive(job[r]) /\ Passive(job'[r])
    /\ UNCHANGED <<balance, payout, issued, crashes>>
    /\ SameTransfers
    /\ faults' \in {faults, faults + 1}

\* A handler other than CreateTransferAsync moves on or ends.
LEMMA MovePasses ==
  ASSUME IInv, NEW r \in Jobs, Passive(job[r]),
         \/ Finish(r)
         \/ \E pc \in Pcs : Goto(r, pc) /\ (job[r].op # "create" \/ pc \in {"undo", "reopen"}),
         UNCHANGED <<balance, payout, issued, crashes>>, SameTransfers,
         faults' \in {faults, faults + 1}
  PROVE  Passes(r)
<1>1. CASE Finish(r)
  <2>1. /\ \A q \in Jobs \ {r} : job'[q] = job[q]
        /\ Passive(job'[r])
    BY <1>1 DEF Finish, Idle, Unheld, Passive, IInv, TypeOK
  <2> QED BY <2>1 DEF Passes
<1>2. ASSUME NEW pc \in Pcs, Goto(r, pc), job[r].op # "create" \/ pc \in {"undo", "reopen"}
      PROVE  Passes(r)
  <2>1. /\ \A q \in Jobs \ {r} : job'[q] = job[q]
        /\ Passive(job'[r])
    BY <1>2 DEF Goto, Unheld, Passive, IInv, TypeOK, Job
  <2> QED BY <2>1 DEF Passes
<1> QED BY <1>1, <1>2

\* A claim.
LEMMA ClaimPasses ==
  ASSUME IInv, NEW r \in Jobs, job[r].op # "create", job[r].pc # "idle",
         NEW from \in SUBSET TransferStatus, NEW new \in TransferStatus, NEW pc, NEW s, NEW v,
         Claim(r, from, new, pc, s, v)
  PROVE  Passes(r)
<1>1. /\ \A q \in Jobs \ {r} : job'[q] = job[q]
      /\ job'[r].op # "create"
      /\ UNCHANGED <<balance, payout, issued, faults, crashes>>
  <2>1. UNCHANGED <<balance, payout, issued, faults, crashes>>
    BY DEF Claim
  <2>2. CASE Finish(r)
    BY <2>1, <2>2 DEF Finish, Idle, IInv, TypeOK
  <2>3. CASE job' = [job EXCEPT ![r] = [job[r] EXCEPT !.pc = pc, !.toSender = s,
                                                      !.toReceiver = v]]
    <3>1. [job[r] EXCEPT !.pc = pc, !.toSender = s, !.toReceiver = v].op = job[r].op
      BY DEF IInv, TypeOK, Job
    <3> QED BY <2>1, <2>3, <3>1 DEF IInv, TypeOK
  <2> QED BY <2>2, <2>3 DEF Claim
<1>2. SameTransfers
  BY DEF Claim, SameTransfers, TransferStatus, IInv, TypeOK, HasTransfer
<1> QED BY <1>1, <1>2 DEF Passes, Passive, Unheld

\* A rollback.
LEMMA RollbackPasses ==
  ASSUME IInv, NEW r \in Jobs, job[r].op # "create", job[r].pc # "idle",
         NEW from \in TransferStatus, NEW to \in TransferStatus, Rollback(r, from, to)
  PROVE  Passes(r)
<1>1. /\ Finish(r) /\ UNCHANGED <<balance, payout, issued, crashes>>
      /\ faults' \in {faults, faults + 1}
  BY DEF Rollback, Fault
<1>2. SameTransfers
  BY DEF Rollback, SameTransfers, TransferStatus, IInv, TypeOK, HasTransfer
<1> QED BY <1>1, <1>2, MovePasses DEF Passive, Unheld

\* The rest of a handler of TransferService.
LEMMA TransferStepPasses ==
  ASSUME IInv, NEW r \in Jobs, TransferStep(r)
  PROVE  \/ Passes(r)
         \/ DeductForTransfer(r) \/ InsertTransfer(r) \/ LookUpDuplicate(r) \/ RefundDeduction(r)
<1>2. CASE ClaimRelease(r) \/ ClaimCancel(r) \/ ClaimReject(r) \/ ClaimAutoRelease(r)
  <2>1. /\ job[r].op # "create" /\ job[r].pc # "idle"
        /\ \E from \in SUBSET TransferStatus, new \in TransferStatus : \E s, v :
              Claim(r, from, new, "pay", s, v)
    BY <1>2 DEF ClaimRelease, ClaimCancel, ClaimReject, ClaimAutoRelease, At, TransferStatus
  <2> QED BY <2>1, ClaimPasses
<1>3. CASE UndoRelease(r) \/ UndoCancel(r) \/ UndoReject(r) \/ UndoAutoRelease(r)
  <2>1. /\ job[r].op # "create" /\ job[r].pc # "idle"
        /\ \E from, to \in TransferStatus : Rollback(r, from, to)
    BY <1>3 DEF UndoRelease, UndoCancel, UndoReject, UndoAutoRelease, At, TransferStatus
  <2> QED BY <2>1, RollbackPasses
<1> QED BY <1>2, <1>3 DEF TransferStep

\* The rest of a handler of DisputeService.
LEMMA DisputeStepPasses ==
  ASSUME IInv, NEW r \in Jobs, DisputeStep(r)
  PROVE  Passes(r)
<1>1. CASE \/ ReadExistingDispute(r) \/ ReadTransferToContinue(r)
           \/ ReadTransferToRefund(r) \/ ReadTransferToResolve(r)
  <2>1. /\ job[r].op # "create"
        /\ Goto(r, "claim") \/ Finish(r)
        /\ UNCHANGED <<status, balance, payout, issued, faults, crashes>>
    BY <1>1 DEF ReadExistingDispute, ReadTransferToContinue, ReadTransferToRefund,
       ReadTransferToResolve, Reread, At
  <2> QED BY <2>1, MovePasses DEF Pcs, Passive, Unheld, SameTransfers
<1>2. CASE \/ CloseCancelDispute(r) \/ CloseContinue(r) \/ CloseMutualRefund(r)
           \/ CloseResolve(r)
  <2>1. /\ job[r].op # "create"
        /\ Goto(r, "reopen") \/ Finish(r)
        /\ UNCHANGED <<status, balance, payout, issued, faults, crashes>>
    BY <1>2 DEF CloseCancelDispute, CloseContinue, CloseMutualRefund, CloseResolve,
       CloseDispute, At
  <2> QED BY <2>1, MovePasses DEF Pcs, Passive, Unheld, SameTransfers
<1>3. CASE InsertDispute(r) \/ LookUpDispute(r) \/ WriteStatus(r)
  <2>1. /\ job[r].op # "create"
        /\ Goto(r, "lookup") \/ Goto(r, "thaw") \/ Finish(r)
        /\ UNCHANGED <<status, balance, payout, issued, crashes>> /\ faults' \in {faults, faults + 1}
    BY <1>3 DEF InsertDispute, LookUpDispute, WriteStatus, At, Fault
  <2> QED BY <2>1, MovePasses DEF Pcs, Passive, Unheld, SameTransfers
<1>4. CASE Reopen(r)
  <2>1. /\ job[r].pc = "reopen" /\ Finish(r)
        /\ UNCHANGED <<balance, payout, issued, faults, crashes>>
    BY <1>4 DEF Reopen
  <2>2. SameTransfers
    BY <1>4 DEF Reopen, SameTransfers, IInv, TypeOK, HasTransfer
  <2> QED BY <2>1, <2>2, MovePasses DEF Passive, Unheld
<1>5. CASE ThawTransfer(r) \/ UndoMutualRefund(r)
  <2>1. /\ job[r].op # "create" /\ job[r].pc # "idle"
        /\ \E from, to \in TransferStatus : Rollback(r, from, to)
    BY <1>5 DEF ThawTransfer, UndoMutualRefund, At, TransferStatus
  <2> QED BY <2>1, RollbackPasses
<1>6. CASE \/ ClaimCreateDispute(r) \/ ClaimCancelDispute(r) \/ ClaimContinue(r)
           \/ ClaimMutualRefund(r) \/ ClaimNoAction(r)
           \/ \E percent \in SplitPercents : ClaimResolve(r, percent)
  <2>1. /\ job[r].op # "create" /\ job[r].pc # "idle"
        /\ \E from \in SUBSET TransferStatus, new \in TransferStatus : \E pc, s, v :
              Claim(r, from, new, pc, s, v)
    BY <1>6 DEF ClaimCreateDispute, ClaimCancelDispute, ClaimContinue, ClaimMutualRefund,
       ClaimNoAction, ClaimResolve, At, TransferStatus
  <2> QED BY <2>1, ClaimPasses
<1> QED BY <1>1, <1>2, <1>3, <1>4, <1>5, <1>6 DEF DisputeStep

\* A credit that throws, and a call that throws where nothing was to be deducted.
LEMMA ThrowPasses ==
  ASSUME IInv, NEW r \in Jobs,
         PayThrows(r) \/ (CallThrows(r) /\ ~At(r, "create", "deduct"))
  PROVE  Passes(r)
<1>1. CASE PayThrows(r)
  <2>1. /\ job[r].pc = "pay"
        /\ Goto(r, "undo") \/ Finish(r)
        /\ UNCHANGED <<status, balance, payout, issued, crashes>> /\ faults' \in {faults, faults + 1}
    BY <1>1 DEF PayThrows, Fault
  <2> QED BY <2>1, MovePasses DEF Pcs, Passive, Unheld, SameTransfers
<1>2. CASE CallThrows(r) /\ ~At(r, "create", "deduct")
  <2>1. /\ Passive(job[r]) /\ Finish(r)
        /\ UNCHANGED <<status, balance, payout, issued, crashes>> /\ faults' \in {faults, faults + 1}
    BY <1>2 DEF CallThrows, Fault, Passive, Unheld, At
  <2> QED BY <2>1, MovePasses DEF SameTransfers
<1> QED BY <1>1, <1>2

\* A handler begins.
LEMMA BeginPasses ==
  ASSUME IInv, NEW r \in Jobs, job[r] = Idle, NEW j,
         Passive(j), job' = [job EXCEPT ![r] = j],
         UNCHANGED <<status, balance, issued, payout, faults, crashes>>
  PROVE  Passes(r)
<1>1. /\ \A q \in Jobs \ {r} : job'[q] = job[q]
      /\ job'[r] = j /\ Passive(job[r])
  BY DEF Idle, Unheld, Passive, IInv, TypeOK
<1>2. SameTransfers
  BY DEF SameTransfers
<1> QED BY <1>1, <1>2 DEF Passes

LEMMA ArrivePasses ==
  ASSUME IInv, NEW r \in Jobs, NEW t \in Transfers,
         Arrive(r, t) \/ BeginAutoRelease(r, t)
  PROVE  Passes(r) \/ BeginCreate(r, t)
<1>1. ASSUME NEW op, Begin(r, op, "claim", t),
             UNCHANGED <<status, balance, issued, payout, faults, crashes>>
      PROVE  Passes(r)
  <2>1. Passive([Idle EXCEPT !.op = op, !.pc = "claim", !.t = t])
    BY DEF Idle, Unheld, Passive
  <2> QED BY <1>1, <2>1, BeginPasses DEF Begin
<1>2. ASSUME NEW op, NEW pc \in {"read", "claim", "write"}, NEW seen,
             BeginSeeing(r, op, pc, t, seen)
      PROVE  Passes(r)
  <2>1. Passive([Idle EXCEPT !.op = op, !.pc = pc, !.t = t, !.seen = seen])
    BY DEF Idle, Unheld, Passive
  <2> QED BY <1>2, <2>1, BeginPasses DEF BeginSeeing
<1>3. ASSUME NEW by, BeginRelease(r, t, by)
      PROVE  Passes(r)
  <2>1. Passive([Idle EXCEPT !.op = "release", !.pc = "claim", !.t = t, !.by = by])
    BY DEF Idle, Unheld, Passive
  <2> QED BY <1>3, <2>1, BeginPasses DEF BeginRelease
<1>4. CASE BeginCancel(r, t) \/ BeginReject(r, t) \/ BeginAutoRelease(r, t)
  BY <1>1, <1>4 DEF BeginCancel, BeginReject, BeginAutoRelease
<1>5. CASE \/ BeginCreateDispute(r, t) \/ BeginCancelDispute(r, t) \/ BeginContinue(r, t)
           \/ BeginMutualRefund(r, t) \/ BeginResolve(r, t)
           \/ \E new \in AdminStatuses : BeginUpdateStatus(r, t, new)
  BY <1>2, <1>5 DEF BeginCreateDispute, BeginCancelDispute, BeginContinue,
     BeginMutualRefund, BeginResolve, BeginUpdateStatus
<1> QED BY <1>3, <1>4, <1>5 DEF Arrive

\* The id of the transfer is drawn.
LEMMA DrawId ==
  ASSUME IInv, NEW r \in Jobs, NEW t \in Transfers, BeginCreate(r, t)
  PROVE  /\ \A q \in Jobs \ {r} : job'[q] = job[q]
         /\ job[r] = Idle
         /\ job'[r].op = "create" /\ job'[r].pc = "deduct" /\ job'[r].t = t
         /\ t \notin issued /\ issued' = issued \cup {t}
         /\ UNCHANGED <<status, balance, payout, faults, crashes>>
<1>1. \A op, pc : /\ [Idle EXCEPT !.op = op, !.pc = pc, !.t = t].op = op
                  /\ [Idle EXCEPT !.op = op, !.pc = pc, !.t = t].pc = pc
                  /\ [Idle EXCEPT !.op = op, !.pc = pc, !.t = t].t = t
  BY DEF Idle
<1> QED BY <1>1 DEF BeginCreate, Begin, IInv, TypeOK

-----------------------------------------------------------------------------
(* CreateTransferAsync.                                                    *)

\* The one creator of a transfer that has no document decides what is in escrow
\* for it, now and after a step of its own; other transfers are not concerned.
LEMMA CreatorHolds ==
  ASSUME IInv, NEW r \in Jobs, job[r].op = "create", job[r].pc # "idle",
         NEW t \in Transfers, t = job[r].t,
         \A q \in Jobs \ {r} : job'[q] = job[q],
         job'[r].t = t \/ job'[r].op # "create", payout' = payout,
         \A u \in Transfers \ {t} : status'[u] = status[u]
  PROVE  /\ status[t] = "None" /\ Amount[t] \in Nat
         /\ Holds(r, t) => InEscrow(t) = Amount[t]
         /\ ~Holds(r, t) => InEscrow(t) = 0
         /\ status'[t] = "None" /\ Holds(r, t)' => InEscrow(t)' = Amount[t]
         /\ status'[t] = "None" /\ ~Holds(r, t)' => InEscrow(t)' = 0
         /\ status'[t] # "None" => InEscrow(t)' = Amount[t]
         /\ \A u \in Transfers \ {t} : InEscrow(u)' = InEscrow(u)
<1>1. /\ status[t] = "None" /\ payout[t] = Unpaid /\ Amount[t] \in Nat
      /\ \A q \in Jobs \ {r} : ~Creates(q, t)
  BY EscrowAssumption DEF IInv, OneCreator, Creates, EscrowBacked
<1>2. \A q \in Jobs \ {r} : ~Holds(q, t) /\ ~Holds(q, t)'
  BY <1>1 DEF Holds, Creates
<1>3. \A u \in Transfers \ {t}, q \in Jobs : Holds(q, u)' <=> Holds(q, u)
  BY DEF Holds, Creates
<1>4. \A u \in Transfers \ {t} : InEscrow(u)' = InEscrow(u)
  BY <1>3 DEF InEscrow
<1>5. status'[t] # "None" => InEscrow(t)' = Amount[t]
  BY <1>1 DEF InEscrow, Unpaid
<1> QED BY <1>1, <1>2, <1>4, <1>5 DEF InEscrow

\* The creating call moves on.
LEMMA CreatorMoves ==
  ASSUME IInv, NEW r \in Jobs, job[r].op = "create", job[r].pc # "idle", NEW pc \in Pcs, Goto(r, pc)
  PROVE  /\ \A q \in Jobs \ {r} : job'[q] = job[q]
         /\ job'[r].t = job[r].t /\ job'[r].op = "create" /\ job'[r].pc = pc
  BY DEF Goto, IInv, TypeOK, Job

\* The creating call ends.
LEMMA CreatorEnds ==
  ASSUME IInv, NEW r \in Jobs, Finish(r)
  PROVE  /\ \A q \in Jobs \ {r} : job'[q] = job[q]
         /\ job'[r].op # "create"
  BY DEF Finish, Idle, IInv, TypeOK

LEMMA CreateMoney ==
  ASSUME IInv, RefundsExplained, NEW r \in Jobs,
         DeductForTransfer(r) \/ InsertTransfer(r) \/ LookUpDuplicate(r) \/ RefundDeduction(r)
  PROVE  MoneyStep /\ RefundsExplained'
<1>1. job[r].op = "create" /\ job[r].pc # "idle" /\ payout' = payout
  BY DEF DeductForTransfer, InsertTransfer, LookUpDuplicate, RefundDeduction, At
<1>2. PICK t \in Transfers : t = job[r].t
  BY <1>1 DEF IInv, HasTransfer
<1>3. Sender[t] \in Users /\ Amount[t] \in Nat /\ balance \in [Users -> Nat] /\ faults \in Nat
  BY EscrowAssumption DEF IInv, TypeOK
<1>4. CASE DeductForTransfer(r)
  <2>1. CASE Finish(r) /\ UNCHANGED balance
    <3>1. Unheld(job[r]) /\ SameTransfers /\ faults' = faults
      BY <1>4 DEF DeductForTransfer, At, Unheld, SameTransfers
    <3>2. \A q \in Jobs \ {r} : job'[q] = job[q]
      BY <2>1, CreatorEnds
    <3>3. Unheld(job'[r])
      BY <2>1, CreatorEnds DEF Unheld
    <3> QED BY <1>1, <2>1, <3>1, <3>2, <3>3, Bystander
  <2>2. CASE Goto(r, "insert") /\ balance' = [balance EXCEPT ![Sender[t]] = @ - Amount[t]]
    <3>1. /\ \A q \in Jobs \ {r} : job'[q] = job[q]
          /\ job'[r].t = t /\ job'[r].op = "create" /\ job'[r].pc = "insert"
      BY <1>1, <1>2, <2>2, CreatorMoves DEF Pcs
    <3>2. ~Holds(r, t) /\ Holds(r, t)' /\ status' = status
      BY <1>4, <3>1 DEF DeductForTransfer, At, Holds, Creates
    <3>3. /\ InEscrow(t) = 0 /\ InEscrow(t)' = Amount[t]
          /\ \A u \in Transfers \ {t} : InEscrow(u)' = InEscrow(u)
      BY <1>1, <1>2, <3>1, <3>2, CreatorHolds
    <3>4. balance' = [balance EXCEPT ![Sender[t]] = @ + (0 - Amount[t])]
      <4>1. balance[Sender[t]] - Amount[t] = balance[Sender[t]] + (0 - Amount[t])
        BY <1>3
      <4> QED BY <2>2, <4>1
    <3>5. Moves(Sender[t], t, 0 - Amount[t]) /\ 0 - Amount[t] \in Int
      BY <1>3, <3>3, <3>4 DEF Moves
    <3>6. RefundsExplained'
      BY <1>4, <3>1 DEF RefundsExplained, DeductForTransfer
    <3> QED BY <1>3, <3>5, <3>6 DEF MoneyStep
  <2> QED BY <1>2, <1>4, <2>1, <2>2 DEF DeductForTransfer
<1>5. CASE InsertTransfer(r)
  <2>0. Holds(r, t) /\ balance' = balance
    BY <1>1, <1>2, <1>5 DEF InsertTransfer, At, Holds, Creates
  <2>1. CASE Finish(r) /\ status' = [status EXCEPT ![t] = "Pending"] /\ UNCHANGED faults
    <3>1. /\ \A q \in Jobs \ {r} : job'[q] = job[q]
          /\ job'[r].op # "create"
      BY <2>1, CreatorEnds
    <3>2. status'[t] # "None" /\ \A u \in Transfers \ {t} : status'[u] = status[u]
      BY <2>1 DEF IInv, TypeOK
    <3>3. /\ InEscrow(t)' = InEscrow(t)
          /\ \A u \in Transfers \ {t} : InEscrow(u)' = InEscrow(u)
      BY <1>1, <1>2, <2>0, <3>1, <3>2, CreatorHolds
    <3>4. RefundsExplained'
      BY <2>1, <3>1 DEF RefundsExplained
    <3> QED BY <2>0, <3>3, <3>4 DEF MoneyStep, Same
  <2>2. ASSUME NEW pc \in {"duplicate", "refundOnce"}, Goto(r, pc), status' = status,
               \/ pc = "duplicate" /\ CaseLockKey[t] # NoCase /\ faults' = faults
               \/ pc = "refundOnce" /\ faults' = faults + 1
        PROVE  MoneyStep /\ RefundsExplained'
    <3>1. /\ \A q \in Jobs \ {r} : job'[q] = job[q]
          /\ job'[r].t = t /\ job'[r].op = "create" /\ job'[r].pc = pc
      BY <1>1, <1>2, <2>2, CreatorMoves DEF Pcs
    <3>2. Holds(r, t)'
      BY <3>1 DEF Holds, Creates
    <3>3. /\ InEscrow(t)' = InEscrow(t)
          /\ \A u \in Transfers \ {t} : InEscrow(u)' = InEscrow(u)
      BY <1>1, <1>2, <2>0, <2>2, <3>1, <3>2, CreatorHolds
    <3>4. RefundsExplained'
      BY <1>3, <2>2, <3>1 DEF RefundsExplained
    <3> QED BY <2>0, <3>3, <3>4 DEF MoneyStep, Same
  <2>3. ~MayBePending(t) => CaseLockKey[t] # NoCase
    BY DEF MayBePending
  <2> QED BY <1>2, <1>5, <2>1, <2>2, <2>3 DEF InsertTransfer, Fault
<1>6. CASE LookUpDuplicate(r)
  <2>0. Holds(r, t) /\ balance' = balance /\ status' = status /\ CaseLockKey[t] # NoCase
    BY <1>1, <1>2, <1>6 DEF LookUpDuplicate, At, Holds, Creates, RefundsExplained
  <2>1. PICK pc \in {"refundTwice", "refundOnce"} : Goto(r, pc) /\ faults' \in {faults, faults + 1}
    BY <1>6 DEF LookUpDuplicate, Fault
  <2>2. /\ \A q \in Jobs \ {r} : job'[q] = job[q]
        /\ job'[r].t = t /\ job'[r].op = "create" /\ job'[r].pc = pc
    BY <1>1, <1>2, <2>1, CreatorMoves DEF Pcs
  <2>3. Holds(r, t)'
    BY <2>2 DEF Holds, Creates
  <2>4. /\ InEscrow(t)' = InEscrow(t)
        /\ \A u \in Transfers \ {t} : InEscrow(u)' = InEscrow(u)
    BY <1>1, <1>2, <2>0, <2>2, <2>3, CreatorHolds
  <2>5. RefundsExplained'
    BY <1>3, <2>0, <2>1, <2>2 DEF RefundsExplained
  <2> QED BY <2>0, <2>4, <2>5 DEF MoneyStep, Same
<1>7. CASE RefundDeduction(r)
  <2>0. /\ Holds(r, t) /\ status' = status
        /\ job[r].pc = "refundTwice" => CaseLockKey[t] # NoCase
        /\ job[r].pc = "refundOnce" => faults > 0 \/ CaseLockKey[t] # NoCase
    BY <1>1, <1>2, <1>7 DEF RefundDeduction, Holds, Creates, RefundsExplained
  <2>1. CASE Finish(r)
    <3>1. /\ \A q \in Jobs \ {r} : job'[q] = job[q]
          /\ job'[r].op # "create"
      BY <2>1, CreatorEnds
    <3>2. ~Holds(r, t)'
      BY <3>1 DEF Holds, Creates
    <3>3. /\ InEscrow(t) = Amount[t] /\ InEscrow(t)' = 0
          /\ \A u \in Transfers \ {t} : InEscrow(u)' = InEscrow(u)
      BY <1>1, <1>2, <2>0, <3>1, <3>2, CreatorHolds
    <3>4. RefundsExplained'
      BY <1>3, <1>7, <3>1 DEF RefundsExplained, RefundDeduction, Fault
    <3>5. CASE balance' = [balance EXCEPT ![Sender[t]] = @ + Amount[t]]
      <4>1. Moves(Sender[t], t, Amount[t]) /\ Amount[t] \in Int
        BY <1>3, <3>3, <3>5 DEF Moves
      <4> QED BY <1>3, <3>4, <4>1 DEF MoneyStep
    <3>6. CASE Fault /\ job[r].pc = "refundOnce" /\ balance' = balance
      <4>1. ~NoLoss'
        BY <1>3, <2>0, <3>6 DEF NoLoss, Fault
      <4>2. \A u \in Transfers : InEscrow(u)' <= InEscrow(u)
        BY <1>3, <3>3, InEscrowNat
      <4> QED BY <3>4, <3>6, <4>1, <4>2 DEF MoneyStep, Drops
    <3>7. ~Goto(r, "refundOnce")
      BY <1>1, <3>1, CreatorMoves DEF Pcs
    <3> QED BY <1>2, <1>7, <3>5, <3>6, <3>7 DEF RefundDeduction
  <2>2. CASE Fault /\ Goto(r, "refundOnce") /\ balance' = balance /\ job[r].pc = "refundTwice"
    <3>1. /\ \A q \in Jobs \ {r} : job'[q] = job[q]
          /\ job'[r].t = t /\ job'[r].op = "create" /\ job'[r].pc = "refundOnce"
      BY <1>1, <1>2, <2>2, CreatorMoves DEF Pcs
    <3>2. Holds(r, t)'
      BY <3>1 DEF Holds, Creates
    <3>3. /\ InEscrow(t)' = InEscrow(t)
          /\ \A u \in Transfers \ {t} : InEscrow(u)' = InEscrow(u)
      BY <1>1, <1>2, <2>0, <3>1, <3>2, CreatorHolds
    <3>4. RefundsExplained'
      BY <1>3, <2>0, <2>2, <3>1 DEF RefundsExplained, Fault
    <3> QED BY <2>2, <3>3, <3>4 DEF MoneyStep, Same
  <2> QED BY <1>2, <1>7, <2>1, <2>2 DEF RefundDeduction
<1> QED BY <1>4, <1>5, <1>6, <1>7


-----------------------------------------------------------------------------
(* The other steps.                                                        *)

\* A step that moves no money.
LEMMA PassesMoney ==
  ASSUME IInv, RefundsExplained, NEW r \in Jobs, Passes(r)
  PROVE  MoneyStep /\ RefundsExplained'
  BY Bystander DEF Passes, Passive

\* A credit moves what the handler owes from the transfer to one of its parties.
LEMMA CreditMoves ==
  ASSUME IInv, NEW r \in Jobs, PaySender(r) \/ PayReceiver(r)
  PROVE  /\ \E t \in Transfers, d \in Nat :
              /\ status[t] # "None"
              /\ Moves(Sender[t], t, d) \/ Moves(Receiver[t], t, d)
         /\ \A q \in Jobs \ {r} : job'[q] = job[q]
         /\ job[r].op # "create" /\ job'[r].op # "create"
         /\ UNCHANGED <<status, issued, faults, crashes>>
<1>0. PICK t \in Transfers : t = job[r].t
  BY DEF PaySender, PayReceiver, IInv, HasTransfer
<1>1. /\ job[r] \in Job /\ job[r].pc = "pay" /\ Owns(r, t)
      /\ job[r].toSender \in Nat /\ job[r].toReceiver \in Nat
      /\ payout[t].sender \in Nat /\ payout[t].receiver \in Nat
      /\ Sender[t] \in Users /\ Receiver[t] \in Users /\ Amount[t] \in Nat
      /\ UNCHANGED <<status, issued, faults, crashes>>
  BY <1>0, EscrowAssumption DEF PaySender, PayReceiver, IInv, TypeOK, Owns, Job
<1>2. job[r].op # "create" /\ status[t] # "None"
  BY <1>0, <1>1 DEF IInv, OneCreator, OneOwner, Owns, Creates, Terminal
<1>3. /\ \A q \in Jobs \ {r} : job'[q] = job[q]
      /\ job'[r].op # "create"
  <2>1. PICK k \in Job : k.op = job[r].op /\ job' = [job EXCEPT ![r] = AfterCredit(k)]
    <3>1. CASE PaySender(r)
      <4>1. [job[r] EXCEPT !.toSender = 0] \in Job /\ [job[r] EXCEPT !.toSender = 0].op = job[r].op
        BY <1>1 DEF Job
      <4> QED BY <3>1, <4>1 DEF PaySender
    <3>2. CASE PayReceiver(r)
      <4>1. [job[r] EXCEPT !.toReceiver = 0] \in Job /\ [job[r] EXCEPT !.toReceiver = 0].op = job[r].op
        BY <1>1 DEF Job
      <4> QED BY <3>2, <4>1 DEF PayReceiver
    <3> QED BY <3>1, <3>2
  <2>2. AfterCredit(k).op # "create"
    <3>1. k.toReceiver > 0 \/ k.toReceiver = 0
      BY <2>1 DEF Job
    <3>2. [k EXCEPT !.pc = "close"].op = k.op
      BY <2>1 DEF Job
    <3> QED BY <1>2, <2>1, <3>1, <3>2 DEF AfterCredit, Idle
  <2> QED BY <2>1, <2>2 DEF IInv, TypeOK
<1>4. \A q \in Jobs, u \in Transfers : Holds(q, u)' <=> Holds(q, u)
  BY <1>2, <1>3 DEF Holds, Creates
<1>6. ASSUME \A u \in Transfers \ {t} : payout'[u] = payout[u]
      PROVE  \A u \in Transfers \ {t} : InEscrow(u)' = InEscrow(u)
  BY <1>1, <1>4, <1>6 DEF InEscrow
<1>7. CASE PaySender(r)
  <2>1. /\ payout'[t].sender = payout[t].sender + job[r].toSender
        /\ payout'[t].receiver = payout[t].receiver
        /\ \A u \in Transfers \ {t} : payout'[u] = payout[u]
    BY <1>0, <1>7 DEF PaySender, IInv, TypeOK
  <2>2. InEscrow(t)' = InEscrow(t) - job[r].toSender
    BY <1>1, <1>2, <2>1 DEF InEscrow
  <2>3. Moves(Sender[t], t, job[r].toSender)
    BY <1>0, <1>6, <1>7, <2>1, <2>2 DEF PaySender, Moves
  <2> QED BY <1>1, <1>2, <1>3, <2>3
<1>8. CASE PayReceiver(r)
  <2>1. /\ payout'[t].sender = payout[t].sender
        /\ payout'[t].receiver = payout[t].receiver + job[r].toReceiver
        /\ \A u \in Transfers \ {t} : payout'[u] = payout[u]
    BY <1>0, <1>8 DEF PayReceiver, IInv, TypeOK
  <2>2. InEscrow(t)' = InEscrow(t) - job[r].toReceiver
    BY <1>1, <1>2, <2>1 DEF InEscrow
  <2>3. Moves(Receiver[t], t, job[r].toReceiver)
    BY <1>0, <1>6, <1>8, <2>1, <2>2 DEF PayReceiver, Moves
  <2> QED BY <1>1, <1>2, <1>3, <2>3
<1> QED BY <1>7, <1>8

LEMMA CreditMoney ==
  ASSUME IInv, RefundsExplained, NEW r \in Jobs, PaySender(r) \/ PayReceiver(r)
  PROVE  MoneyStep /\ RefundsExplained'
<1>1. MoneyStep
  BY CreditMoves, EscrowAssumption DEF MoneyStep
<1>2. RefundsExplained'
  BY CreditMoves DEF RefundsExplained
<1> QED BY <1>1, <1>2

\* Every step of the service.
LEMMA NextMoney ==
  ASSUME IInv, IInv', RefundsExplained, [Next]_vars
  PROVE  MoneyStep /\ RefundsExplained'
<1>1. ASSUME NEW r \in Jobs, NEW t \in Transfers, BeginCreate(r, t)
      PROVE  MoneyStep /\ RefundsExplained'
  BY <1>1, DrawId, Bystander DEF Idle, Unheld, SameTransfers
<1>2. ASSUME NEW r \in Jobs, NEW t \in Transfers, Arrive(r, t) \/ BeginAutoRelease(r, t)
      PROVE  MoneyStep /\ RefundsExplained'
  BY <1>1, <1>2, ArrivePasses, PassesMoney
<1>3. ASSUME NEW r \in Jobs, Proceed(r)
      PROVE  MoneyStep /\ RefundsExplained'
  BY <1>3, TransferStepPasses, DisputeStepPasses, ThrowPasses, PassesMoney, CreateMoney,
     CreditMoney DEF Proceed, WalletStep
<1>4. ASSUME NEW r \in Jobs, CallThrows(r)
      PROVE  MoneyStep /\ RefundsExplained'
  <2>1. /\ Unheld(job[r]) /\ Finish(r)
        /\ UNCHANGED <<status, balance, payout>> /\ faults' \in {faults, faults + 1}
    BY <1>4 DEF CallThrows, Fault, Unheld
  <2>2. /\ \A q \in Jobs \ {r} : job'[q] = job[q]
        /\ Unheld(job'[r])
    BY <2>1 DEF Finish, Idle, Unheld, IInv, TypeOK
  <2> QED BY <2>1, <2>2, Bystander DEF SameTransfers
<1>6. CASE UNCHANGED <<status, balance, payout, job, faults>>
  <2>1. \A t \in Transfers : InEscrow(t)' = InEscrow(t)
    BY <1>6 DEF InEscrow, Holds, Creates
  <2> QED BY <1>6, <2>1 DEF MoneyStep, Same, RefundsExplained
<1>7. CASE (\E t \in Transfers : Expire(t)) \/ UNCHANGED vars
  BY <1>6, <1>7 DEF Expire, vars
<1>8. CASE Crash
  <2>1. /\ balance' = balance /\ status' = status /\ payout' = payout
        /\ crashes' > 0 /\ \A r \in Jobs : job'[r].op # "create"
    BY <1>8 DEF Crash, Idle, IInv, TypeOK
  <2>2. \A t \in Transfers, r \in Jobs : ~Holds(r, t)'
    BY <2>1 DEF Holds, Creates
  <2>3. ASSUME NEW t \in Transfers PROVE InEscrow(t)' <= InEscrow(t)
    <3>1. InEscrow(t) \in Nat
      BY InEscrowNat
    <3>2. InEscrow(t)' = 0 \/ InEscrow(t)' = InEscrow(t)
      BY <2>1, <2>2 DEF InEscrow
    <3> QED BY <3>1, <3>2
  <2>4. RefundsExplained'
    BY <2>1 DEF RefundsExplained
  <2> QED BY <2>1, <2>3, <2>4 DEF MoneyStep, Drops
<1> QED BY <1>2, <1>3, <1>4, <1>7, <1>8 DEF Next, Jobs

-----------------------------------------------------------------------------
(* The sums.                                                               *)

\* Failures and deaths are only counted up.
LEMMA CountersGrow ==
  ASSUME IInv, [Next]_vars
  PROVE  faults' >= faults /\ crashes' >= crashes
<1>0. faults \in Nat /\ crashes \in Nat
  BY DEF IInv, TypeOK
<1>1. ASSUME NEW r \in Jobs, NEW t \in Transfers, Arrive(r, t) \/ BeginAutoRelease(r, t)
      PROVE  faults' >= faults /\ crashes' = crashes
  BY <1>0, <1>1, ArrivePasses DEF Passes, BeginCreate
<1>2. ASSUME NEW r \in Jobs, TransferStep(r) \/ DisputeStep(r)
      PROVE  faults' >= faults /\ crashes' = crashes
  <2>1. CASE DeductForTransfer(r) \/ InsertTransfer(r) \/ LookUpDuplicate(r) \/ RefundDeduction(r)
    BY <1>0, <2>1 DEF DeductForTransfer, InsertTransfer, LookUpDuplicate, RefundDeduction, Fault
  <2>2. CASE Passes(r)
    BY <1>0, <2>2 DEF Passes
  <2> QED BY <1>2, <2>1, <2>2, TransferStepPasses, DisputeStepPasses
<1>4. ASSUME NEW r \in Jobs, WalletStep(r) \/ CallThrows(r)
      PROVE  faults' >= faults /\ crashes' = crashes
  BY <1>0, <1>4 DEF WalletStep, PaySender, PayReceiver, PayThrows, CallThrows, Fault
<1>5. CASE (\E t \in Transfers : Expire(t)) \/ Crash \/ UNCHANGED vars
  BY <1>0, <1>5 DEF Expire, Crash, vars
<1>6. [Next]_vars
  OBVIOUS
<1> QED BY <1>0, <1>1, <1>2, <1>4, <1>5, <1>6 DEF Next, Proceed, Jobs

\* What the effect of a step on single wallets and transfers means for the sum.
LEMMA MoneySums ==
  ASSUME IInv, IInv', MoneyStep
  PROVE  /\ Money \in Int /\ Money' \in Int /\ Money' <= Money
         /\ crashes' = 0 /\ NoLoss' => Money' = Money
<1> DEFINE f == [t \in Transfers |-> InEscrow(t)]
           g == [t \in Transfers |-> InEscrow(t)']
           B == SumFunctionOnSet(balance, Users)
           C == SumFunctionOnSet(balance', Users)
           E == SumFunctionOnSet(f, Transfers)
           H == SumFunctionOnSet(g, Transfers)
<1>0. IsFiniteSet(Users) /\ IsFiniteSet(Transfers) /\ crashes' \in Nat
  BY EscrowAssumption DEF IInv, TypeOK
<1>1. Money = B + E /\ Money' = C + H
  BY DEF Money
<1>2. /\ \A u \in Users : balance[u] \in Int /\ balance'[u] \in Int
      /\ balance \in [Users -> Nat]
  BY DEF IInv, TypeOK
<1>3. \A t \in Transfers : InEscrow(t) \in Nat
  BY InEscrowNat
<1>4. \A t \in Transfers : InEscrow(t)' \in Nat
  BY EscrowNatNext
<1>5. \A t \in Transfers : f[t] = InEscrow(t) /\ g[t] = InEscrow(t)' /\ f[t] \in Int /\ g[t] \in Int
  BY <1>3, <1>4
<1> HIDE DEF f, g
<1>6. B \in Int /\ C \in Int /\ E \in Int /\ H \in Int
  BY <1>0, <1>2, <1>5, SumInt
<1>7. CASE Same
  <2>1. H = E
    BY <1>0, <1>5, <1>7, SumSame DEF Same
  <2> QED BY <1>1, <1>6, <1>7, <2>1 DEF Same
<1>8. CASE Drops
  <2>1. H <= E
    BY <1>0, <1>5, <1>8, SumMonotone DEF Drops
  <2>2. C = B /\ ~(crashes' = 0 /\ NoLoss')
    BY <1>0, <1>8 DEF Drops
  <2> HIDE DEF B, C, E, H
  <2> QED BY <1>1, <1>6, <2>1, <2>2
<1>9. ASSUME NEW u \in Users, NEW t \in Transfers, NEW d \in Int, Moves(u, t, d)
      PROVE  C + H = B + E
  <2>1. C = B + balance'[u] - balance[u] /\ balance'[u] = balance[u] + d
    <3>1. balance'[u] = balance[u] + d /\ \A x \in Users \ {u} : balance'[x] = balance[x]
      BY <1>2, <1>9 DEF Moves
    <3> QED BY <1>0, <1>2, <3>1, SumChange
  <2>2. H = E + g[t] - f[t] /\ g[t] = f[t] - d
    <3>1. g[t] = f[t] - d /\ \A x \in Transfers \ {t} : g[x] = f[x]
      BY <1>5, <1>9 DEF Moves
    <3> QED BY <1>0, <1>5, <3>1, SumChange
  <2>3. balance[u] \in Int /\ f[t] \in Int
    BY <1>2, <1>5
  <2> HIDE DEF B, C, E, H
  <2> QED BY <1>6, <2>1, <2>2, <2>3
<1> HIDE DEF B, C, E, H
<1> QED BY <1>1, <1>6, <1>7, <1>8, <1>9 DEF MoneyStep

\* At the start everything is in the wallets.
LEMMA InitMoney == Init => MoneyConserved /\ RefundsExplained
<1> SUFFICES ASSUME Init PROVE MoneyConserved /\ RefundsExplained
  OBVIOUS
<1> DEFINE f == [t \in Transfers |-> InEscrow(t)]
<1>1. \A t \in Transfers : f[t] = 0
  BY DEF Init, InEscrow, Holds, Creates, Idle
<1> HIDE DEF f
<1>2. SumFunctionOnSet(f, Transfers) = 0
  BY <1>1, SumZero, EscrowAssumption
<1>3. SumFunctionOnSet(Opening, Users) \in Int
  <2>1. IsFiniteSet(Users) /\ \A u \in Users : Opening[u] \in Int
    BY EscrowAssumption
  <2> QED BY <2>1, SumInt
<1>4. Money = SumFunctionOnSet(Opening, Users)
  BY <1>2, <1>3 DEF Money, Init, f
<1>5. MoneyConserved
  BY <1>3, <1>4 DEF MoneyConserved
<1>6. RefundsExplained
  BY DEF Init, Idle, RefundsExplained
<1> QED BY <1>5, <1>6

LEMMA NextConserves ==
  ASSUME IInv, IInv', RefundsExplained, MoneyConserved, [Next]_vars
  PROVE  RefundsExplained' /\ MoneyConserved'
<1> DEFINE opening == SumFunctionOnSet(Opening, Users)
<1>0. opening \in Int
  <2>1. IsFiniteSet(Users) /\ \A u \in Users : Opening[u] \in Int
    BY EscrowAssumption
  <2> QED BY <2>1, SumInt
<1>1. MoneyStep /\ RefundsExplained'
  BY NextMoney
<1>2. /\ Money \in Int /\ Money' \in Int /\ Money' <= Money
      /\ crashes' = 0 /\ NoLoss' => Money' = Money
  BY <1>1, MoneySums
<1>3. crashes' = 0 /\ NoLoss' => crashes = 0 /\ NoLoss
  <2>1. faults \in Nat /\ crashes \in Nat /\ faults' \in Nat /\ crashes' \in Nat
    BY DEF IInv, TypeOK
  <2>2. faults' >= faults /\ crashes' >= crashes
    BY CountersGrow
  <2> QED BY <2>1, <2>2 DEF NoLoss
<1>4. Money <= opening /\ (crashes = 0 /\ NoLoss => Money = opening)
  BY DEF MoneyConserved
<1> HIDE DEF opening
<1>5. Money' <= opening /\ (crashes' = 0 /\ NoLoss' => Money' = opening)
  BY <1>0, <1>2, <1>3, <1>4
<1>6. MoneyConserved'
  BY <1>5 DEF MoneyConserved, opening
<1> QED BY <1>1, <1>6

\* The wallets of all users and the transfers still held in escrow together
\* never hold more than the wallets held at the start, whatever creations,
\* settlements, disputes, sweeps, failures and crashes happen at once; and they
\* hold exactly that as long as the process has not died and no failure hit the
\* single refund of a deduction.  For any number of users, transfers, handlers,
\* failures and crashes.
THEOREM MoneyIsConserved == Spec => []MoneyConserved
<1>1. IInv /\ IInv' /\ RefundsExplained /\ MoneyConserved /\ [Next]_vars
        => RefundsExplained' /\ MoneyConserved'
  BY NextConserves
<1> QED BY <1>1, InitMoney, Invariant, PTL DEF Spec

-----------------------------------------------------------------------------
(* The service implements EscrowContract.                                  *)

ContractStep == [Contract!Next]_(Contract!contractVars)

\* t goes from one stage to another, and no other transfer does.
Turned(t, from, to) ==
    /\ Stage(t) = from /\ Stage(t)' = to
    /\ \A u \in Transfers \ {t} : Stage(u)' = Stage(u)

\* No stage and no amount in escrow changes.
Untouched ==
    \A t \in Transfers : Stage(t)' = Stage(t) /\ InEscrow(t)' = InEscrow(t)

\* A step that touches nothing is none of the contract's or a harmless failure.
LEMMA UntouchedStep ==
  ASSUME IInv, Untouched, balance' = balance,
         faults' + crashes' \in {faults + crashes, faults + crashes + 1}
  PROVE  ContractStep
<1>1. /\ [t \in Transfers |-> Stage(t)'] = [t \in Transfers |-> Stage(t)]
      /\ [t \in Transfers |-> InEscrow(t)'] = [t \in Transfers |-> InEscrow(t)]
  BY DEF Untouched
<1>2. CASE faults' + crashes' = faults + crashes
  BY <1>1, <1>2 DEF ContractStep, Contract!contractVars
<1>3. CASE faults' + crashes' = faults + crashes + 1
  <2>1. Contract!Fail({})
    BY <1>1, <1>3 DEF Contract!Fail
  <2> QED BY <2>1 DEF ContractStep, Contract!Next
<1> QED BY <1>2, <1>3

\* A step with which transfers of T are given up.
LEMMA FailStep ==
  ASSUME IInv, NEW T \in SUBSET Transfers, balance' = balance,
         faults' + crashes' = faults + crashes + 1,
         \A t \in T : Stage(t) \in {"open", "taken"} /\ Stage(t)' = "void" /\ InEscrow(t)' = 0,
         \A t \in Transfers \ T : Stage(t)' = Stage(t) /\ InEscrow(t)' = InEscrow(t)
  PROVE  ContractStep
<1>1. Contract!Fail(T)
  BY DEF Contract!Fail
<1> QED BY <1>1 DEF ContractStep, Contract!Next

\* The mapped stages and amounts as functions.
LEMMA MappedTurn ==
  ASSUME NEW t \in Transfers, NEW from, NEW to, Turned(t, from, to)
  PROVE  Contract!Turn(t, from, to)
  BY DEF Turned, Contract!Turn

\* A creating call decides the stage of its transfer.
LEMMA CreatorStage ==
  ASSUME IInv, NEW r \in Jobs, job[r].op = "create", job[r].pc # "idle",
         NEW t \in Transfers, t = job[r].t,
         \A q \in Jobs \ {r} : job'[q] = job[q],
         job'[r].t = t \/ job'[r].op # "create", issued' = issued,
         \A u \in Transfers \ {t} : status'[u] = status[u]
  PROVE  /\ Holds(r, t) => Stage(t) = "taken"
         /\ job[r].pc = "deduct" => Stage(t) = "open"
         /\ status'[t] # "None" => Stage(t)' = "held"
         /\ status'[t] = "None" /\ Holds(r, t)' => Stage(t)' = "taken"
         /\ status'[t] = "None" /\ job'[r].op # "create" => Stage(t)' = "void"
         /\ \A u \in Transfers \ {t} : Stage(u)' = Stage(u)
<1>1. /\ status[t] = "None" /\ t \in issued
      /\ \A q \in Jobs \ {r} : ~Creates(q, t) /\ ~Creates(q, t)'
  BY DEF IInv, OneCreator, Creates
<1>2. \A q \in Jobs \ {r} : ~Holds(q, t) /\ ~Holds(q, t)'
  BY <1>1 DEF Holds
<1>3. job[r].pc = "deduct" => ~Holds(r, t) /\ Creates(r, t)
  BY DEF Holds, Creates
<1>4. job'[r].op # "create" => ~Holds(r, t)' /\ ~Creates(r, t)'
  BY DEF Holds, Creates
<1>5. \A u \in Transfers \ {t} : Stage(u)' = Stage(u)
  <2>1. \A u \in Transfers \ {t}, q \in Jobs :
           /\ Holds(q, u)' <=> Holds(q, u)
           /\ Creates(q, u)' /\ job'[q].pc = "deduct" <=> Creates(q, u) /\ job[q].pc = "deduct"
    BY DEF Holds, Creates
  <2> QED BY <2>1 DEF Stage
<1>6. /\ Holds(r, t) => Stage(t) = "taken"
      /\ job[r].pc = "deduct" => Stage(t) = "open"
  BY <1>1, <1>2, <1>3 DEF Stage
<1>7. /\ status'[t] # "None" => Stage(t)' = "held"
      /\ status'[t] = "None" /\ Holds(r, t)' => Stage(t)' = "taken"
      /\ status'[t] = "None" /\ job'[r].op # "create" => Stage(t)' = "void"
  BY <1>1, <1>2, <1>4 DEF Stage
<1> QED BY <1>5, <1>6, <1>7

\* A step of a handler that moves no money.
LEMMA PassesContract ==
  ASSUME IInv, NEW r \in Jobs, Passes(r)
  PROVE  ContractStep
<1>1. \A q \in Jobs, t \in Transfers :
         /\ Holds(q, t)' <=> Holds(q, t)
         /\ Creates(q, t)' /\ job'[q].pc = "deduct" <=> Creates(q, t) /\ job[q].pc = "deduct"
  BY DEF Passes, Passive, Unheld, Holds, Creates
<1>2. ASSUME NEW t \in Transfers
      PROVE  Stage(t)' = Stage(t) /\ InEscrow(t)' = InEscrow(t)
  <2>1. /\ status'[t] = "None" <=> status[t] = "None"
        /\ payout' = payout /\ issued' = issued
    BY DEF Passes, SameTransfers
  <2>2. InEscrow(t)' = InEscrow(t)
    BY <1>1, <2>1 DEF InEscrow
  <2>3. Stage(t)' = Stage(t)
    BY <1>1, <2>1 DEF Stage
  <2> QED BY <2>2, <2>3
<1>3. faults' + crashes' \in {faults + crashes, faults + crashes + 1}
  <2>1. faults \in Nat /\ crashes \in Nat
    BY DEF IInv, TypeOK
  <2>2. faults' = faults \/ faults' = faults + 1
    BY DEF Passes
  <2>3. crashes' = crashes
    BY DEF Passes
  <2>4. CASE faults' = faults
    BY <2>3, <2>4
  <2>5. CASE faults' = faults + 1
    BY <2>1, <2>3, <2>5
  <2> QED BY <2>2, <2>4, <2>5
<1>4. balance' = balance
  BY DEF Passes
<1> QED BY <1>2, <1>3, <1>4, UntouchedStep DEF Untouched

LEMMA DrawContract ==
  ASSUME IInv, NEW r \in Jobs, NEW t \in Transfers, BeginCreate(r, t)
  PROVE  ContractStep
<1>1. /\ \A q \in Jobs \ {r} : job'[q] = job[q]
      /\ job[r].op = "idle" /\ job'[r].op = "create" /\ job'[r].pc = "deduct" /\ job'[r].t = t
      /\ t \notin issued /\ issued' = issued \cup {t}
      /\ UNCHANGED <<status, balance, payout, faults, crashes>>
  BY DrawId DEF Idle
<1>2. /\ status[t] = "None"
      /\ \A q \in Jobs : ~Creates(q, t)
  BY <1>1 DEF IInv, OneCreator
<1>3. \A q \in Jobs, u \in Transfers : Holds(q, u)' <=> Holds(q, u)
  BY <1>1, <1>2 DEF Holds, Creates
<1>4. \A u \in Transfers : InEscrow(u)' = InEscrow(u)
  BY <1>1, <1>3 DEF InEscrow
<1>5. Stage(t) = "open" /\ Stage(t)' = "open"
  <2>1. \A q \in Jobs : ~Holds(q, t)
    BY <1>2 DEF Holds
  <2>2. Creates(r, t)' /\ job'[r].pc = "deduct"
    BY <1>1 DEF Creates
  <2> QED BY <1>1, <1>2, <1>3, <2>1, <2>2 DEF Stage
<1>6. ASSUME NEW u \in Transfers \ {t}
      PROVE  Stage(u)' = Stage(u)
  <2>1. \A q \in Jobs : Creates(q, u)' /\ job'[q].pc = "deduct"
                          <=> Creates(q, u) /\ job[q].pc = "deduct"
    BY <1>1 DEF Creates
  <2> QED BY <1>1, <1>3, <2>1 DEF Stage
<1>7. Untouched
  BY <1>4, <1>5, <1>6 DEF Untouched
<1> QED BY <1>1, <1>7, UntouchedStep DEF IInv, TypeOK

\* The steps of CreateTransferAsync.
LEMMA CreateContract ==
  ASSUME IInv, NEW r \in Jobs,
         DeductForTransfer(r) \/ InsertTransfer(r) \/ LookUpDuplicate(r) \/ RefundDeduction(r)
  PROVE  ContractStep
<1>1. /\ job[r].op = "create" /\ job[r].pc # "idle"
      /\ UNCHANGED <<payout, issued, crashes>>
  BY DEF DeductForTransfer, InsertTransfer, LookUpDuplicate, RefundDeduction, At
<1>2. PICK t \in Transfers : t = job[r].t
  BY <1>1 DEF IInv, HasTransfer
<1>3. /\ Sender[t] \in Users /\ Amount[t] \in Nat /\ balance \in [Users -> Nat]
      /\ faults \in Nat /\ crashes \in Nat
  BY EscrowAssumption DEF IInv, TypeOK
\* The call moves on and holds the deduction as before.
<1>4. ASSUME NEW pc \in {"duplicate", "refundTwice", "refundOnce"}, Goto(r, pc), Holds(r, t),
             UNCHANGED <<status, balance>>, faults' \in {faults, faults + 1}
      PROVE  ContractStep
  <2>1. /\ \A q \in Jobs \ {r} : job'[q] = job[q]
        /\ job'[r].t = t /\ job'[r].op = "create" /\ job'[r].pc = pc
    BY <1>1, <1>2, <1>4, CreatorMoves DEF Pcs
  <2>2. Holds(r, t)' /\ status[t] = "None"
    BY <1>2, <2>1, <1>1 DEF Holds, Creates, IInv, OneCreator
  <2>3. /\ InEscrow(t)' = InEscrow(t)
        /\ \A u \in Transfers \ {t} : InEscrow(u)' = InEscrow(u)
    BY <1>1, <1>2, <1>4, <2>1, <2>2, CreatorHolds
  <2>4. /\ Stage(t)' = Stage(t)
        /\ \A u \in Transfers \ {t} : Stage(u)' = Stage(u)
    BY <1>1, <1>2, <1>4, <2>1, <2>2, CreatorStage
  <2>5. faults' + crashes' \in {faults + crashes, faults + crashes + 1}
    <3>1. CASE faults' = faults
      BY <1>1, <3>1
    <3>2. CASE faults' = faults + 1
      BY <1>1, <1>3, <3>2
    <3> QED BY <1>4, <3>1, <3>2
  <2>6. Untouched
    BY <2>3, <2>4 DEF Untouched
  <2> QED BY <1>4, <2>5, <2>6, UntouchedStep
\* The call ends without a document.
<1>5. ASSUME Finish(r), UNCHANGED status
      PROVE  /\ InEscrow(t)' = 0 /\ Stage(t)' = "void"
             /\ Holds(r, t) => Stage(t) = "taken" /\ InEscrow(t) = Amount[t]
             /\ job[r].pc = "deduct" => Stage(t) = "open" /\ InEscrow(t) = 0
             /\ \A u \in Transfers \ {t} : InEscrow(u)' = InEscrow(u) /\ Stage(u)' = Stage(u)
  <2>1. /\ \A q \in Jobs \ {r} : job'[q] = job[q]
        /\ job'[r].op # "create"
    BY <1>5, CreatorEnds
  <2>2. ~Holds(r, t)' /\ (job[r].pc = "deduct" => ~Holds(r, t)) /\ status'[t] = "None"
    BY <1>1, <1>2, <1>5, <2>1 DEF Holds, Creates, IInv, OneCreator
  <2>3. /\ InEscrow(t)' = 0
        /\ Holds(r, t) => InEscrow(t) = Amount[t]
        /\ ~Holds(r, t) => InEscrow(t) = 0
        /\ \A u \in Transfers \ {t} : InEscrow(u)' = InEscrow(u)
    BY <1>1, <1>2, <1>5, <2>1, <2>2, CreatorHolds
  <2>4. /\ Stage(t)' = "void"
        /\ Holds(r, t) => Stage(t) = "taken"
        /\ job[r].pc = "deduct" => Stage(t) = "open"
        /\ \A u \in Transfers \ {t} : Stage(u)' = Stage(u)
    BY <1>1, <1>2, <1>5, <2>1, <2>2, CreatorStage
  <2> QED BY <2>2, <2>3, <2>4
<1>6. CASE DeductForTransfer(r)
  <2>0. job[r].pc = "deduct" /\ status' = status /\ faults' = faults
    BY <1>6 DEF DeductForTransfer, At
  <2>1. CASE Finish(r) /\ UNCHANGED balance
    <3>1. Turned(t, "open", "void")
      BY <1>5, <2>0, <2>1 DEF Turned
    <3>2. \A u \in Transfers : InEscrow(u)' = InEscrow(u)
      BY <1>5, <2>0, <2>1
    <3>3. Contract!Decline(t)
      BY <1>1, <2>0, <2>1, <3>1, <3>2, MappedTurn DEF Contract!Decline
    <3> QED BY <3>3 DEF ContractStep, Contract!Next
  <2>2. CASE /\ Goto(r, "insert") /\ balance[Sender[t]] >= Amount[t]
             /\ balance' = [balance EXCEPT ![Sender[t]] = @ - Amount[t]]
    <3>1. /\ \A q \in Jobs \ {r} : job'[q] = job[q]
          /\ job'[r].t = t /\ job'[r].op = "create" /\ job'[r].pc = "insert"
      BY <1>1, <1>2, <2>2, CreatorMoves DEF Pcs
    <3>2. Holds(r, t)' /\ status'[t] = "None"
      BY <1>1, <1>2, <2>0, <3>1 DEF Holds, Creates, IInv, OneCreator
    <3>3. /\ InEscrow(t)' = Amount[t]
          /\ \A u \in Transfers \ {t} : InEscrow(u)' = InEscrow(u)
      BY <1>1, <1>2, <2>0, <3>1, <3>2, CreatorHolds
    <3>4. Turned(t, "open", "taken")
      BY <1>1, <1>2, <2>0, <3>1, <3>2, CreatorStage DEF Turned
    <3>5. Contract!Take(t)
      BY <1>1, <2>0, <2>2, <3>3, <3>4, MappedTurn DEF Contract!Take
    <3> QED BY <3>5 DEF ContractStep, Contract!Next
  <2> QED BY <1>2, <1>6, <2>1, <2>2 DEF DeductForTransfer
<1>7. CASE InsertTransfer(r)
  <2>0. Holds(r, t) /\ balance' = balance
    BY <1>1, <1>2, <1>7 DEF InsertTransfer, At, Holds, Creates
  <2>1. CASE Finish(r) /\ status' = [status EXCEPT ![t] = "Pending"] /\ UNCHANGED faults
    <3>1. /\ \A q \in Jobs \ {r} : job'[q] = job[q]
          /\ job'[r].op # "create"
      BY <2>1, CreatorEnds
    <3>2. status'[t] # "None" /\ \A u \in Transfers \ {t} : status'[u] = status[u]
      BY <2>1 DEF IInv, TypeOK
    <3>3. \A u \in Transfers : InEscrow(u)' = InEscrow(u)
      BY <1>1, <1>2, <2>0, <3>1, <3>2, CreatorHolds
    <3>4. Turned(t, "taken", "held")
      BY <1>1, <1>2, <2>0, <3>1, <3>2, CreatorStage DEF Turned
    <3>5. Contract!Hold(t)
      BY <1>1, <2>0, <2>1, <3>3, <3>4, MappedTurn DEF Contract!Hold
    <3> QED BY <3>5 DEF ContractStep, Contract!Next
  <2>2. CASE /\ Goto(r, "duplicate") \/ Goto(r, "refundOnce")
             /\ status' = status /\ faults' \in {faults, faults + 1}
    BY <1>4, <2>0, <2>2
  <2> QED BY <1>2, <1>7, <2>1, <2>2 DEF InsertTransfer, Fault
<1>8. CASE LookUpDuplicate(r)
  <2>1. Holds(r, t) /\ UNCHANGED <<status, balance>>
    BY <1>1, <1>2, <1>8 DEF LookUpDuplicate, At, Holds, Creates
  <2>2. /\ Goto(r, "refundTwice") \/ Goto(r, "refundOnce")
        /\ faults' \in {faults, faults + 1}
    BY <1>8 DEF LookUpDuplicate, Fault
  <2> QED BY <1>4, <2>1, <2>2
<1>9. CASE RefundDeduction(r)
  <2>0. Holds(r, t) /\ status' = status
    BY <1>1, <1>2, <1>9 DEF RefundDeduction, Holds, Creates
  <2>1. CASE /\ balance' = [balance EXCEPT ![Sender[t]] = @ + Amount[t]]
             /\ Finish(r) /\ faults' = faults
    <3>1. Turned(t, "taken", "void")
      BY <1>5, <2>0, <2>1 DEF Turned
    <3>2. InEscrow(t)' = 0 /\ \A u \in Transfers \ {t} : InEscrow(u)' = InEscrow(u)
      BY <1>5, <2>0, <2>1
    <3>3. Contract!GiveBack(t)
      BY <1>1, <2>1, <3>1, <3>2, MappedTurn DEF Contract!GiveBack
    <3> QED BY <3>3 DEF ContractStep, Contract!Next
  <2>2. CASE Fault /\ Goto(r, "refundOnce") /\ balance' = balance
    BY <1>4, <2>0, <2>2 DEF Fault
  <2>3. CASE Fault /\ Finish(r) /\ balance' = balance
    <3>1. faults' + crashes' = faults + crashes + 1
      BY <1>1, <1>3, <2>3 DEF Fault
    <3>2. /\ \A u \in {t} : Stage(u) \in {"open", "taken"} /\ Stage(u)' = "void" /\ InEscrow(u)' = 0
          /\ \A u \in Transfers \ {t} : Stage(u)' = Stage(u) /\ InEscrow(u)' = InEscrow(u)
      BY <1>5, <2>0, <2>3
    <3> QED BY <2>3, <3>1, <3>2, FailStep
  <2> QED BY <1>2, <1>9, <2>1, <2>2, <2>3 DEF RefundDeduction
<1> QED BY <1>6, <1>7, <1>8, <1>9

\* The deduction throws.
LEMMA DeductThrows ==
  ASSUME IInv, NEW r \in Jobs, CallThrows(r), At(r, "create", "deduct")
  PROVE  ContractStep
<1>1. PICK t \in Transfers : t = job[r].t
  BY DEF At, IInv, HasTransfer
<1>2. /\ \A q \in Jobs \ {r} : job'[q] = job[q]
      /\ job'[r].op # "create"
      /\ UNCHANGED <<status, balance, payout, issued, crashes>>
      /\ faults' = faults + 1
  BY CreatorEnds DEF CallThrows, Fault
<1>3. ~Holds(r, t) /\ ~Holds(r, t)' /\ status'[t] = "None"
  BY <1>1, <1>2 DEF Holds, Creates, At, IInv, OneCreator
<1>4. /\ InEscrow(t)' = 0
      /\ \A u \in Transfers \ {t} : InEscrow(u)' = InEscrow(u)
  BY <1>1, <1>2, <1>3, CreatorHolds DEF At
<1>5. /\ Stage(t) = "open" /\ Stage(t)' = "void"
      /\ \A u \in Transfers \ {t} : Stage(u)' = Stage(u)
  BY <1>1, <1>2, <1>3, CreatorStage DEF At
<1>6. faults' + crashes' = faults + crashes + 1
  BY <1>2 DEF IInv, TypeOK
<1>7. /\ \A u \in {t} : Stage(u) \in {"open", "taken"} /\ Stage(u)' = "void" /\ InEscrow(u)' = 0
      /\ \A u \in Transfers \ {t} : Stage(u)' = Stage(u) /\ InEscrow(u)' = InEscrow(u)
  BY <1>4, <1>5
<1> QED BY <1>2, <1>6, <1>7, FailStep

\* A credit.
LEMMA CreditContract ==
  ASSUME IInv, IInv', NEW r \in Jobs, PaySender(r) \/ PayReceiver(r)
  PROVE  ContractStep
<1>1. PICK t \in Transfers, d \in Nat :
         /\ status[t] # "None"
         /\ Moves(Sender[t], t, d) \/ Moves(Receiver[t], t, d)
  BY CreditMoves
<1>2. /\ \A q \in Jobs \ {r} : job'[q] = job[q]
      /\ job[r].op # "create" /\ job'[r].op # "create"
      /\ UNCHANGED <<status, issued, faults, crashes>>
  BY CreditMoves
<1>3. \A u \in Transfers : Stage(u)' = Stage(u)
  <2>1. \A q \in Jobs, u \in Transfers :
           /\ Holds(q, u)' <=> Holds(q, u)
           /\ Creates(q, u)' /\ job'[q].pc = "deduct" <=> Creates(q, u) /\ job[q].pc = "deduct"
    BY <1>2 DEF Holds, Creates
  <2> QED BY <1>2, <2>1 DEF Stage
<1>4. Stage(t) = "held"
  BY <1>1 DEF Stage
<1>5. InEscrow(t) \in Nat /\ InEscrow(t)' \in Nat
  BY InEscrowNat, EscrowNatNext
<1>6. ASSUME NEW u, Moves(u, t, d)
      PROVE  Contract!Pay(t, u)
  <2>1. InEscrow(t)' \in 0..InEscrow(t) /\ InEscrow(t) - InEscrow(t)' = d
    BY <1>5, <1>6 DEF Moves
  <2>2. \A v \in Transfers \ {t} : InEscrow(v)' = InEscrow(v)
    BY <1>6 DEF Moves
  <2>3. balance' = [balance EXCEPT ![u] = @ + (InEscrow(t) - InEscrow(t)')]
    BY <1>6, <2>1 DEF Moves
  <2> QED BY <1>2, <1>3, <1>4, <2>1, <2>2, <2>3 DEF Contract!Pay
<1> QED BY <1>1, <1>6 DEF ContractStep, Contract!Next

\* The process dies: what creating calls had in hand is given up.
LEMMA CrashContract ==
  ASSUME IInv, Crash
  PROVE  ContractStep
<1>1. /\ UNCHANGED <<status, balance, payout, issued>>
      /\ faults' + crashes' = faults + crashes + 1
      /\ \A r \in Jobs : job'[r].op # "create"
  BY DEF Crash, Idle, IInv, TypeOK
<1>2. \A t \in Transfers, r \in Jobs : ~Holds(r, t)' /\ ~Creates(r, t)'
  BY <1>1 DEF Holds, Creates
<1> DEFINE T == {t \in Transfers : Stage(t) \in {"open", "taken"} /\ Stage(t)' = "void"}
<1>3. ASSUME NEW t \in Transfers
      PROVE  /\ t \in T => InEscrow(t)' = 0
             /\ t \notin T => Stage(t)' = Stage(t) /\ InEscrow(t)' = InEscrow(t)
  <2>1. CASE status[t] # "None"
    BY <1>1, <2>1 DEF Stage, InEscrow
  <2>2. CASE status[t] = "None"
    <3>1. InEscrow(t)' = 0
      BY <1>1, <1>2, <2>2 DEF InEscrow
    <3>2. CASE t \notin issued
      <4>1. \A r \in Jobs : ~Holds(r, t)
        BY <3>2 DEF Holds, IInv, OneCreator
      <4> QED BY <1>1, <1>2, <2>2, <3>1, <3>2, <4>1 DEF Stage, InEscrow
    <3>3. CASE t \in issued
      <4>1. Stage(t)' = "void"
        BY <1>1, <1>2, <2>2, <3>3 DEF Stage
      <4>2. Stage(t) \in {"open", "taken", "void"}
        BY <2>2 DEF Stage
      <4>3. Stage(t) = "void" => InEscrow(t) = 0
        BY <2>2 DEF Stage, InEscrow
      <4> QED BY <3>1, <4>1, <4>2, <4>3
    <3> QED BY <3>2, <3>3
  <2> QED BY <2>1, <2>2
<1> HIDE DEF T
<1>4. T \in SUBSET Transfers /\ \A t \in T : Stage(t) \in {"open", "taken"} /\ Stage(t)' = "void"
  BY DEF T
<1> QED BY <1>1, <1>3, <1>4, FailStep

\* Every step of the service is a step of the contract or none.
LEMMA NextContract ==
  ASSUME IInv, IInv', [Next]_vars
  PROVE  ContractStep
<1>1. ASSUME NEW r \in Jobs, NEW t \in Transfers, Arrive(r, t) \/ BeginAutoRelease(r, t)
      PROVE  ContractStep
  BY <1>1, ArrivePasses, PassesContract, DrawContract
<1>2. ASSUME NEW r \in Jobs, Proceed(r)
      PROVE  ContractStep
  BY <1>2, TransferStepPasses, DisputeStepPasses, ThrowPasses, PassesContract, CreateContract,
     CreditContract DEF Proceed, WalletStep
<1>3. ASSUME NEW r \in Jobs, CallThrows(r)
      PROVE  ContractStep
  BY <1>3, ThrowPasses, PassesContract, DeductThrows
<1>4. CASE (\E t \in Transfers : Expire(t)) \/ UNCHANGED vars
  <2>1. UNCHANGED <<status, balance, issued, payout, job, faults, crashes>>
    BY <1>4 DEF Expire, vars
  <2>2. Untouched
    BY <2>1 DEF Untouched, Stage, InEscrow, Holds, Creates
  <2> QED BY <2>1, <2>2, UntouchedStep DEF IInv, TypeOK
<1>5. CASE Crash
  BY <1>5, CrashContract
<1> QED BY <1>1, <1>2, <1>3, <1>4, <1>5 DEF Next, Jobs

LEMMA InitContract == Init => Contract!Init
<1> SUFFICES ASSUME Init PROVE Contract!Init
  OBVIOUS
<1>1. \A t \in Transfers, r \in Jobs : ~Holds(r, t)
  BY DEF Init, Idle, Holds, Creates
<1>2. \A t \in Transfers : Stage(t) = "open" /\ InEscrow(t) = 0
  BY <1>1 DEF Init, Stage, InEscrow
<1> QED BY <1>2 DEF Init, Contract!Init

\* The escrow implements its contract: for any transfers, users, concurrent
\* handlers, sweeps, failures and crashes the sender of a transfer is debited
\* once, is given the whole back or has it held, only the two parties are paid
\* from what is held, and nothing is lost but by a failure before it is held.
THEOREM EscrowKeepsContract == Spec => ImplementsEscrowContract
<1>1. IInv /\ IInv' /\ [Next]_vars => [Contract!Next]_(Contract!contractVars)
  BY NextContract DEF ContractStep
<1> QED BY <1>1, InitContract, Invariant, PTL DEF Spec, ImplementsEscrowContract, Contract!Spec

=============================================================================
