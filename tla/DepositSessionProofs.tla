------------------------ MODULE DepositSessionProofs ------------------------
(***************************************************************************)
(* Two components with nothing in common.  The first part proves that a    *)
(* payment is credited once, for any deposits, payments, administrators,   *)
(* faults and crashes; the second that SessionsInv is inductive and        *)
(* implies the properties of the sessions of a user, for any number of     *)
(* sessions and requests.                                                  *)
(***************************************************************************)
EXTENDS Deposit, Sessions, FiniteSetTheorems, TLAPS

-----------------------------------------------------------------------------
(* The inductive invariant of the deposits, behind PaymentCreditedOnce,    *)
(* CreditedIsApproved and ApprovedIsCredited.                              *)

\* The handler that has approved d and not yet credited it.
Owns(s, d) == job[s].d = d /\ job[s].pc \in {"credit", "undo"}

\* The approval of d is owned by at most one handler, which has made no credit.
OneOwner(d) ==
    /\ \A s, t \in Admins : Owns(s, d) /\ Owns(t, d) => s = t
    /\ \A s \in Admins : Owns(s, d) => status[d] = "Approved" /\ credits[d] = 0
    /\ credits[d] > 0 => status[d] = "Approved" /\ credits[d] = 1

OneDepositPerPayment ==
    \A d, e \in Deposits :
        Payment[d] = Payment[e] /\ status[d] # "None" /\ status[e] # "None" => d = e

NotYetThere == \A d \in Deposits : create[d] # "done" => status[d] = "None"

OnExisting ==
    \A s \in Admins :
        job[s].pc # "idle" => job[s].d \in Deposits /\ status[job[s].d] # "None"

IInv ==
    /\ TypeOK
    /\ OneDepositPerPayment
    /\ NotYetThere
    /\ OnExisting
    /\ \A d \in Deposits : OneOwner(d)

\* What ApprovedIsCredited needs beside it: a handler that rolls back has met a
\* fault, only credited deposits are linked, and an approval that no fault or
\* crash took the handler from is credited or has its handler.
NothingLost ==
    /\ \A s \in Admins : job[s].pc = "undo" => faults > 0
    /\ \A s \in Admins : job[s].pc = "link" => credits[job[s].d] > 0
    /\ \A d \in linked : credits[d] > 0
    /\ faults <= 1 /\ crashes = 0 =>
          \A d \in Deposits : status[d] = "Approved" => credits[d] = 1 \/ \E s \in Admins : Owns(s, d)

-----------------------------------------------------------------------------
(* The inductive invariant of the sessions, behind OneLivePerFamily,       *)
(* SessionLimit and LoggedOutStaysOut.                                     *)

\* A used session is revoked, and the first of a family is on record.
RowsFit ==
    \A s \in Sessions :
        /\ ~row[s].exists => row[s] = NoRow
        /\ row[s].exists => row[s].family \in Sessions /\ row[row[s].family].exists
        /\ row[s].used => row[s].revoked

\* What a request holds.
RequestsFit ==
    \A q \in Requests :
        /\ req[q].pc = "evict" \/ req[q].op = "refresh" =>
              req[q].s \in Sessions /\ row[req[q].s].exists
        /\ req[q].pc = "write" => req[q].op = "refresh"
        /\ req[q].pc = "idle" => req[q].op = "none"
        /\ req[q].pc \in {"evict", "insert"} => req[q].op = "create"

\* OneLivePerFamily without the revocations, which a rotation does not ask for.
OneUnusedPerFamily ==
    \A s, u \in Sessions :
        /\ row[s].exists /\ ~row[s].used
        /\ row[u].exists /\ ~row[u].used
        /\ row[s].family = row[u].family
        => s = u

ParentsUsed == \A s \in Sessions : parent[s] # None => row[parent[s]].used

NobodyReturns ==
    closed => /\ \A s \in Sessions : ~Live(s)
              /\ \A q \in Requests : ~Makes(req[q])

\* The one request there is has room for the session it will make: a free
\* place, or the place of the session it is going to replace, even when that
\* one has expired or been revoked since.
HasRoom ==
    ~loose =>
        /\ Cardinality(Active) <= MaxConcurrentSessions
        /\ \A p, q \in Requests : req[p].pc # "idle" /\ req[q].pc # "idle" => p = q
        /\ \A q \in Requests :
              /\ req[q].pc = "insert" => Cardinality(Active) < MaxConcurrentSessions
              /\ req[q].pc = "evict" \/ req[q].op = "refresh" =>
                    Cardinality(Active \cup {req[q].s}) <= MaxConcurrentSessions

SessionsInv ==
    /\ SessionsTypeOK
    /\ RowsFit
    /\ RequestsFit
    /\ OneUnusedPerFamily
    /\ ParentsUsed
    /\ TokenExchangedOnce
    /\ NobodyReturns
    /\ HasRoom

-----------------------------------------------------------------------------
(* Deposits.                                                               *)

JobType == [Admins -> [pc : JobPcs, d : Deposits \cup {NoDeposit}]]

\* A handler that goes on stays on its deposit.
LEMMA Moved ==
  ASSUME TypeOK, NEW s \in Admins, NEW p \in JobPcs, Goto(s, p)
  PROVE  /\ job' \in JobType
         /\ job'[s].pc = p /\ job'[s].d = job[s].d
         /\ \A t \in Admins : t # s => job'[t] = job[t]
<1>1. [pc |-> p, d |-> job[s].d] \in [pc : JobPcs, d : Deposits \cup {NoDeposit}]
  BY DEF TypeOK
<1> QED
  BY <1>1 DEF TypeOK, Goto, JobType

\* A handler that ends leaves an idle slot.
LEMMA Freed ==
  ASSUME TypeOK, NEW s \in Admins, Finish(s)
  PROVE  /\ job' \in JobType
         /\ job'[s].pc = "idle"
         /\ \A t \in Admins : t # s => job'[t] = job[t]
<1>1. Idle \in [pc : JobPcs, d : Deposits \cup {NoDeposit}]
  BY DEF Idle, JobPcs
<1> QED
  BY <1>1 DEF TypeOK, Finish, JobType, Idle

\* The empty collection of deposits satisfies the invariant.
LEMMA Initial == Init => IInv
BY DepositAssumption
   DEF Init, IInv, TypeOK, Idle, JobPcs, Statuses, OneDepositPerPayment, NotYetThere, OnExisting,
       OneOwner, Owns

\* The look-up of CreateRequestAsync only moves the creating call.
LEMMA LookUpKept == ASSUME IInv, NEW d \in Deposits, LookUpPayment(d) PROVE IInv'
<1> USE DEF IInv, LookUpPayment
<1>1. TypeOK' /\ NotYetThere'
  BY DEF TypeOK, NotYetThere
<1>2. OneDepositPerPayment' /\ OnExisting' /\ \A e \in Deposits : OneOwner(e)'
  BY DEF OneDepositPerPayment, OnExisting, OneOwner, Owns
<1> QED
  BY <1>1, <1>2

\* The unique index makes the inserted deposit the only one of its payment; it
\* did not exist, so no handler is on it and nothing was credited for it.
LEMMA InsertKept == ASSUME IInv, NEW d \in Deposits, InsertDeposit(d) PROVE IInv'
<1> USE DepositAssumption DEF IInv
<1>0. /\ create[d] = "insert" /\ status[d] = "None"
      /\ create' = [create EXCEPT ![d] = "done"]
      /\ UNCHANGED <<linked, credits, job, crashes>>
      /\ faults' \in Nat
      /\ \/ status' = status
         \/ SamePayment(d) = {} /\ status' = [status EXCEPT ![d] = "Pending"]
  BY DEF InsertDeposit, SetStatus, Fault, NotYetThere, TypeOK
<1>1. TypeOK'
  BY <1>0 DEF TypeOK, Statuses
<1>2. OneDepositPerPayment'
  BY <1>0 DEF OneDepositPerPayment, SamePayment, TypeOK
<1>3. NotYetThere'
  BY <1>0 DEF NotYetThere, TypeOK
<1>4. OnExisting'
  BY <1>0 DEF OnExisting, TypeOK
<1>5. ASSUME NEW e \in Deposits PROVE OneOwner(e)'
  <2>1. OneOwner(e)
    OBVIOUS
  <2>2. CASE e = d
    BY <1>0, <2>1, <2>2 DEF OneOwner, Owns, OnExisting, TypeOK
  <2>3. CASE e # d
    <3>1. status'[e] = status[e]
      BY <1>0, <2>3 DEF TypeOK
    <3> QED
      BY <1>0, <2>1, <3>1 DEF OneOwner, Owns
  <2> QED
    BY <2>2, <2>3
<1> QED
  BY <1>1, <1>2, <1>3, <1>4, <1>5

\* A handler starts on a Pending deposit and owns nothing yet.
LEMMA BeginKept ==
  ASSUME IInv, NEW s \in Admins, NEW d \in Deposits, Begin(s, d)
  PROVE  IInv'
<1> USE DEF IInv
<1>1. /\ UNCHANGED <<status, linked, credits, create, faults, crashes>>
      /\ status[d] = "Pending"
      /\ \E p \in {"claim", "reject"} : job' = [job EXCEPT ![s] = [pc |-> p, d |-> d]]
  BY DEF Begin, BeginApprove, BeginReject
<1>2. TypeOK'
  BY <1>1 DEF TypeOK, JobPcs
<1>3. OneDepositPerPayment' /\ NotYetThere'
  BY <1>1 DEF OneDepositPerPayment, NotYetThere
<1>4. OnExisting'
  BY <1>1 DEF OnExisting, TypeOK
<1>5. ASSUME NEW e \in Deposits PROVE OneOwner(e)'
  <2>1. \A t \in Admins : Owns(t, e)' => Owns(t, e)
    BY <1>1 DEF Owns, TypeOK
  <2> QED
    BY <1>1, <2>1 DEF OneOwner
<1> QED
  BY <1>2, <1>3, <1>4, <1>5

\* What every step of a handler of deposit v has in common: the status it
\* leaves is one of an existing deposit, and only its own slot moves.
Step(s, v) ==
    /\ UNCHANGED <<create, crashes>>
    /\ faults' \in Nat
    /\ job' \in JobType
    /\ \A t \in Admins : t # s => job'[t] = job[t]
    /\ job'[s].pc # "idle" => job'[s].d = v
    /\ \E st \in Statuses : status' = [status EXCEPT ![v] = st]
    /\ linked' \subseteq Deposits
    /\ \E n \in Nat : credits' = [credits EXCEPT ![v] = n]

\* Such a step keeps the invariant if it keeps the part about its own deposit.
LEMMA StepKept ==
  ASSUME IInv, NEW s \in Admins, NEW v \in Deposits,
         job[s].d = v, status[v] # "None", Step(s, v), OneOwner(v)'
  PROVE  IInv'
<1> USE DEF IInv
<1>1. TypeOK'
  <2>1. status' \in [Deposits -> Statuses \cup {"None"}]
    BY DEF Step, TypeOK
  <2>2. credits' \in [Deposits -> Nat]
    BY DEF Step, TypeOK
  <2> QED
    BY <2>1, <2>2 DEF Step, TypeOK, JobType
<1>2. \A e \in Deposits : (status'[e] = "None") = (status[e] = "None")
  BY DEF Step, TypeOK, Statuses
<1>3. OneDepositPerPayment'
  BY <1>2 DEF OneDepositPerPayment
<1>4. NotYetThere'
  BY <1>2 DEF NotYetThere, Step
<1>5. OnExisting'
  <2> SUFFICES ASSUME NEW t \in Admins, job'[t].pc # "idle"
               PROVE  job'[t].d \in Deposits /\ status'[job'[t].d] # "None"
    BY DEF OnExisting
  <2>1. job'[t].d \in Deposits /\ status[job'[t].d] # "None"
    <3>1. CASE t = s
      BY <3>1 DEF Step
    <3>2. CASE t # s
      BY <3>2 DEF Step, OnExisting
    <3> QED
      BY <3>1, <3>2
  <2> QED
    BY <1>2, <2>1
<1>6. ASSUME NEW e \in Deposits PROVE OneOwner(e)'
  <2>1. CASE e = v
    BY <2>1
  <2>2. CASE e # v
    <3>1. status'[e] = status[e] /\ credits'[e] = credits[e]
      BY <2>2 DEF Step, TypeOK
    <3>2. \A t \in Admins : Owns(t, e)' => Owns(t, e)
      BY <2>2 DEF Step, Owns
    <3> QED
      BY <3>1, <3>2 DEF OneOwner
  <2> QED
    BY <2>1, <2>2
<1> QED
  BY <1>1, <1>3, <1>4, <1>5, <1>6

\* One ApproveAsync finds the status Pending; it becomes the owner, and since
\* a Pending deposit has neither owner nor credit, the only one.
LEMMA ClaimApproveKept == ASSUME IInv, NEW s \in Admins, ClaimApprove(s) PROVE IInv'
<1> USE DEF IInv
<1>1. PICK v \in Deposits : job[s].d = v
  BY DEF OnExisting, ClaimApprove
<1>2. v \in Deposits /\ status[v] # "None" /\ OneOwner(v) /\ ~Owns(s, v)
  BY <1>1 DEF OnExisting, ClaimApprove, Owns
<1>3. /\ job' \in JobType
      /\ \A t \in Admins : t # s => job'[t] = job[t]
      /\ \/ status[v] = "Pending" /\ job'[s].pc = "credit" /\ job'[s].d = v
            /\ status' = [status EXCEPT ![v] = "Approved"]
         \/ status[v] # "Pending" /\ job'[s].pc = "idle" /\ status' = status
  BY <1>1, Moved, Freed DEF ClaimApprove, SetStatus, JobPcs
<1>4. UNCHANGED <<linked, credits, create, faults, crashes>>
  BY DEF ClaimApprove
<1>5. Step(s, v)
  BY <1>2, <1>3, <1>4 DEF Step, TypeOK, Statuses
<1>6. OneOwner(v)'
  <2>1. \A t \in Admins : Owns(t, v)' => Owns(t, v) \/ (t = s /\ status[v] = "Pending")
    BY <1>3 DEF Owns
  <2> QED
    BY <1>2, <1>3, <1>4, <2>1 DEF OneOwner, TypeOK
<1> QED
  BY <1>1, <1>2, <1>5, <1>6, StepKept

\* The owner credits once and is the owner no more.
LEMMA CreditKept == ASSUME IInv, NEW s \in Admins, CreditDeposit(s) PROVE IInv'
<1> USE DEF IInv
<1>1. PICK v \in Deposits : job[s].d = v
  BY DEF OnExisting, CreditDeposit
<1>2. v \in Deposits /\ status[v] # "None" /\ OneOwner(v) /\ Owns(s, v)
  BY <1>1 DEF OnExisting, CreditDeposit, Owns
<1>3. /\ job' \in JobType
      /\ \A t \in Admins : t # s => job'[t] = job[t]
      /\ job'[s].d = v
      /\ \/ job'[s].pc = "link" /\ credits' = [credits EXCEPT ![v] = @ + 1]
         \/ job'[s].pc = "undo" /\ credits' = credits
  BY <1>1, Moved DEF CreditDeposit, JobPcs
<1>4. UNCHANGED <<status, linked, create, crashes>> /\ faults' \in Nat
  BY <1>1 DEF CreditDeposit, Fault, TypeOK
<1>5. Step(s, v)
  <2>1. \E n \in Nat : credits' = [credits EXCEPT ![v] = n]
    BY <1>2, <1>3 DEF TypeOK
  <2>2. \E st \in Statuses : status' = [status EXCEPT ![v] = st]
    BY <1>2, <1>4 DEF TypeOK
  <2> QED
    BY <1>3, <1>4, <2>1, <2>2 DEF Step, TypeOK
<1>6. OneOwner(v)'
  <2>1. \A t \in Admins : Owns(t, v)' => t = s /\ credits' = credits
    BY <1>2, <1>3 DEF Owns, OneOwner
  <2>2. status'[v] = "Approved" /\ credits[v] = 0 /\ (credits'[v] = 0 \/ credits'[v] = 1)
    BY <1>2, <1>3, <1>4 DEF OneOwner, TypeOK
  <2> QED
    BY <2>1, <2>2 DEF OneOwner
<1> QED
  BY <1>1, <1>2, <1>5, <1>6, StepKept

\* Only the owner rolls back, and the owner has credited nothing.
LEMMA UndoKept == ASSUME IInv, NEW s \in Admins, UndoApprove(s) PROVE IInv'
<1> USE DEF IInv
<1>1. PICK v \in Deposits : job[s].d = v
  BY DEF OnExisting, UndoApprove
<1>2. v \in Deposits /\ status[v] # "None" /\ OneOwner(v) /\ Owns(s, v)
  BY <1>1 DEF OnExisting, UndoApprove, Owns
<1>3. /\ job' \in JobType
      /\ \A t \in Admins : t # s => job'[t] = job[t]
      /\ job'[s].pc = "idle"
  BY <1>1, Freed DEF UndoApprove
<1>4. /\ UNCHANGED <<linked, credits, create, crashes>> /\ faults' \in Nat
      /\ status' = status \/ status' = [status EXCEPT ![v] = "Pending"]
  BY <1>1 DEF UndoApprove, SetStatus, Fault, TypeOK
<1>5. Step(s, v)
  BY <1>2, <1>3, <1>4 DEF Step, TypeOK, Statuses
<1>6. OneOwner(v)'
  <2>1. \A t \in Admins : ~Owns(t, v)'
    BY <1>2, <1>3 DEF Owns, OneOwner
  <2> QED
    BY <1>2, <1>4, <2>1 DEF OneOwner, TypeOK
<1> QED
  BY <1>1, <1>2, <1>5, <1>6, StepKept

\* Linking the wallet transaction, and a call that throws, end a handler that
\* owns nothing and leave status and credits alone.
LEMMA EndKept ==
  ASSUME IInv, NEW s \in Admins, LinkTransaction(s) \/ CallThrows(s)
  PROVE  IInv'
<1> USE DEF IInv
<1>1. PICK v \in Deposits : job[s].d = v
  BY DEF OnExisting, LinkTransaction, CallThrows
<1>2. v \in Deposits /\ status[v] # "None" /\ OneOwner(v)
  BY <1>1 DEF OnExisting, LinkTransaction, CallThrows
<1>3. /\ job' \in JobType
      /\ \A t \in Admins : t # s => job'[t] = job[t]
      /\ job'[s].pc = "idle"
  BY <1>1, Freed DEF LinkTransaction, CallThrows
<1>4. /\ UNCHANGED <<status, credits, create, crashes>> /\ faults' \in Nat
      /\ linked' = linked \/ linked' = linked \cup {v}
  BY <1>1 DEF LinkTransaction, CallThrows, Fault, TypeOK
<1>5. Step(s, v)
  BY <1>2, <1>3, <1>4 DEF Step, TypeOK
<1>6. OneOwner(v)'
  <2>1. \A t \in Admins : Owns(t, v)' => Owns(t, v)
    BY <1>3 DEF Owns
  <2> QED
    BY <1>2, <1>4, <2>1 DEF OneOwner
<1> QED
  BY <1>1, <1>2, <1>5, <1>6, StepKept

\* RejectAsync takes a Pending deposit only, which nobody owns or has credited.
LEMMA ClaimRejectKept == ASSUME IInv, NEW s \in Admins, ClaimReject(s) PROVE IInv'
<1> USE DEF IInv
<1>1. PICK v \in Deposits : job[s].d = v
  BY DEF OnExisting, ClaimReject
<1>2. v \in Deposits /\ status[v] # "None" /\ OneOwner(v)
  BY <1>1 DEF OnExisting, ClaimReject
<1>3. /\ job' \in JobType
      /\ \A t \in Admins : t # s => job'[t] = job[t]
      /\ job'[s].pc = "idle"
  BY <1>1, Freed DEF ClaimReject
<1>4. /\ UNCHANGED <<linked, credits, create, faults, crashes>>
      /\ \/ status' = status
         \/ status[v] = "Pending" /\ status' = [status EXCEPT ![v] = "Rejected"]
  BY <1>1 DEF ClaimReject, SetStatus
<1>5. Step(s, v)
  BY <1>2, <1>3, <1>4 DEF Step, TypeOK, Statuses
<1>6. OneOwner(v)'
  <2>1. \A t \in Admins : Owns(t, v)' => Owns(t, v)
    BY <1>3 DEF Owns
  <2> QED
    BY <1>2, <1>4, <2>1 DEF OneOwner, TypeOK
<1> QED
  BY <1>1, <1>2, <1>5, <1>6, StepKept

\* A dead process of DepositService leaves the collection and the wallets alone.
LEMMA CrashKept == ASSUME IInv, Crash PROVE IInv'
BY DepositAssumption
   DEF IInv, Crash, TypeOK, Idle, JobPcs, OneDepositPerPayment, NotYetThere, OnExisting, OneOwner, Owns

\* The invariant of DepositService holds in every reachable state.
THEOREM Invariance == Spec => []IInv
<1>1. IInv /\ [Next]_vars => IInv'
  <2> SUFFICES ASSUME IInv, [Next]_vars PROVE IInv'
    OBVIOUS
  <2>1. ASSUME NEW d \in Deposits, LookUpPayment(d) \/ InsertDeposit(d) PROVE IInv'
    BY <2>1, LookUpKept, InsertKept
  <2>2. ASSUME NEW s \in Admins, NEW d \in Deposits, Begin(s, d) PROVE IInv'
    BY <2>2, BeginKept
  <2>3. ASSUME NEW s \in Admins, AdminStep(s) PROVE IInv'
    BY <2>3, ClaimApproveKept, CreditKept, UndoKept, EndKept, ClaimRejectKept DEF AdminStep
  <2>4. CASE UNCHANGED vars
    BY <2>4 DEF vars, IInv, TypeOK, OneDepositPerPayment, NotYetThere, OnExisting, OneOwner, Owns
  <2> QED
    BY <2>1, <2>2, <2>3, <2>4, CrashKept DEF Next
<1> QED
  BY Initial, <1>1, PTL DEF Spec

\* No payment is credited twice (PaymentCreditedOnce): the unique index leaves
\* one deposit per external id, and ApproveAsync credits it at most once.
THEOREM CreditOnce == Spec => []PaymentCreditedOnce
<1>1. IInv => PaymentCreditedOnce
  BY DEF IInv, TypeOK, OneDepositPerPayment, OneOwner, PaymentCreditedOnce
<1> QED
  BY Invariance, <1>1, PTL

\* A credited deposit stays Approved (CreditedIsApproved): neither RejectAsync
\* nor a rollback of ApproveAsync reaches it.
THEOREM CreditKeepsApproval == Spec => []CreditedIsApproved
<1>1. IInv => CreditedIsApproved
  BY DEF IInv, OneOwner, CreditedIsApproved
<1> QED
  BY Invariance, <1>1, PTL

-----------------------------------------------------------------------------
(* One failed call loses nothing.                                          *)

\* A handler of v that leaves an owner or a credit behind an approval.
LEMMA NothingLostKept ==
  ASSUME IInv, IInv', NothingLost, NEW s \in Admins, NEW v \in Deposits,
         \A t \in Admins : t # s => job'[t] = job[t],
         \A d \in Deposits : d # v => status'[d] = status[d] /\ credits'[d] = credits[d],
         credits'[v] >= credits[v], faults' >= faults, crashes' = crashes,
         job[s].pc # "idle" => job[s].d = v,
         job'[s].pc = "undo" => faults' > 0,
         job'[s].pc = "link" => job'[s].d = v /\ credits'[v] > 0,
         linked' \subseteq linked \cup {v}, v \in linked' => v \in linked \/ credits[v] > 0,
         faults' <= 1 /\ status'[v] = "Approved" =>
             \/ credits'[v] = 1 \/ Owns(s, v)'
             \/ status[v] = "Approved" /\ ~Owns(s, v)
  PROVE  NothingLost'
<1>0. /\ TypeOK /\ credits \in [Deposits -> Nat] /\ credits' \in [Deposits -> Nat] /\ linked \subseteq Deposits
      /\ faults \in Nat /\ faults' \in Nat /\ crashes \in Nat
  BY DEF IInv, TypeOK
<1>1. \A d \in Deposits : credits[d] > 0 => credits'[d] > 0
  BY <1>0
<1>2. \A t \in Admins : job'[t].pc = "undo" => faults' > 0
  BY <1>0 DEF NothingLost
<1>3. \A t \in Admins : job'[t].pc = "link" => credits'[job'[t].d] > 0
  <2> SUFFICES ASSUME NEW t \in Admins, t # s, job[t].pc = "link" PROVE credits'[job[t].d] > 0
    OBVIOUS
  <2>1. job[t].d \in Deposits /\ credits[job[t].d] > 0
    BY DEF NothingLost, IInv, OnExisting
  <2> QED
    BY <1>1, <2>1
<1>4. \A d \in linked' : credits'[d] > 0
  BY <1>0, <1>1 DEF NothingLost
<1>5. ASSUME faults' <= 1, crashes' = 0, NEW d \in Deposits, status'[d] = "Approved"
      PROVE  credits'[d] = 1 \/ \E t \in Admins : Owns(t, d)'
  <2>0. faults <= 1 /\ crashes = 0
    BY <1>0, <1>5
  <2>1. ASSUME NEW t \in Admins, t # s, Owns(t, d) PROVE Owns(t, d)'
    BY <2>1 DEF Owns
  <2>2. CASE d # v
    <3>1. status[d] = "Approved" /\ credits'[d] = credits[d]
      BY <1>5, <2>2
    <3>2. ~Owns(s, d)
      BY <2>2 DEF Owns
    <3> QED
      BY <2>0, <2>1, <3>1, <3>2 DEF NothingLost
  <2>3. CASE d = v /\ status[v] = "Approved" /\ ~Owns(s, v)
    <3>1. credits[v] = 1 \/ \E t \in Admins : Owns(t, v)
      BY <2>0, <2>3 DEF NothingLost
    <3>2. credits[v] = 1 => credits'[v] = 1
      <4>1. OneOwner(v)'
        BY DEF IInv
      <4>2. credits'[v] > 0 => credits'[v] = 1
        BY <4>1 DEF OneOwner
      <4> QED
        BY <1>0, <4>2
    <3> QED
      BY <2>1, <2>3, <3>1, <3>2
  <2> QED
    BY <1>5, <2>2, <2>3
<1> QED
  BY <1>2, <1>3, <1>4, <1>5 DEF NothingLost

LEMMA NothingLostStep == IInv /\ IInv' /\ NothingLost /\ [Next]_vars => NothingLost'
<1> SUFFICES ASSUME IInv, IInv', NothingLost, [Next]_vars PROVE NothingLost'
  OBVIOUS
<1>0. /\ TypeOK /\ credits \in [Deposits -> Nat] /\ faults \in Nat /\ crashes \in Nat /\ OnExisting
      /\ status \in [Deposits -> Statuses \cup {"None"}]
  BY DEF IInv, TypeOK
<1>1. ASSUME NEW d \in Deposits, LookUpPayment(d) \/ InsertDeposit(d) PROVE NothingLost'
  <2>1. /\ UNCHANGED <<linked, credits, job, crashes>> /\ faults' \in {faults, faults + 1}
        /\ status' = status \/ status' = [status EXCEPT ![d] = "Pending"]
    BY <1>1 DEF LookUpPayment, InsertDeposit, Fault, SetStatus
  <2>2. \A e \in Deposits : status'[e] = "Approved" => status[e] = "Approved"
    BY <1>0, <2>1
  <2>3. \A s \in Admins, e \in Deposits : Owns(s, e)' <=> Owns(s, e)
    BY <2>1 DEF Owns
  <2>4. (faults' <= 1 => faults <= 1) /\ (faults > 0 => faults' > 0)
    BY <1>0, <2>1
  <2> QED
    BY <2>1, <2>2, <2>3, <2>4 DEF NothingLost
<1>2. ASSUME NEW s \in Admins, NEW d \in Deposits, Begin(s, d) PROVE NothingLost'
  <2>1. /\ UNCHANGED <<status, linked, credits, create, faults, crashes>> /\ job[s] = Idle /\ status[d] = "Pending"
        /\ \E p \in {"claim", "reject"} : job' = [job EXCEPT ![s] = [pc |-> p, d |-> d]]
    BY <1>2 DEF Begin, BeginApprove, BeginReject
  <2>2. /\ job'[s].pc \in {"claim", "reject"} /\ \A t \in Admins : t # s => job'[t] = job[t]
        /\ job[s].pc = "idle"
    BY <1>0, <2>1 DEF TypeOK, Idle
  <2>3. credits'[d] >= credits[d] /\ faults' >= faults
    BY <1>0, <2>1
  <2> QED
    BY <2>1, <2>2, <2>3, NothingLostKept
<1>3. ASSUME NEW s \in Admins, AdminStep(s) PROVE NothingLost'
  <2>0. job[s].pc # "idle"
    BY <1>3 DEF AdminStep, ClaimApprove, CreditDeposit, UndoApprove, LinkTransaction, ClaimReject, CallThrows
  <2>1. PICK v \in Deposits : job[s].d = v
    BY <1>0, <2>0 DEF OnExisting
  <2>2. OneOwner(v) /\ credits[v] \in Nat
    BY <1>0 DEF IInv
  <2>3. CASE ClaimApprove(s)
    <3>1. /\ \A t \in Admins : t # s => job'[t] = job[t]
          /\ \/ status' = [status EXCEPT ![v] = "Approved"] /\ job'[s].pc = "credit" /\ job'[s].d = v
             \/ status' = status /\ job'[s].pc = "idle"
          /\ UNCHANGED <<linked, credits, create, faults, crashes>> /\ job[s].pc = "claim"
      BY <1>0, <2>1, <2>3, Moved, Freed DEF ClaimApprove, SetStatus, JobPcs
    <3>2. /\ \A d \in Deposits : d # v => status'[d] = status[d]
          /\ status'[v] = "Approved" => Owns(s, v)' \/ (status[v] = "Approved" /\ ~Owns(s, v))
      BY <1>0, <3>1 DEF Owns
    <3> QED
      BY <1>0, <2>1, <2>2, <3>1, <3>2, NothingLostKept
  <2>4. CASE CreditDeposit(s)
    <3>1. /\ \A t \in Admins : t # s => job'[t] = job[t]
          /\ job'[s].d = v
          /\ \/ credits' = [credits EXCEPT ![v] = @ + 1] /\ job'[s].pc = "link" /\ faults' = faults
             \/ credits' = credits /\ job'[s].pc = "undo" /\ faults' = faults + 1
          /\ UNCHANGED <<status, linked, create, crashes>> /\ job[s].pc = "credit"
      BY <1>0, <2>1, <2>4, Moved DEF CreditDeposit, Fault, JobPcs
    <3>2. credits[v] = 0
      BY <2>1, <2>2, <3>1 DEF Owns, OneOwner
    <3>3. /\ \A d \in Deposits : d # v => credits'[d] = credits[d]
          /\ credits'[v] = 1 \/ Owns(s, v)'
          /\ job'[s].pc = "undo" => faults' > 0
          /\ job'[s].pc = "link" => credits'[v] > 0
          /\ credits'[v] >= credits[v] /\ faults' >= faults
      BY <1>0, <3>1, <3>2 DEF Owns
    <3> QED
      BY <2>1, <3>1, <3>3, NothingLostKept
  <2>5. CASE UndoApprove(s)
    <3>1. /\ \A t \in Admins : t # s => job'[t] = job[t]
          /\ job'[s].pc = "idle" /\ job[s].pc = "undo"
          /\ UNCHANGED <<linked, credits, create, crashes>>
          /\ \/ /\ status' = IF status[v] = "Approved" /\ v \notin linked THEN [status EXCEPT ![v] = "Pending"] ELSE status
                /\ faults' = faults
             \/ faults' = faults + 1 /\ status' = status
      BY <1>0, <2>1, <2>5, Freed DEF UndoApprove, SetStatus, Fault
    <3>2. credits[v] = 0 /\ faults > 0
      BY <2>1, <2>2, <3>1 DEF Owns, OneOwner, NothingLost
    <3>3. v \notin linked
      BY <3>2 DEF NothingLost
    <3>4. /\ \A d \in Deposits : d # v => status'[d] = status[d]
          /\ faults' <= 1 => status'[v] # "Approved"
          /\ credits'[v] >= credits[v] /\ faults' >= faults
      BY <1>0, <3>1, <3>2, <3>3
    <3> QED
      BY <2>1, <3>1, <3>4, NothingLostKept
  <2>6. CASE LinkTransaction(s) \/ CallThrows(s) \/ ClaimReject(s)
    <3>1. /\ \A t \in Admins : t # s => job'[t] = job[t]
          /\ job'[s].pc = "idle" /\ job[s].pc \in {"link", "claim", "reject"}
          /\ UNCHANGED <<credits, create, crashes>> /\ faults' \in {faults, faults + 1}
          /\ linked' = linked \/ (job[s].pc = "link" /\ linked' = linked \cup {v})
          /\ status' = status \/ status' = [status EXCEPT ![v] = "Rejected"]
      BY <1>0, <2>1, <2>6, Freed DEF LinkTransaction, CallThrows, ClaimReject, SetStatus, Fault
    <3>2. /\ \A d \in Deposits : d # v => status'[d] = status[d]
          /\ status'[v] = "Approved" => status[v] = "Approved" /\ ~Owns(s, v)
          /\ credits'[v] >= credits[v] /\ faults' >= faults
      BY <1>0, <3>1 DEF Owns
    <3>3. job[s].pc = "link" => credits[v] > 0
      BY <2>1 DEF NothingLost
    <3> QED
      BY <2>1, <3>1, <3>2, <3>3, NothingLostKept
  <2> QED
    BY <1>3, <2>3, <2>4, <2>5, <2>6 DEF AdminStep
<1>4. CASE Crash
  <2>1. UNCHANGED <<linked, credits>> /\ crashes' # 0 /\ \A s \in Admins : job'[s].pc = "idle"
    BY <1>0, <1>4 DEF Crash, Idle
  <2> QED
    BY <2>1 DEF NothingLost
<1>5. CASE UNCHANGED vars
  BY <1>5 DEF vars, NothingLost, Owns
<1> QED
  BY <1>1, <1>2, <1>3, <1>4, <1>5 DEF Next

\* One failed call of ApproveAsync loses nothing (ApprovedIsCredited): the
\* rollback finds the approval it owns, and reopens it.
THEOREM ApprovalIsCredited == Spec => []ApprovedIsCredited
<1>1. Init => NothingLost
  BY DEF Init, NothingLost, Idle
<1>2. IInv /\ NothingLost => ApprovedIsCredited
  BY DEF NothingLost, ApprovedIsCredited, Quiet, Idle, Owns
<1> QED
  BY <1>1, <1>2, Invariance, NothingLostStep, PTL DEF Spec

-----------------------------------------------------------------------------
(* Sessions.                                                               *)

-----------------------------------------------------------------------------
(* Counting.                                                               *)

LEMMA CountSubset ==
  ASSUME NEW T \in SUBSET Sessions, NEW S \in SUBSET T
  PROVE  /\ IsFiniteSet(S) /\ Cardinality(S) \in Nat
         /\ IsFiniteSet(T) /\ Cardinality(T) \in Nat
         /\ Cardinality(S) <= Cardinality(T)
<1>1. IsFiniteSet(T)
  BY SessionsAssumption, FS_Subset
<1>2. QED
  BY <1>1, FS_Subset, FS_CardinalityType

LEMMA CountAdd ==
  ASSUME NEW S \in SUBSET Sessions, NEW x \in Sessions
  PROVE  /\ Cardinality(S) \in Nat /\ Cardinality(S \cup {x}) \in Nat
         /\ Cardinality(S \cup {x}) <= Cardinality(S) + 1
         /\ x \notin S => Cardinality(S \cup {x}) = Cardinality(S) + 1
<1>1. IsFiniteSet(S)
  BY SessionsAssumption, FS_Subset
<1>2. Cardinality(S) \in Nat
  BY <1>1, FS_CardinalityType
<1>3. Cardinality(S \cup {x}) = IF x \in S THEN Cardinality(S) ELSE Cardinality(S) + 1
  BY <1>1, FS_AddElement
<1>4. QED
  BY <1>2, <1>3

\* Replacing s by another never counts more than s and the others together.
LEMMA CountReplace ==
  ASSUME NEW S \in SUBSET Sessions, NEW s \in Sessions, NEW n \in Sessions
  PROVE  /\ Cardinality((S \ {s}) \cup {n}) <= Cardinality(S \cup {s})
         /\ Cardinality(S \ {s}) < Cardinality(S \cup {s})
<1>1. Cardinality((S \ {s}) \cup {n}) <= Cardinality(S \ {s}) + 1
  BY CountAdd
<1>2. Cardinality((S \ {s}) \cup {s}) = Cardinality(S \ {s}) + 1
  BY CountAdd
<1>3. (S \ {s}) \cup {s} = S \cup {s}
  OBVIOUS
<1>4. Cardinality(S \ {s}) \in Nat /\ Cardinality((S \ {s}) \cup {n}) \in Nat
  BY CountAdd
<1>5. QED
  BY <1>1, <1>2, <1>3, <1>4

LEMMA ActiveSessions == Active \subseteq Sessions /\ Active' \subseteq Sessions
BY DEF Active

LEMMA NoRowFits ==
  /\ NoRow \in Rows /\ ~NoRow.exists /\ ~NoRow.used /\ ~NoRow.revoked
  /\ NoRequest \in RequestRecords
  /\ NoRequest.pc = "idle" /\ NoRequest.op = "none"
BY DEF NoRow, Rows, NoRequest, RequestRecords

-----------------------------------------------------------------------------

LEMMA InitInv == SessionsInit => SessionsInv
<1> SUFFICES ASSUME SessionsInit PROVE SessionsInv
  OBVIOUS
<1>1. SessionsTypeOK
  <2>1. row \in [Sessions -> Rows] /\ req \in [Requests -> RequestRecords]
    BY NoRowFits DEF SessionsInit
  <2>2. loose \in BOOLEAN /\ closed \in BOOLEAN
    BY Zenon DEF SessionsInit
  <2>3. QED
    BY <2>1, <2>2 DEF SessionsInit, SessionsTypeOK
<1>2. RowsFit /\ RequestsFit /\ OneUnusedPerFamily
  BY NoRowFits DEF SessionsInit, RowsFit, RequestsFit, OneUnusedPerFamily
<1>3. ParentsUsed /\ TokenExchangedOnce /\ NobodyReturns
  BY DEF SessionsInit, ParentsUsed, TokenExchangedOnce, NobodyReturns
<1>4. HasRoom
  <2>1. Active = {}
    BY NoRowFits DEF SessionsInit, Active, Live
  <2>2. Cardinality(Active) = 0
    BY <2>1, FS_EmptySet
  <2>3. QED
    BY <2>2, NoRowFits, SessionsAssumption DEF SessionsInit, HasRoom
<1>5. QED
  BY <1>1, <1>2, <1>3, <1>4 DEF SessionsInv

-----------------------------------------------------------------------------
(* Steps that add no session.                                              *)

\* Sessions may be revoked and grow older, nothing else.
OnlyFade ==
  /\ row' \in [Sessions -> Rows]
  /\ \A s \in Sessions :
        /\ row'[s].exists = row[s].exists /\ row'[s].used = row[s].used
        /\ row'[s].family = row[s].family
        /\ row[s].revoked => row'[s].revoked
        /\ ~row[s].exists => row'[s] = row[s]
        /\ row[s].age = "expired" => row'[s].age = "expired"

LEMMA SameRowsFade == ASSUME SessionsTypeOK, row' = row PROVE OnlyFade
BY DEF OnlyFade, SessionsTypeOK

LEMMA FadeKeepsRows ==
  ASSUME SessionsInv, OnlyFade, UNCHANGED parent
  PROVE  /\ RowsFit' /\ OneUnusedPerFamily' /\ ParentsUsed' /\ TokenExchangedOnce'
         /\ Active' \subseteq Active
         /\ \A s \in Sessions : Live(s)' => Live(s)
<1>1. RowsFit'
  BY DEF SessionsInv, RowsFit, OnlyFade
<1>2. OneUnusedPerFamily'
  BY DEF SessionsInv, OneUnusedPerFamily, OnlyFade
<1>3. ParentsUsed' /\ TokenExchangedOnce'
  BY DEF SessionsInv, SessionsTypeOK, ParentsUsed, TokenExchangedOnce, OnlyFade
<1>4. (\A s \in Sessions : Live(s)' => Live(s)) /\ Active' \subseteq Active
  BY DEF OnlyFade, Live, Active
<1>5. QED
  BY <1>1, <1>2, <1>3, <1>4

\* Every request has ended, or goes on with its session, not to an insert.
Proceeds(p) ==
  \/ req'[p] = NoRequest
  \/ /\ req'[p].op = req[p].op /\ req'[p].s = req[p].s
     /\ \/ req'[p].pc = req[p].pc
        \/ req[p].op = "refresh" /\ req[p].pc = "travel" /\ req'[p].pc = "write"

LEMMA FadeKeeps ==
  ASSUME SessionsInv, OnlyFade, UNCHANGED parent,
         req' \in [Requests -> RequestRecords], \A p \in Requests : Proceeds(p),
         loose' = loose, closed' \in BOOLEAN,
         closed' => closed \/ (/\ \A s \in Sessions : ~Live(s)'
                               /\ \A q \in Requests : ~Makes(req[q]))
  PROVE  SessionsInv'
<1>1. /\ RowsFit' /\ OneUnusedPerFamily' /\ ParentsUsed' /\ TokenExchangedOnce'
      /\ Active' \subseteq Active
      /\ \A s \in Sessions : Live(s)' => Live(s)
  BY FadeKeepsRows
<1>2. SessionsTypeOK'
  BY DEF SessionsInv, SessionsTypeOK, OnlyFade
<1>3. RequestsFit'
  BY NoRowFits DEF SessionsInv, RequestsFit, OnlyFade, Proceeds
<1>4. NobodyReturns'
  <2>1. \A p \in Requests : Makes(req[p])' => Makes(req[p])
    BY NoRowFits DEF Makes, Proceeds
  <2>2. QED
    BY <1>1, <2>1 DEF SessionsInv, NobodyReturns
<1>5. HasRoom'
  <2> SUFFICES ASSUME ~loose PROVE HasRoom'
    BY DEF HasRoom
  <2>1. Cardinality(Active) <= MaxConcurrentSessions
    BY DEF SessionsInv, HasRoom
  <2>2. /\ Cardinality(Active) \in Nat /\ Cardinality(Active') \in Nat
        /\ Cardinality(Active') <= Cardinality(Active)
    BY <1>1, ActiveSessions, CountSubset
  <2>3. \A p, q \in Requests : req'[p].pc # "idle" /\ req'[q].pc # "idle" => p = q
    BY NoRowFits DEF SessionsInv, HasRoom, Proceeds
  <2>4. ASSUME NEW q \in Requests, req'[q].pc = "insert"
        PROVE  Cardinality(Active') < MaxConcurrentSessions
    <3>1. req[q].pc = "insert"
      BY <2>4, NoRowFits DEF Proceeds
    <3>2. Cardinality(Active) < MaxConcurrentSessions
      BY <3>1 DEF SessionsInv, HasRoom
    <3>3. QED
      BY <3>2, <2>2, SessionsAssumption
  <2>5. ASSUME NEW q \in Requests, req'[q].pc = "evict" \/ req'[q].op = "refresh"
        PROVE  Cardinality(Active' \cup {req'[q].s}) <= MaxConcurrentSessions
    <3>1. (req[q].pc = "evict" \/ req[q].op = "refresh") /\ req'[q].s = req[q].s
      BY <2>5, NoRowFits DEF Proceeds
    <3>2. req[q].s \in Sessions /\ Cardinality(Active \cup {req[q].s}) <= MaxConcurrentSessions
      BY <3>1 DEF SessionsInv, HasRoom, RequestsFit
    <3>3. Active' \cup {req[q].s} \subseteq Active \cup {req[q].s}
      BY <1>1
    <3>4. Active \cup {req[q].s} \subseteq Sessions
      BY <3>2, ActiveSessions
    <3>5. /\ Cardinality(Active' \cup {req[q].s}) \in Nat
          /\ Cardinality(Active \cup {req[q].s}) \in Nat
          /\ Cardinality(Active' \cup {req[q].s}) <= Cardinality(Active \cup {req[q].s})
      BY <3>3, <3>4, CountSubset
    <3>6. QED
      BY <3>1, <3>2, <3>5, SessionsAssumption
  <2>6. QED
    BY <2>1, <2>2, <2>3, <2>4, <2>5, SessionsAssumption DEF HasRoom
<1>6. QED
  BY <1>1, <1>2, <1>3, <1>4, <1>5 DEF SessionsInv

LEMMA ReturnProceeds ==
  ASSUME SessionsTypeOK, NEW q \in Requests, Return(q)
  PROVE  req' \in [Requests -> RequestRecords] /\ \A p \in Requests : Proceeds(p)
BY NoRowFits DEF Return, Proceeds, SessionsTypeOK

LEMMA TravelProceeds ==
  ASSUME SessionsTypeOK, NEW q \in Requests, req[q].pc = "travel", AfterTravel(q)
  PROVE  req' \in [Requests -> RequestRecords] /\ \A p \in Requests : Proceeds(p)
<1>1. CASE req[q].op = "refresh"
  <2>1. req' = [req EXCEPT ![q].pc = "write"]
    BY <1>1 DEF AfterTravel, GoOn
  <2>2. req' \in [Requests -> RequestRecords]
    BY <2>1 DEF SessionsTypeOK, RequestRecords
  <2>3. QED
    BY <1>1, <2>1, <2>2 DEF Proceeds, SessionsTypeOK, RequestRecords
<1>2. CASE req[q].op # "refresh"
  BY <1>2, ReturnProceeds DEF AfterTravel
<1>3. QED
  BY <1>1, <1>2

LEMMA StayProceeds ==
  ASSUME SessionsTypeOK, req' = req
  PROVE  req' \in [Requests -> RequestRecords] /\ \A p \in Requests : Proceeds(p)
BY DEF Proceeds, SessionsTypeOK

\* NoTravel, KeepToken and Abandon move a request and leave the sessions.
LEMMA IdleStepKeeps ==
  ASSUME SessionsInv, NEW q \in Requests, NoTravel(q) \/ KeepToken(q) \/ Abandon(q)
  PROVE  SessionsInv'
<1>1. UNCHANGED <<row, parent, loose, closed>>
  BY DEF NoTravel, KeepToken, Abandon
<1>2. OnlyFade
  BY <1>1, SameRowsFade DEF SessionsInv
<1>3. Return(q) \/ (req[q].pc = "travel" /\ AfterTravel(q))
  BY DEF NoTravel, KeepToken, Abandon
<1>4. req' \in [Requests -> RequestRecords] /\ \A p \in Requests : Proceeds(p)
  BY <1>3, ReturnProceeds, TravelProceeds DEF SessionsInv
<1>5. closed' \in BOOLEAN
  BY <1>1 DEF SessionsInv, SessionsTypeOK
<1>6. QED
  BY <1>1, <1>2, <1>4, <1>5, FadeKeeps

LEMMA RevokeRowsFades ==
  ASSUME SessionsInv, RevokeRows(req)
  PROVE  /\ OnlyFade
         /\ closed' \in BOOLEAN
         /\ closed' => closed \/ (/\ \A s \in Sessions : ~Live(s)'
                                 /\ \A q \in Requests : ~Makes(req[q]))
<1>1. /\ row' = [s \in Sessions |-> [row[s] EXCEPT !.revoked = row[s].revoked \/ row[s].exists]]
      /\ closed' = (closed \/ \A p \in Requests : ~Makes(req[p]))
  BY DEF RevokeRows
<1>2. \A s \in Sessions :
        /\ row'[s] \in Rows
        /\ row'[s].exists = row[s].exists /\ row'[s].used = row[s].used
        /\ row'[s].family = row[s].family /\ row'[s].age = row[s].age
        /\ row'[s].revoked <=> row[s].revoked \/ row[s].exists
  BY <1>1 DEF SessionsInv, SessionsTypeOK, Rows
<1>3. \A s \in Sessions : ~row[s].exists => row'[s] = row[s]
  <2> SUFFICES ASSUME NEW s \in Sessions, ~row[s].exists PROVE row'[s] = row[s]
    OBVIOUS
  <2>1. row[s] = NoRow
    BY DEF SessionsInv, RowsFit
  <2>2. row'[s] = [NoRow EXCEPT !.revoked = NoRow.revoked \/ NoRow.exists]
    BY <1>1, <2>1
  <2>3. QED
    BY <2>1, <2>2 DEF NoRow
<1>4. OnlyFade
  BY <1>1, <1>2, <1>3 DEF OnlyFade
<1>5. \A s \in Sessions : ~Live(s)'
  BY <1>2 DEF Live
<1>6. closed' \in BOOLEAN
  BY <1>1, Zenon
<1>7. QED
  BY <1>1, <1>4, <1>5, <1>6

LEMMA RevokeAllKeeps ==
  ASSUME SessionsInv, RevokeAllUserSessions
  PROVE  SessionsInv'
BY RevokeRowsFades, StayProceeds, FadeKeeps DEF RevokeAllUserSessions, SessionsInv

LEMMA TravelRevokeKeeps ==
  ASSUME SessionsInv, NEW q \in Requests, TravelRevoke(q)
  PROVE  SessionsInv'
BY RevokeRowsFades, TravelProceeds, FadeKeeps DEF TravelRevoke, SessionsInv

LEMMA RevokeFades ==
  ASSUME SessionsInv, NEW s \in Sessions, row[s].exists,
         row' = [row EXCEPT ![s].revoked = TRUE]
  PROVE  OnlyFade
BY ZenonT(60) DEF SessionsInv, SessionsTypeOK, Rows, OnlyFade

LEMMA RevokeSessionKeeps ==
  ASSUME SessionsInv, NEW s \in Sessions, RevokeSession(s)
  PROVE  SessionsInv'
<1>1. OnlyFade /\ UNCHANGED <<req, parent, loose, closed>>
  BY RevokeFades DEF RevokeSession
<1>2. closed' \in BOOLEAN
  BY <1>1 DEF SessionsInv, SessionsTypeOK
<1>3. QED
  BY <1>1, <1>2, StayProceeds, FadeKeeps DEF SessionsInv

LEMMA AgeKeeps ==
  ASSUME SessionsInv, NEW s \in Sessions, Age(s)
  PROVE  SessionsInv'
<1>1. OnlyFade
  <2>1. PICK age \in {"near", "expired"} : row' = [row EXCEPT ![s].age = age]
    BY DEF Age
  <2>2. row[s].exists /\ row[s].age # "expired"
    BY DEF Age
  <2>3. QED
    BY <2>1, <2>2 DEF SessionsInv, SessionsTypeOK, Rows, OnlyFade
<1>2. UNCHANGED <<req, parent, loose, closed>> /\ closed' \in BOOLEAN
  BY DEF Age, SessionsInv, SessionsTypeOK
<1>3. QED
  BY <1>1, <1>2, StayProceeds, FadeKeeps DEF SessionsInv

-----------------------------------------------------------------------------
(* The beginning of a request.                                             *)

LEMMA BeginKeeps ==
  ASSUME SessionsInv, NEW q \in Requests, NEW op \in {"create", "refresh"},
         NEW pc \in {"evict", "insert", "travel", "write"}, NEW s \in Sessions \cup {None},
         BeginRequest(q, op, pc, s), UNCHANGED <<row, parent>>,
         closed' \in BOOLEAN, ~closed',
         pc = "evict" \/ op = "refresh" => s \in Active,
         pc = "write" => op = "refresh",
         pc \in {"evict", "insert"} => op = "create",
         pc = "insert" => Cardinality(Active) < MaxConcurrentSessions
  PROVE  SessionsInv'
<1> DEFINE r == [pc |-> pc, op |-> op, s |-> s]
<1>1. /\ req' = [req EXCEPT ![q] = r] /\ req[q].pc = "idle"
      /\ loose' = (loose \/ \E p \in Requests : req[p].pc # "idle")
  BY DEF BeginRequest
<1>2. r \in RequestRecords
  BY DEF RequestRecords
<1>3. req' \in [Requests -> RequestRecords]
  BY <1>1, <1>2 DEF SessionsInv, SessionsTypeOK
<1>4. loose' \in BOOLEAN
  BY <1>1, Zenon
<1>5. SessionsTypeOK'
  BY <1>3, <1>4 DEF SessionsInv, SessionsTypeOK
<1>6. req'[q] = r /\ \A p \in Requests \ {q} : req'[p] = req[p]
  BY <1>1 DEF SessionsInv, SessionsTypeOK
<1>7. OnlyFade /\ Active' = Active
  BY SameRowsFade DEF SessionsInv, Active, Live
<1>8. RowsFit' /\ OneUnusedPerFamily' /\ ParentsUsed' /\ TokenExchangedOnce'
  BY <1>7, FadeKeepsRows
<1>9. RequestsFit'
  BY <1>6 DEF SessionsInv, RequestsFit, Active, Live
<1>10. NobodyReturns'
  BY DEF NobodyReturns
<1>11. HasRoom'
  <2> SUFFICES ASSUME ~loose' PROVE HasRoom'
    BY DEF HasRoom
  <2>1. ~loose /\ \A p \in Requests : req[p].pc = "idle"
    BY <1>1
  <2>2. Cardinality(Active) <= MaxConcurrentSessions
    BY <2>1 DEF SessionsInv, HasRoom
  <2>3. \A p \in Requests \ {q} : req'[p].pc = "idle"
    BY <1>6, <2>1
  <2>4. pc = "evict" \/ op = "refresh" => Active \cup {s} = Active
    OBVIOUS
  <2>5. ASSUME NEW p \in Requests, req'[p].pc = "evict" \/ req'[p].op = "refresh"
        PROVE  Cardinality(Active' \cup {req'[p].s}) <= MaxConcurrentSessions
    <3>1. CASE p = q
      BY <1>6, <1>7, <2>2, <2>4, <2>5, <3>1
    <3>2. CASE p # q
      <4>1. req'[p] = req[p] /\ ~loose
        BY <1>6, <2>1, <3>2
      <4>2. QED
        BY <1>7, <2>5, <4>1 DEF SessionsInv, HasRoom
    <3>3. QED
      BY <3>1, <3>2
  <2>6. \A p \in Requests : req'[p].pc = "insert" => Cardinality(Active') < MaxConcurrentSessions
    BY <1>6, <1>7, <2>3
  <2>7. QED
    BY <1>7, <2>2, <2>3, <2>5, <2>6 DEF HasRoom
<1>12. QED
  BY <1>5, <1>8, <1>9, <1>10, <1>11 DEF SessionsInv

LEMMA CreateKeeps ==
  ASSUME SessionsInv, NEW q \in Requests, CreateSession(q)
  PROVE  SessionsInv'
<1>1. UNCHANGED <<row, parent>> /\ closed' = FALSE
  BY DEF CreateSession
<1>2. closed' \in BOOLEAN /\ ~closed'
  BY <1>1, Zenon
<1>3. Cardinality(Active) \in Nat
  BY ActiveSessions, CountSubset
<1>4. CASE Cardinality(Active) >= MaxConcurrentSessions
  <2>1. PICK s \in Active : BeginRequest(q, "create", "evict", s)
    BY <1>4 DEF CreateSession
  <2>2. s \in Sessions
    BY ActiveSessions
  <2>3. QED
    BY <1>1, <1>2, <2>1, <2>2, BeginKeeps
<1>5. CASE ~(Cardinality(Active) >= MaxConcurrentSessions)
  <2>1. BeginRequest(q, "create", "insert", None)
    BY <1>5 DEF CreateSession
  <2>2. Cardinality(Active) < MaxConcurrentSessions
    BY <1>3, <1>5, SessionsAssumption
  <2>3. QED
    BY <1>1, <1>2, <2>1, <2>2, BeginKeeps
<1>6. QED
  BY <1>4, <1>5

\* Nobody can refresh while everybody is logged out.
LEMMA RefreshKeeps ==
  ASSUME SessionsInv, NEW q \in Requests, NEW s \in Sessions, RefreshSession(q, s)
  PROVE  SessionsInv'
<1>1. UNCHANGED <<row, parent, closed>> /\ s \in Active
  BY DEF RefreshSession
<1>2. closed' \in BOOLEAN /\ ~closed'
  BY <1>1 DEF SessionsInv, SessionsTypeOK, NobodyReturns, Active
<1>3. PICK pc \in {"travel", "write"} : BeginRequest(q, "refresh", pc, s)
  BY DEF RefreshSession
<1>4. QED
  BY <1>1, <1>2, <1>3, BeginKeeps

-----------------------------------------------------------------------------
(* Steps that make room for a session or add one.                          *)

LEMMA EvictKeeps ==
  ASSUME SessionsInv, NEW q \in Requests, EvictOldest(q)
  PROVE  SessionsInv'
<1> DEFINE s == req[q].s
<1>1. /\ req[q].pc = "evict" /\ UNCHANGED <<parent, closed>>
      /\ req' = [req EXCEPT ![q].pc = "insert"]
      /\ s \in Sessions /\ row[s].exists
  BY DEF EvictOldest, GoOn, SessionsInv, RequestsFit
<1>2. \/ row' = [row EXCEPT ![s].revoked = TRUE] /\ loose' = loose
      \/ row' = row /\ loose' = TRUE
  BY DEF EvictOldest
<1>3. OnlyFade
  BY <1>1, <1>2, RevokeFades, SameRowsFade DEF SessionsInv
<1>4. /\ RowsFit' /\ OneUnusedPerFamily' /\ ParentsUsed' /\ TokenExchangedOnce'
      /\ Active' \subseteq Active
      /\ \A u \in Sessions : Live(u)' => Live(u)
  BY <1>1, <1>3, FadeKeepsRows
<1>5. req' \in [Requests -> RequestRecords]
  BY <1>1 DEF SessionsInv, SessionsTypeOK, RequestRecords
<1>6. /\ req'[q].pc = "insert" /\ req'[q].op = req[q].op /\ req'[q].s = s
      /\ \A p \in Requests \ {q} : req'[p] = req[p]
  BY <1>1 DEF SessionsInv, SessionsTypeOK, RequestRecords
<1>7. SessionsTypeOK'
  BY <1>1, <1>2, <1>3, <1>5 DEF SessionsInv, SessionsTypeOK, OnlyFade
<1>8. RequestsFit'
  BY <1>1, <1>3, <1>6 DEF SessionsInv, RequestsFit, OnlyFade
<1>9. NobodyReturns'
  BY <1>1 DEF SessionsInv, NobodyReturns, Makes
<1>10. HasRoom'
  <2> SUFFICES ASSUME ~loose' PROVE HasRoom'
    BY DEF HasRoom
  <2>1. row' = [row EXCEPT ![s].revoked = TRUE] /\ ~loose
    BY <1>2
  <2>2. \A p \in Requests \ {q} : req[p].pc = "idle"
    BY <1>1, <2>1 DEF SessionsInv, HasRoom
  <2>3. Cardinality(Active \cup {s}) <= MaxConcurrentSessions
    BY <1>1, <2>1 DEF SessionsInv, HasRoom
  <2>4. Active' \subseteq Active \ {s}
    BY <1>1, <1>4, <2>1 DEF SessionsInv, SessionsTypeOK, Active, Live, Rows
  <2>5. /\ Cardinality(Active \ {s}) < Cardinality(Active \cup {s})
        /\ Cardinality(Active \cup {s}) \in Nat
    BY <1>1, ActiveSessions, CountReplace, CountAdd
  <2>6. /\ Cardinality(Active') <= Cardinality(Active \ {s})
        /\ Cardinality(Active') \in Nat /\ Cardinality(Active \ {s}) \in Nat
    BY <2>4, ActiveSessions, CountSubset
  <2>7. Cardinality(Active') < MaxConcurrentSessions
    BY <2>3, <2>5, <2>6, SessionsAssumption
  <2>8. Active' \cup {s} \subseteq Active \cup {s} /\ Active \cup {s} \subseteq Sessions
    BY <1>1, <1>4, ActiveSessions
  <2>9. /\ Cardinality(Active' \cup {s}) <= Cardinality(Active \cup {s})
        /\ Cardinality(Active' \cup {s}) \in Nat
    BY <2>8, CountSubset
  <2>10. Cardinality(Active' \cup {s}) <= MaxConcurrentSessions
    BY <2>3, <2>5, <2>9, SessionsAssumption
  <2>11. \A p \in Requests \ {q} : req'[p].pc # "evict" /\ req'[p].op # "refresh"
    BY <1>6, <2>2 DEF SessionsInv, RequestsFit
  <2>12. QED
    BY <1>6, <2>2, <2>6, <2>7, <2>10, <2>11, SessionsAssumption DEF HasRoom
<1>11. QED
  BY <1>4, <1>7, <1>8, <1>9, <1>10 DEF SessionsInv

\* A new session starts a family of its own, in the place kept for it.
LEMMA InsertKeeps ==
  ASSUME SessionsInv, NEW q \in Requests, NEW n \in Sessions, InsertSession(q, n)
  PROVE  SessionsInv'
<1> DEFINE new == [NoRow EXCEPT !.exists = TRUE, !.family = n]
<1>1. /\ req[q].pc = "insert" /\ ~row[n].exists
      /\ row' = [row EXCEPT ![n] = new]
      /\ req' = [req EXCEPT ![q].pc = "travel"]
      /\ UNCHANGED <<parent, loose, closed>>
  BY DEF InsertSession, GoOn
<1>2. /\ new \in Rows /\ new.exists /\ ~new.used /\ ~new.revoked /\ new.family = n
      /\ new.age = "fresh"
  BY DEF NoRow, Rows
<1> HIDE DEF new
<1>3. row' \in [Sessions -> Rows] /\ row'[n] = new /\ \A u \in Sessions \ {n} : row'[u] = row[u]
  BY <1>1, <1>2 DEF SessionsInv, SessionsTypeOK
<1>4. /\ req' \in [Requests -> RequestRecords]
      /\ req'[q].pc = "travel" /\ req'[q].op = req[q].op /\ req'[q].s = req[q].s
      /\ \A p \in Requests \ {q} : req'[p] = req[p]
  BY <1>1 DEF SessionsInv, SessionsTypeOK, RequestRecords
<1>5. SessionsTypeOK'
  BY <1>1, <1>3, <1>4 DEF SessionsInv, SessionsTypeOK
<1>6. row[n] = NoRow /\ ~row[n].used
  BY <1>1, NoRowFits DEF SessionsInv, RowsFit
<1>7. RowsFit'
  BY <1>2, <1>3 DEF SessionsInv, RowsFit
<1>8. RequestsFit'
  BY <1>2, <1>3, <1>4 DEF SessionsInv, RequestsFit
<1>9. OneUnusedPerFamily'
  <2>1. \A u \in Sessions \ {n} : row'[u].exists => row'[u].family # n
    BY <1>1, <1>3 DEF SessionsInv, RowsFit
  <2>2. QED
    BY <1>2, <1>3, <2>1 DEF SessionsInv, OneUnusedPerFamily
<1>10. ParentsUsed' /\ TokenExchangedOnce'
  <2>1. \A u \in Sessions : parent[u] # None => parent[u] \in Sessions /\ parent[u] # n
    BY <1>6 DEF SessionsInv, SessionsTypeOK, ParentsUsed
  <2>2. QED
    BY <1>1, <1>3, <2>1 DEF SessionsInv, ParentsUsed, TokenExchangedOnce
<1>11. NobodyReturns'
  BY <1>1 DEF SessionsInv, NobodyReturns, Makes
<1>12. HasRoom'
  <2> SUFFICES ASSUME ~loose PROVE HasRoom'
    BY <1>1 DEF HasRoom
  <2>1. \A p \in Requests \ {q} : req[p].pc = "idle" /\ req[p].op = "none"
    BY <1>1 DEF SessionsInv, HasRoom, RequestsFit
  <2>2. Cardinality(Active) < MaxConcurrentSessions
    BY <1>1 DEF SessionsInv, HasRoom
  <2>3. Active' \subseteq Active \cup {n}
    BY <1>3 DEF Active, Live
  <2>4. /\ Cardinality(Active \cup {n}) <= Cardinality(Active) + 1
        /\ Cardinality(Active) \in Nat /\ Cardinality(Active \cup {n}) \in Nat
    BY ActiveSessions, CountAdd
  <2>5. /\ Cardinality(Active') <= Cardinality(Active \cup {n})
        /\ Cardinality(Active') \in Nat
    <3>1. Active \cup {n} \subseteq Sessions
      BY ActiveSessions
    <3>2. QED
      BY <2>3, <3>1, CountSubset
  <2>6. Cardinality(Active') <= MaxConcurrentSessions
    BY <2>2, <2>4, <2>5, SessionsAssumption
  <2>7. req[q].op # "refresh"
    BY <1>1 DEF SessionsInv, RequestsFit
  <2>8. QED
    BY <1>4, <2>1, <2>6, <2>7 DEF HasRoom
<1>13. QED
  BY <1>5, <1>7, <1>8, <1>9, <1>10, <1>11, <1>12 DEF SessionsInv

\* The successor takes the family and the place of the session it replaces.
LEMMA RotateKeeps ==
  ASSUME SessionsInv, NEW q \in Requests, NEW n \in Sessions, Rotate(q, n)
  PROVE  SessionsInv'
<1> DEFINE s == req[q].s
           new == [NoRow EXCEPT !.exists = TRUE, !.family = row[s].family]
<1>1. /\ req[q].pc = "write" /\ req[q].op = "refresh"
      /\ s \in Sessions /\ row[s].exists /\ ~row[s].used
      /\ ~row[n].exists
      /\ row' = [row EXCEPT ![s].used = TRUE, ![s].revoked = TRUE, ![n] = new]
      /\ parent' = [parent EXCEPT ![n] = s]
      /\ Return(q)
      /\ UNCHANGED <<loose, closed>>
  BY DEF Rotate, SessionsInv, RequestsFit
<1>2. /\ s # n /\ row[s].family \in Sessions /\ row[row[s].family].exists
      /\ row[s].family # n
      /\ ~row[n].used
  BY <1>1, NoRowFits DEF SessionsInv, RowsFit
<1>3. /\ new \in Rows /\ new.exists /\ ~new.used /\ ~new.revoked
      /\ new.family = row[s].family /\ new.age = "fresh"
  BY <1>2 DEF NoRow, Rows
<1> HIDE DEF new
<1>4. /\ row' \in [Sessions -> Rows]
      /\ row'[n] = new
      /\ row'[s].exists /\ row'[s].used /\ row'[s].revoked
      /\ row'[s].family = row[s].family
      /\ \A u \in Sessions \ {n, s} : row'[u] = row[u]
  <2> DEFINE old == [row[s] EXCEPT !.used = TRUE, !.revoked = TRUE]
  <2>1. row[s] \in Rows /\ row \in [Sessions -> Rows]
    BY <1>1 DEF SessionsInv, SessionsTypeOK
  <2>2. /\ old \in Rows /\ old.exists = row[s].exists /\ old.used /\ old.revoked
        /\ old.family = row[s].family
    BY <2>1 DEF Rows
  <2>3. row' = [row EXCEPT ![s] = old, ![n] = new]
    BY <1>1, <1>2, <2>1
  <2> HIDE DEF old
  <2>4. QED
    BY ZenonT(60), <1>1, <1>2, <1>3, <2>1, <2>2, <2>3
<1>5. /\ req' \in [Requests -> RequestRecords]
      /\ req'[q] = NoRequest /\ \A p \in Requests \ {q} : req'[p] = req[p]
  BY <1>1, NoRowFits DEF Return, SessionsInv, SessionsTypeOK
<1>6. /\ parent' \in [Sessions -> Sessions \cup {None}]
      /\ parent'[n] = s /\ \A u \in Sessions \ {n} : parent'[u] = parent[u]
  BY <1>1 DEF SessionsInv, SessionsTypeOK
<1>7. SessionsTypeOK'
  BY <1>1, <1>4, <1>5, <1>6 DEF SessionsInv, SessionsTypeOK
<1>8. RowsFit'
  <2>1. \A u \in Sessions : row[u].exists => row'[u].exists
    BY <1>1, <1>4
  <2>2. RowsFit
    BY DEF SessionsInv
  <2>3. ASSUME NEW u \in Sessions
        PROVE  /\ ~row'[u].exists => row'[u] = NoRow
               /\ row'[u].exists => row'[u].family \in Sessions /\ row'[row'[u].family].exists
               /\ row'[u].used => row'[u].revoked
    <3>1. CASE u = n
      BY <1>2, <1>3, <1>4, <2>1, <3>1
    <3>2. CASE u = s
      BY <1>2, <1>4, <2>1, <3>2
    <3>3. CASE u \in Sessions \ {n, s}
      BY <1>4, <2>1, <2>2, <3>3 DEF RowsFit
    <3>4. QED
      BY <3>1, <3>2, <3>3
  <2>4. QED
    BY <2>3 DEF RowsFit
<1>9. RequestsFit'
  <2>1. \A u \in Sessions : row[u].exists => row'[u].exists
    BY <1>1, <1>4
  <2>2. QED
    BY <1>5, <2>1, NoRowFits DEF SessionsInv, RequestsFit
<1>10. OneUnusedPerFamily'
  <2>1. \A u \in Sessions \ {n, s} :
           row'[u].exists /\ ~row'[u].used => row'[u].family # row[s].family
    BY <1>1, <1>4 DEF SessionsInv, OneUnusedPerFamily
  <2>2. \A u, v \in Sessions \ {n, s} :
           /\ row'[u].exists /\ ~row'[u].used
           /\ row'[v].exists /\ ~row'[v].used
           /\ row'[u].family = row'[v].family
           => u = v
    BY <1>4 DEF SessionsInv, OneUnusedPerFamily
  <2>3. QED
    BY <1>3, <1>4, <2>1, <2>2 DEF OneUnusedPerFamily
<1>11. ParentsUsed' /\ TokenExchangedOnce'
  <2>1. \A u \in Sessions : parent[u] # None =>
           parent[u] \in Sessions /\ row[parent[u]].used /\ parent[u] # s /\ parent[u] # n
    BY <1>1, <1>2 DEF SessionsInv, SessionsTypeOK, ParentsUsed
  <2>2. ParentsUsed'
    BY <1>4, <1>6, <2>1 DEF ParentsUsed
  <2>3. TokenExchangedOnce'
    BY <1>1, <1>6, <2>1, SessionsAssumption DEF SessionsInv, TokenExchangedOnce
  <2>4. QED
    BY <2>2, <2>3
<1>12. NobodyReturns'
  BY <1>1 DEF SessionsInv, NobodyReturns, Makes
<1>13. HasRoom'
  <2> SUFFICES ASSUME ~loose PROVE HasRoom'
    BY <1>1 DEF HasRoom
  <2>1. \A p \in Requests \ {q} : req[p].pc = "idle" /\ req[p].op = "none"
    BY <1>1 DEF SessionsInv, HasRoom, RequestsFit
  <2>2. Cardinality(Active \cup {s}) <= MaxConcurrentSessions
    BY <1>1 DEF SessionsInv, HasRoom
  <2>3. Active' \subseteq (Active \ {s}) \cup {n}
    BY <1>4 DEF Active, Live
  <2>4. (Active \ {s}) \cup {n} \subseteq Sessions
    BY ActiveSessions
  <2>5. /\ Cardinality(Active') <= Cardinality((Active \ {s}) \cup {n})
        /\ Cardinality(Active') \in Nat /\ Cardinality((Active \ {s}) \cup {n}) \in Nat
    BY <2>3, <2>4, CountSubset
  <2>6. /\ Cardinality((Active \ {s}) \cup {n}) <= Cardinality(Active \cup {s})
        /\ Cardinality(Active \cup {s}) \in Nat
    BY <1>1, ActiveSessions, CountReplace, CountAdd
  <2>7. Cardinality(Active') <= MaxConcurrentSessions
    BY <2>2, <2>5, <2>6, SessionsAssumption
  <2>8. QED
    BY <1>5, <2>1, <2>7, NoRowFits DEF HasRoom
<1>14. QED
  BY <1>7, <1>8, <1>9, <1>10, <1>11, <1>12, <1>13 DEF SessionsInv

-----------------------------------------------------------------------------

LEMMA NextInv == SessionsInv /\ [SessionsNext]_sessionVars => SessionsInv'
<1> SUFFICES ASSUME SessionsInv, [SessionsNext]_sessionVars PROVE SessionsInv'
  OBVIOUS
<1>1. ASSUME NEW q \in Requests,
             \/ CreateSession(q) \/ EvictOldest(q)
             \/ NoTravel(q) \/ TravelRevoke(q)
             \/ KeepToken(q) \/ Abandon(q)
      PROVE  SessionsInv'
  BY <1>1, CreateKeeps, EvictKeeps, IdleStepKeeps, TravelRevokeKeeps
<1>2. ASSUME NEW q \in Requests, NEW s \in Sessions,
             InsertSession(q, s) \/ RefreshSession(q, s) \/ Rotate(q, s)
      PROVE  SessionsInv'
  BY <1>2, InsertKeeps, RefreshKeeps, RotateKeeps
<1>3. ASSUME NEW s \in Sessions, RevokeSession(s) \/ Age(s) PROVE SessionsInv'
  BY <1>3, RevokeSessionKeeps, AgeKeeps
<1>4. CASE RevokeAllUserSessions
  BY <1>4, RevokeAllKeeps
<1>5. CASE UNCHANGED sessionVars
  <2>1. UNCHANGED <<row, req, parent, loose, closed>>
    BY <1>5 DEF sessionVars
  <2>2. OnlyFade /\ closed' \in BOOLEAN
    BY <2>1, SameRowsFade DEF SessionsInv, SessionsTypeOK
  <2>3. QED
    BY <2>1, <2>2, StayProceeds, FadeKeeps DEF SessionsInv
<1>6. QED
  BY <1>1, <1>2, <1>3, <1>4, <1>5 DEF SessionsNext

\* The invariant holds of every reachable state, for any number of sessions
\* and of requests that overlap.
THEOREM SessionsInvariance == SessionsSpec => []SessionsInv
<1>1. QED
  BY InitInv, NextInv, PTL DEF SessionsSpec

\* Of the sessions that follow each other by rotation at most one is live
\* (RefreshSession).
THEOREM OneLiveAlways == SessionsSpec => []OneLivePerFamily
<1>1. SessionsInv => OneLivePerFamily
  BY DEF SessionsInv, RowsFit, OneUnusedPerFamily, OneLivePerFamily, Live
<1>2. QED
  BY <1>1, SessionsInvariance, PTL

\* No refresh token is exchanged for two others (the condition on is_used in
\* RefreshSession).
THEOREM ExchangedOnce == SessionsSpec => []TokenExchangedOnce
<1>1. SessionsInv => TokenExchangedOnce
  BY DEF SessionsInv
<1>2. QED
  BY <1>1, SessionsInvariance, PTL

\* CreateSession keeps its limit as long as requests do not overlap.
THEOREM LimitKept == SessionsSpec => []SessionLimit
<1>1. SessionsInv => SessionLimit
  BY DEF SessionsInv, HasRoom, SessionLimit
<1>2. QED
  BY <1>1, SessionsInvariance, PTL

\* After RevokeAllUserSessions with no request under way that makes a session
\* nobody is logged in until the next log-in.
THEOREM LoggedOut == SessionsSpec => []LoggedOutStaysOut
<1>1. SessionsInv => LoggedOutStaysOut
  BY DEF SessionsInv, NobodyReturns, LoggedOutStaysOut
<1>2. QED
  BY <1>1, SessionsInvariance, PTL

=============================================================================
