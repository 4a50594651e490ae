----------------------------- MODULE Guarantee -----------------------------
(***************************************************************************)
(* feature-service GuaranteeService: a validator's profile guarantee,      *)
(* composed with the case workflow of the Go backend.  The workflow asks   *)
(* for a guarantee through the copy of its amount in users                 *)
(* (RequestConsultation); the release of a guarantee asks the workflow for *)
(* the cases the validator is engaged in.  Every guarantee is of one unit, *)
(* which covers the required stake.                                        *)
(***************************************************************************)
EXTENDS CaseWorkflow

CONSTANTS
    Stakers,       \* validators who set and release guarantees; the others keep theirs
    Calls,         \* slots of concurrent requests of the guarantee service
    Total,         \* money a validator starts with, one unit of it locked
    MaxGuarantees, \* bound: guarantees a validator makes
    MaxFaults      \* bound: calls that fail and processes that die

ASSUME GuaranteeAssumption ==
    /\ Stakers \subseteq Validators
    /\ Total \in Nat \ {0} /\ MaxGuarantees \in Nat \ {0} /\ MaxFaults \in Nat

VARIABLES
    guarantee,   \* guarantee[v][i]: status of v's i-th guarantee
    wallet,      \* wallet[v]: v's balance
    call,        \* the request each slot runs
    faults,
    secured,     \* history: validators who hold a guarantee since they were engaged
    misled,      \* history: engaged validators whose escrow a release found
                 \* resolved while its credit was outstanding
    doubtful     \* history: a credit was reported failed that took effect

guaranteeVars == <<guarantee, wallet, call, faults, doubtful>>
vars == <<workflowVars, guaranteeVars, secured, misled>>

Ids == 1..MaxGuarantees

(***************************************************************************)
(* insert    the balance is deducted, the guarantee not inserted           *)
(* refund    the insert failed, the balance is to be given back            *)
(* transfer  the case's lock names escrow t, which is to be looked up      *)
(* claim     no lock stands in the way                                     *)
(* credit    the guarantee is released, the balance not credited           *)
(* rollback  the credit failed                                             *)
(* sync      about to tell the Go backend the amount                       *)
(***************************************************************************)
CallRecords ==
    [pc : {"idle", "insert", "refund", "transfer", "claim", "credit", "rollback", "sync"},
     v : Validators \cup {None}, id : Ids, t : Transfers \cup {None}, amount : {0, 1}]

NoCall == [pc |-> "idle", v |-> None, id |-> 1, t |-> None, amount |-> 0]

TypeOK ==
    /\ WorkflowTypeOK
    /\ guarantee \in [Validators -> [Ids -> {"none", "active", "released"}]]
    /\ wallet \in [Validators -> Nat]
    /\ call \in [Calls -> CallRecords]
    /\ faults \in Nat
    /\ secured \subseteq Validators /\ misled \subseteq Validators
    /\ doubtful \in BOOLEAN

Active(v) == {i \in Ids : guarantee[v][i] = "active"}

\* Each staker has a guarantee, known to both services, or none.
Init ==
    /\ WorkflowInit
    /\ \E holders \in SUBSET Validators :
         /\ Validators \ Stakers \subseteq holders
         /\ \A v \in Validators : consult[v][1] # "none" => v \in holders
         /\ stake = holders
         /\ guarantee = [v \in Validators |-> [i \in Ids |->
                            IF i = 1 /\ v \in holders THEN "active" ELSE "none"]]
         /\ wallet = [v \in Validators |-> IF v \in holders THEN Total - 1 ELSE Total]
    /\ call = [g \in Calls |-> NoCall]
    /\ faults = 0
    /\ secured = {v \in Validators : consult[v][1] = "waiting_owner_response"}
    /\ misled = {}
    /\ doubtful = FALSE

-----------------------------------------------------------------------------

Fault == faults < MaxFaults /\ faults' = faults + 1

BeginCall(g, r) ==
    /\ call[g].pc = "idle" /\ left.calls > 0
    /\ left' = [left EXCEPT !.calls = @ - 1]
    /\ call' = [call EXCEPT ![g] = r]

GotoCall(g, pc) == call' = [call EXCEPT ![g].pc = pc]

ReturnCall(g) == call' = [call EXCEPT ![g] = NoCall]

\* SetGuaranteeAsync up to the deduction of the balance.
SetGuarantee(g, v) ==
    /\ Active(v) = {}
    /\ wallet[v] >= 1
    /\ BeginCall(g, [NoCall EXCEPT !.pc = "insert", !.v = v])
    /\ wallet' = [wallet EXCEPT ![v] = @ - 1]
    /\ UNCHANGED <<guarantee, faults, doubtful, stake>>

\* The partial unique index: one active guarantee per user.
InsertGuarantee(g) ==
    LET v == call[g].v IN
    /\ call[g].pc = "insert"
    /\ \/ /\ Active(v) = {}
          /\ \E i \in Ids : /\ guarantee[v][i] = "none"
                            /\ \A j \in Ids : j < i => guarantee[v][j] # "none"
                            /\ guarantee' = [guarantee EXCEPT ![v][i] = "active"]
          /\ call' = [call EXCEPT ![g].pc = "sync", ![g].amount = 1]
          /\ UNCHANGED faults
       \/ /\ IF Active(v) # {} THEN UNCHANGED faults ELSE Fault
          /\ GotoCall(g, "refund")
          /\ UNCHANGED guarantee
    /\ UNCHANGED <<wallet, doubtful, stake, left>>

BestEffortRefund(g) ==
    /\ call[g].pc = "refund"
    /\ \/ wallet' = [wallet EXCEPT ![call[g].v] = @ + 1] /\ UNCHANGED faults
       \/ UNCHANGED wallet /\ Fault
    /\ ReturnCall(g)
    /\ UNCHANGED <<guarantee, doubtful, stake, left>>

\* ListConsultationGuaranteeLocksForValidator: the case locks v's guarantee.
ConsultationLock(v) ==
    /\ consult[v][kase.cycle] \in {"approved", "waiting_owner_response"}
    /\ ~(kase.status = "completed" /\ kase.escrow = None)

\* ReleaseGuaranteeAsync up to the answer of the Go backend: a lock without
\* an escrow refuses the release.
ReleaseGuarantee(g, v) ==
    /\ ConsultationLock(v) => kase.escrow # None
    /\ \E i \in Active(v) :
         BeginCall(g, [NoCall EXCEPT
             !.pc = IF ConsultationLock(v) THEN "transfer" ELSE "claim",
             !.v = v, !.id = i, !.t = IF ConsultationLock(v) THEN kase.escrow ELSE None])
    /\ UNCHANGED <<guarantee, wallet, faults, doubtful, stake>>

\* Mutant: a disputed transfer no longer locks.
TransferResolvedUnlessPending(t, v) ==
    transfer[t].to = v /\ transfer[t].st # "pending"

\* EnsureNoActiveValidationCaseLockAsync: an escrow that is another's is
\* unresolved too.
TransferResolved(t, v) ==
    transfer[t].to = v /\ transfer[t].st \notin {"pending", "disputed"}

LookUpTransfer(g) ==
    /\ call[g].pc = "transfer"
    /\ IF TransferResolved(call[g].t, call[g].v) THEN GotoCall(g, "claim") ELSE ReturnCall(g)
    /\ UNCHANGED <<guarantee, wallet, faults, doubtful, stake, left>>

\* Mutant: the status is set whatever it is.
ClaimAgain(g) ==
    LET v == call[g].v  i == call[g].id IN
    /\ call[g].pc = "claim"
    /\ guarantee' = [guarantee EXCEPT ![v][i] = "released"]
    /\ GotoCall(g, "credit")
    /\ UNCHANGED <<wallet, faults, doubtful, stake, left>>

\* The conditional update Active -> Released.
ClaimRelease(g) ==
    LET v == call[g].v  i == call[g].id IN
    /\ call[g].pc = "claim"
    /\ IF guarantee[v][i] = "active"
       THEN /\ guarantee' = [guarantee EXCEPT ![v][i] = "released"]
            /\ GotoCall(g, "credit")
       ELSE ReturnCall(g) /\ UNCHANGED guarantee
    /\ UNCHANGED <<wallet, faults, doubtful, stake, left>>

\* AddBalanceAsync succeeds, fails, or throws after the balance was written.
CreditRelease(g) ==
    LET credited == [wallet EXCEPT ![call[g].v] = @ + 1] IN
    /\ call[g].pc = "credit"
    /\ \/ /\ wallet' = credited
          /\ call' = [call EXCEPT ![g].pc = "sync", ![g].amount = 0]
          /\ UNCHANGED <<faults, doubtful>>
       \/ UNCHANGED <<wallet, doubtful>> /\ Fault /\ GotoCall(g, "rollback")
       \/ wallet' = credited /\ doubtful' = TRUE /\ Fault /\ GotoCall(g, "rollback")
    /\ UNCHANGED <<guarantee, stake, left>>

\* Released -> Active, refused by the unique index when the user has made
\* another guarantee; that or another failure is only logged.
RollbackRelease(g) ==
    LET v == call[g].v  i == call[g].id IN
    /\ call[g].pc = "rollback"
    /\ \/ /\ Active(v) = {}
          /\ guarantee' = [guarantee EXCEPT ![v][i] = "active"]
          /\ UNCHANGED faults
       \/ /\ IF Active(v) # {} THEN UNCHANGED faults ELSE Fault
          /\ UNCHANGED guarantee
    /\ ReturnCall(g)
    /\ UNCHANGED <<wallet, doubtful, stake, left>>

\* GetMyGuarantee reads the active guarantee and sends its amount.
GetGuarantee(g, v) ==
    /\ BeginCall(g, [NoCall EXCEPT !.pc = "sync", !.v = v,
                                   !.amount = IF Active(v) = {} THEN 0 ELSE 1])
    /\ UNCHANGED <<guarantee, wallet, faults, doubtful, stake>>

\* BestEffortSyncGuaranteeAmountAsync and the Go handler.  A lost call is not
\* repeated.
SyncGuaranteeAmount(g) ==
    LET v == call[g].v IN
    /\ call[g].pc = "sync"
    /\ \/ stake' = IF call[g].amount = 1 THEN stake \cup {v} ELSE stake \ {v}
       \/ UNCHANGED stake
    /\ ReturnCall(g)
    /\ UNCHANGED <<guarantee, wallet, faults, doubtful, left>>

\* The process dies with the call.
CrashCall(g) ==
    /\ call[g].pc \notin {"idle", "sync"}
    /\ Fault
    /\ ReturnCall(g)
    /\ UNCHANGED <<guarantee, wallet, doubtful, stake, left>>

GuaranteeService ==
    /\ \E g \in Calls :
         \/ \E v \in Stakers : SetGuarantee(g, v) \/ ReleaseGuarantee(g, v) \/ GetGuarantee(g, v)
         \/ InsertGuarantee(g) \/ BestEffortRefund(g)
         \/ LookUpTransfer(g) \/ ClaimRelease(g) \/ CreditRelease(g) \/ RollbackRelease(g)
         \/ SyncGuaranteeAmount(g) \/ CrashCall(g)
    /\ UNCHANGED <<rows, featureService, req, raced, peeked>>

-----------------------------------------------------------------------------

\* v was approved in the current cycle and the outcome for v is open: there is
\* no escrow yet, or the escrow is in dispute or held, or its settlement can
\* still be taken back.
Engaged(v) ==
    /\ consult[v][kase.cycle] \in {"approved", "waiting_owner_response"}
    /\ IF kase.escrow = None THEN kase.status # "completed"
       ELSE \/ transfer[kase.escrow].to # v
            \/ transfer[kase.escrow].st \in {"pending", "disputed"}
            \/ transfer[kase.escrow].owing # "none"

\* A release of v's guarantee has had its answer about the cases.
Releasing(v) == \E g \in Calls : call[g].v = v /\ call[g].pc \in {"transfer", "claim"}

\* The step lets a release of v's guarantee pass for a transfer whose credit is
\* outstanding.
Misleads(v) ==
    \E g \in Calls : /\ call[g].v = v /\ call[g].pc = "transfer"
                     /\ call'[g].pc = "claim" /\ transfer[call[g].t].owing # "none"

\* The validators who stay engaged, or become so with a guarantee that no
\* release under way is about to take.
UpdateSecured ==
    /\ secured' = {v \in Validators :
                     /\ Engaged(v)'
                     /\ v \in secured \/ (~Engaged(v) /\ Active(v) # {} /\ ~Releasing(v))}
    /\ misled' = {v \in Validators : Engaged(v)' /\ (v \in misled \/ Misleads(v))}

Next ==
    /\ \/ WorkflowNext /\ UNCHANGED guaranteeVars
       \/ GuaranteeService
    /\ UpdateSecured

Spec == Init /\ [][Next]_vars

-----------------------------------------------------------------------------
(* Properties.                                                             *)

\* A validator who was approved with a guarantee in place keeps it until the
\* escrow is settled and paid or the cycle ends, whatever is in flight between
\* the two services and whatever credits fail (the check of
\* ReleaseGuaranteeAsync is made in the other service, before the guarantee is
\* released), with two exceptions: a handler overwrote a row it had not read,
\* so that a second ConfirmLockFunds gave the case another escrow than the one
\* a release under way has asked about; and a release was shown a status of
\* the escrow that was written before the credit and can be taken back.
GuaranteeStands == ~raced => \A v \in secured \ misled : Active(v) # {}

\* v's money: the balance, the locked guarantee, and what a call has taken from
\* one and not yet put into the other.
InFlight(v) == {g \in Calls : call[g].v = v /\ call[g].pc \in {"insert", "refund", "credit", "rollback"}}

Held(v) == wallet[v] + Cardinality(Active(v)) + Cardinality(InFlight(v))

\* Concurrent and repeated requests never make money of a guarantee, and lose
\* none unless a call fails or a process dies.  (A credit that is reported
\* failed and took effect is rolled back and can be taken a second time.)
GuaranteeMoneyKept ==
    ~doubtful => \A v \in Validators :
        /\ Held(v) <= Total
        /\ faults = 0 => Held(v) = Total

=============================================================================
