---------------------------- MODULE CaseWorkflow ----------------------------
(***************************************************************************)
(* backend/services/validation_case_workflow_service_ent.go: consultation, *)
(* final offers, funding, artifact and settlement of one validation case.  *)
(* A handler reads the case, checks it, may ask the feature service about  *)
(* a transfer, and then updates the row by its id.  Only AcceptFinalOffer  *)
(* repeats its conditions in the update.  The feature service reports what *)
(* became of a transfer by calls it makes once and does not repeat.        *)
(*                                                                         *)
(* A request that is refused changes nothing and is not a step; one that   *)
(* is refused, fails or dies half-way ends with Abandon.                   *)
(***************************************************************************)
EXTENDS Naturals, FiniteSets

CONSTANTS
    Validators,
    Transfers,     \* transfers of the feature service made for this case
    Disputes,      \* disputes of these transfers
    Requests,      \* slots of concurrent requests, of users and of the worker
    None,          \* an empty column
    MaxCycle,      \* bound: workflow cycles
    Budgets        \* bound: what a behaviour may make of the things left counts

ASSUME CaseWorkflowAssumption ==
    /\ MaxCycle \in Nat \ {0}
    /\ Budgets \subseteq [overlaps : Nat, transfers : Nat, calls : Nat, credits : Nat]
    /\ None \notin Validators \cup Transfers \cup Disputes

VARIABLES
    kase,        \* the row of the validation case
    consult,     \* consult[v][c]: consultation request of v in cycle c
    offer,       \* offer[v][c]: final offer of v in cycle c
    artifactRow, \* the case's row of artifact_submissions is there
    stake,       \* users whose guarantee_amount covers the required stake
    transfer,    \* transfer[t]: status, receiver, and who has a credit to make
    opened,      \* opened[d]: the transfer d disputes, or None
    notices,     \* calls of the feature service under way
    req,         \* the request each slot runs
    left,        \* requests that may still begin while another is under way,
                 \* transfers, requests of the guarantee service, and credits
                 \* that may fail
    raced,       \* history: a request overwrote the case after another had
    peeked       \* history: transfers the owner's request found released while
                 \* the credit was outstanding

workflowVars == <<kase, consult, offer, artifactRow, stake, transfer, opened,
                  notices, req, left, raced, peeked>>
rows == <<kase, consult, offer, artifactRow>>
featureService == <<transfer, opened, notices>>

-----------------------------------------------------------------------------

Cycles == 1..MaxCycle

\* waiting_owner_response stands for on_hold_owner_inactive too: both were
\* written by a retired flow and are treated alike.
Statuses == {"open", "offer_accepted", "funds_locked", "artifact_submitted",
             "disputed", "completed", "waiting_owner_response"}

\* An offer is named by its validator: whatever sets the cycle clears
\* accepted, so that the accepted offer is of the current cycle.
Cases == [status : Statuses, cycle : Cycles, accepted : Validators \cup {None},
          escrow : Transfers \cup {None}, dispute : Disputes \cup {None},
          artifact : BOOLEAN, certified : BOOLEAN]

ConsultationStates == {"none", "pending", "approved", "rejected", "waiting_owner_response"}
OfferStates == {"none", "submitted", "accepted_pending_funding", "accepted"}
TransferStates == {"none", "pending", "disputed", "released", "cancelled"}

\* The handler that has released or cancelled a transfer and has not yet made
\* the credit: a user's request, the auto-release worker, a mutual refund.
Creditors == {"none", "user", "auto", "mutual"}
TransferRecords == [st : TransferStates, to : Validators \cup {None}, owing : Creditors]
Notices == [outcome : {"released", "owner_refund", "validator_release"},
            t : Transfers, d : Disputes \cup {None}]

Ops == {"none", "consult", "approve", "reject", "offer", "accept", "confirm",
        "artifact", "release", "owner_refund", "validator_release", "attach",
        "normalize"}

(***************************************************************************)
(* pc: fetch, about to read the transfer; row, about to insert the         *)
(* artifact; write, about to update the case or the row of v; funded,      *)
(* about to mark the offer.  v, t, d and cycle are what it read or was     *)
(* given, next the status normalizeLegacyClarificationFlow derived.        *)
(***************************************************************************)
RequestRecords ==
    [pc : {"idle", "fetch", "row", "write", "funded"}, op : Ops,
     v : Validators \cup {None}, t : Transfers \cup {None},
     d : Disputes \cup {None}, cycle : Cycles, next : Statuses, overtaken : BOOLEAN]

NoRequest == [pc |-> "idle", op |-> "none", v |-> None, t |-> None, d |-> None,
              cycle |-> 1, next |-> "open", overtaken |-> FALSE]

WorkflowTypeOK ==
    /\ kase \in Cases
    /\ consult \in [Validators -> [Cycles -> ConsultationStates]]
    /\ offer \in [Validators -> [Cycles -> OfferStates]]
    /\ artifactRow \in BOOLEAN
    /\ stake \subseteq Validators
    /\ transfer \in [Transfers -> TransferRecords]
    /\ opened \in [Disputes -> Transfers \cup {None}]
    /\ notices \subseteq Notices
    /\ req \in [Requests -> RequestRecords]
    /\ left \in [overlaps : Nat, transfers : Nat, calls : Nat, credits : Nat]
    /\ raced \in BOOLEAN
    /\ peeked \subseteq Transfers

\* deriveCaseStatusFromWorkflowLinkage
DeriveStatus(k) ==
    CASE k.dispute # None  -> "disputed"
      [] k.dispute = None /\ k.certified -> "completed"
      [] k.dispute = None /\ ~k.certified /\ k.artifact -> "artifact_submitted"
      [] k.dispute = None /\ ~k.certified /\ ~k.artifact /\ k.escrow # None -> "funds_locked"
      [] k.dispute = None /\ ~k.certified /\ ~k.artifact /\ k.escrow = None /\ k.accepted # None
           -> "offer_accepted"
      [] OTHER -> "open"

NewCase == [status |-> "open", cycle |-> 1, accepted |-> None, escrow |-> None,
            dispute |-> None, artifact |-> FALSE, certified |-> FALSE]

NoRows(state) == [v \in Validators |-> [c \in Cycles |-> state]]

\* A new case, or one the retired flow left waiting for its owner, before or
\* after an offer of v was accepted.
WorkflowInit ==
    /\ \/ kase = NewCase /\ consult = NoRows("none") /\ offer = NoRows("none")
       \/ \E v \in Validators :
            /\ consult = [NoRows("none") EXCEPT ![v][1] = "waiting_owner_response"]
            /\ \/ /\ kase = [NewCase EXCEPT !.status = "waiting_owner_response"]
                  /\ offer = NoRows("none")
               \/ /\ kase = [NewCase EXCEPT !.status = "waiting_owner_response",
                                            !.accepted = v]
                  /\ offer = [NoRows("none") EXCEPT ![v][1] = "accepted_pending_funding"]
    /\ artifactRow = FALSE
    /\ transfer = [t \in Transfers |-> [st |-> "none", to |-> None, owing |-> "none"]]
    /\ opened = [d \in Disputes |-> None]
    /\ notices = {}
    /\ req = [q \in Requests |-> NoRequest]
    /\ left \in Budgets
    /\ raced = FALSE
    /\ peeked = {}

-----------------------------------------------------------------------------
(* The first step of a handler: it read the case and passed its checks.    *)

Begin(q, op, pc, v, t, d) ==
    /\ req[q].pc = "idle"
    /\ req' = [req EXCEPT ![q] =
                 [pc |-> pc, op |-> op, v |-> v, t |-> t, d |-> d, cycle |-> kase.cycle,
                  next |-> DeriveStatus(kase), overtaken |-> FALSE]]
    /\ IF \A p \in Requests : req[p].pc = "idle" THEN UNCHANGED left
       ELSE left.overlaps > 0 /\ left' = [left EXCEPT !.overlaps = @ - 1]
    /\ UNCHANGED <<stake, raced, peeked>>

\* The first step of a handler a user called.
Call(q, op, pc, v, t, d) ==
    /\ Begin(q, op, pc, v, t, d)
    /\ UNCHANGED <<rows, featureService>>

RequestConsultation(q, v) ==
    /\ kase.status = "open"
    /\ v \in stake
    /\ consult[v][kase.cycle] = "none"
    /\ Call(q, "consult", "write", v, None, None)

ApproveConsultationRequest(q, v) ==
    /\ consult[v][kase.cycle] = "pending"
    /\ Call(q, "approve", "write", v, None, None)

RejectConsultationRequest(q, v) ==
    /\ consult[v][kase.cycle] = "pending"
    /\ Call(q, "reject", "write", v, None, None)

SubmitFinalOffer(q, v) ==
    /\ kase.status = "open"
    /\ consult[v][kase.cycle] = "approved"
    /\ offer[v][kase.cycle] = "none"
    /\ Call(q, "offer", "write", v, None, None)

AcceptFinalOffer(q, v) ==
    /\ kase.status = "open" /\ kase.escrow = None /\ kase.dispute = None
    /\ offer[v][kase.cycle] # "none"
    /\ Call(q, "accept", "write", v, None, None)

ConfirmLockFunds(q, t) ==
    /\ kase.escrow = None /\ kase.accepted # None
    /\ Call(q, "confirm", "fetch", kase.accepted, t, None)

SubmitArtifact(q, v) ==
    /\ kase.accepted = v /\ kase.escrow # None /\ ~kase.artifact
    /\ Call(q, "artifact", "row", v, None, None)

MarkEscrowReleased(q) ==
    /\ kase.escrow # None /\ kase.artifact
    /\ Call(q, "release", "fetch", None, kase.escrow, None)

\* AttachDispute asks neither what the case's status is nor the dispute's.
AttachDispute(q, d) ==
    /\ kase.escrow # None /\ kase.dispute = None
    /\ opened[d] = kase.escrow
    /\ Call(q, "attach", "write", None, kase.escrow, d)

\* The feature service's call n arrives, to a handler that will not refuse.
Receive(q, n) ==
    /\ n \in notices
    /\ notices' = notices \ {n}
    /\ UNCHANGED <<rows, transfer, opened>>

MarkEscrowReleasedInternalByTransferID(q, n) ==
    /\ n.outcome = "released"
    /\ kase.escrow = n.t /\ kase.artifact
    /\ ~(kase.status = "completed" /\ kase.certified)
    /\ Begin(q, "release", "write", None, n.t, None)
    /\ Receive(q, n)

SettleDisputeInternalByTransferID(q, n) ==
    /\ n.outcome # "released"
    /\ kase.escrow = n.t /\ kase.dispute \in {None, n.d}
    /\ n.outcome = "validator_release" => ~(kase.status = "completed" /\ kase.dispute = None)
    /\ n.outcome = "owner_refund" => kase.cycle < MaxCycle
    /\ Begin(q, n.outcome, "write", None, n.t, n.d)
    /\ Receive(q, n)

\* A call is lost, or refused by its handler.
LoseNotice(n) ==
    /\ n \in notices
    /\ notices' = notices \ {n}
    /\ UNCHANGED <<rows, stake, transfer, opened, req, left, raced, peeked>>

(***************************************************************************)
(* normalizeLegacyClarificationFlow, one row at a time: a request of the   *)
(* current cycle, then its case.  (ProcessOwnerResponseSLA goes on to      *)
(* requests that still wait for the owner; those of the current cycle have *)
(* just been approved, and it skips the others.)                           *)
(***************************************************************************)
NormalizeRequest(q, v) ==
    /\ consult[v][kase.cycle] = "waiting_owner_response"
    /\ consult' = [consult EXCEPT ![v][kase.cycle] = "approved"]
    /\ IF kase.status = "waiting_owner_response"
       THEN Begin(q, "normalize", "write", v, None, None)
       ELSE req[q].pc = "idle" /\ UNCHANGED <<req, stake, left, raced, peeked>>
    /\ UNCHANGED <<kase, offer, artifactRow, featureService>>

\* The residual clean-up of cases without such a request.
NormalizeCase(q) ==
    /\ kase.status = "waiting_owner_response"
    /\ Call(q, "normalize", "write", None, None, None)

-----------------------------------------------------------------------------
(* The later steps.                                                        *)

At(q, op, pc) == req[q].op = op /\ req[q].pc = pc

Goto(q, pc) == req' = [req EXCEPT ![q].pc = pc]

Return(q) == req' = [req EXCEPT ![q] = NoRequest]

Abandon(q) ==
    /\ req[q].pc # "idle"
    /\ Return(q)
    /\ UNCHANGED <<rows, stake, featureService, left, raced, peeked>>

\* q updates the case and goes on at pc; the requests under way have read what
\* is now an old row.
Update(q, k, pc) ==
    /\ kase' = k
    /\ raced' = (raced \/ req[q].overtaken)
    /\ req' = [p \in Requests |->
                 IF p # q THEN [req[p] EXCEPT !.overtaken = req[p].pc # "idle"]
                 ELSE IF pc = "idle" THEN NoRequest ELSE [req[q] EXCEPT !.pc = pc]]
    /\ UNCHANGED <<stake, featureService, left, peeked>>

\* The unique index of consultation_requests refuses a second row.
InsertConsultation(q) ==
    LET v == req[q].v  c == req[q].cycle IN
    /\ At(q, "consult", "write")
    /\ consult[v][c] = "none"
    /\ consult' = [consult EXCEPT ![v][c] = "pending"]
    /\ Return(q)
    /\ UNCHANGED <<kase, offer, artifactRow, stake, featureService, left, raced, peeked>>

\* UpdateOneID(req.ID), whatever the row's status is by now.
WriteDecision(q) ==
    LET v == req[q].v  c == req[q].cycle IN
    /\ req[q].pc = "write" /\ req[q].op \in {"approve", "reject"}
    /\ consult' = [consult EXCEPT ![v][c] =
                     IF req[q].op = "approve" THEN "approved" ELSE "rejected"]
    /\ Return(q)
    /\ UNCHANGED <<kase, offer, artifactRow, stake, featureService, left, raced, peeked>>

\* The unique submission_key refuses a second offer.
InsertOffer(q) ==
    LET v == req[q].v  c == req[q].cycle IN
    /\ At(q, "offer", "write")
    /\ offer[v][c] = "none"
    /\ offer' = [offer EXCEPT ![v][c] = "submitted"]
    /\ Return(q)
    /\ UNCHANGED <<kase, consult, artifactRow, stake, featureService, left, raced, peeked>>

\* Mutant: the case is claimed whatever became of it.
ClaimUnconditionally(q) ==
    LET v == req[q].v  c == req[q].cycle IN
    /\ At(q, "accept", "write")
    /\ offer[v][c] = "submitted"
    /\ kase' = [kase EXCEPT !.accepted = v, !.status = "offer_accepted"]
    /\ offer' = [offer EXCEPT ![v][c] = "accepted_pending_funding"]
    /\ req' = [p \in Requests |->
                 IF p = q THEN NoRequest
                 ELSE [req[p] EXCEPT !.overtaken = req[p].pc # "idle"]]
    /\ UNCHANGED <<consult, artifactRow, stake, featureService, left, raced, peeked>>

\* Mutant: the offer is updated outside the transaction, and may not be.
ClaimCaseFirst(q) ==
    LET v == req[q].v  c == req[q].cycle IN
    /\ At(q, "accept", "write")
    /\ kase.cycle = c /\ kase.status = "open"
    /\ kase.escrow = None /\ kase.dispute = None /\ kase.accepted = None
    /\ kase' = [kase EXCEPT !.accepted = v, !.status = "offer_accepted"]
    /\ offer' \in {offer, [offer EXCEPT ![v][c] = "accepted_pending_funding"]}
    /\ req' = [p \in Requests |->
                 IF p = q THEN NoRequest
                 ELSE [req[p] EXCEPT !.overtaken = req[p].pc # "idle"]]
    /\ UNCHANGED <<consult, artifactRow, stake, featureService, left, raced, peeked>>

\* The transaction of AcceptFinalOffer.  It does not overwrite: its
\* conditions are part of the update.
ClaimAcceptance(q) ==
    LET v == req[q].v  c == req[q].cycle IN
    /\ At(q, "accept", "write")
    /\ kase.cycle = c /\ kase.status = "open"
    /\ kase.escrow = None /\ kase.dispute = None /\ kase.accepted = None
    /\ offer[v][c] = "submitted"
    /\ kase' = [kase EXCEPT !.accepted = v, !.status = "offer_accepted"]
    /\ offer' = [offer EXCEPT ![v][c] = "accepted_pending_funding"]
    /\ req' = [p \in Requests |->
                 IF p = q THEN NoRequest
                 ELSE [req[p] EXCEPT !.overtaken = req[p].pc # "idle"]]
    /\ UNCHANGED <<consult, artifactRow, stake, featureService, left, raced, peeked>>

\* getFeatureTransfer and the checks of ConfirmLockFunds.
FetchPending(q) ==
    /\ At(q, "confirm", "fetch")
    /\ transfer[req[q].t].st = "pending" /\ transfer[req[q].t].to = req[q].v
    /\ Goto(q, "write")
    /\ UNCHANGED <<rows, stake, featureService, left, raced, peeked>>

LockFunds(q) ==
    /\ At(q, "confirm", "write")
    /\ Update(q, [kase EXCEPT !.escrow = req[q].t, !.status = "funds_locked"], "funded")
    /\ UNCHANGED <<consult, offer, artifactRow>>

MarkOfferFunded(q) ==
    /\ At(q, "confirm", "funded")
    /\ offer' = [offer EXCEPT ![req[q].v][req[q].cycle] = "accepted"]
    /\ Return(q)
    /\ UNCHANGED <<kase, consult, artifactRow, stake, featureService, left, raced, peeked>>

\* The unique index of artifact_submissions: one row per case, which no later
\* cycle removes.
InsertArtifact(q) ==
    /\ At(q, "artifact", "row")
    /\ ~artifactRow
    /\ artifactRow' = TRUE
    /\ Goto(q, "write")
    /\ UNCHANGED <<kase, consult, offer, stake, featureService, left, raced, peeked>>

WriteArtifact(q) ==
    /\ At(q, "artifact", "write")
    /\ Update(q, [kase EXCEPT !.artifact = TRUE, !.status = "artifact_submitted"], "idle")
    /\ UNCHANGED <<consult, offer, artifactRow>>

\* What q has found of its transfer may not last: the credit is outstanding.
Peek(q) ==
    LET t == req[q].t IN
    peeked' = IF transfer[t].owing = "none" THEN peeked ELSE peeked \cup {t}

\* Mutant: a transfer that is no longer pending counts as released.
FetchClosed(q) ==
    /\ At(q, "release", "fetch")
    /\ transfer[req[q].t].st \in {"released", "cancelled"}
    /\ Peek(q)
    /\ Goto(q, "write")
    /\ UNCHANGED <<rows, stake, featureService, left, raced>>

FetchReleased(q) ==
    /\ At(q, "release", "fetch")
    /\ transfer[req[q].t].st = "released"
    /\ Peek(q)
    /\ Goto(q, "write")
    /\ UNCHANGED <<rows, stake, featureService, left, raced>>

WriteCompleted(q) ==
    /\ At(q, "release", "write")
    /\ Update(q, [kase EXCEPT !.certified = TRUE, !.status = "completed"], "idle")
    /\ UNCHANGED <<consult, offer, artifactRow>>

\* owner_refund clears every link and opens the next cycle.
WriteOwnerRefund(q) ==
    /\ At(q, "owner_refund", "write")
    /\ Update(q, [NewCase EXCEPT !.cycle = req[q].cycle + 1], "idle")
    /\ UNCHANGED <<consult, offer, artifactRow>>

WriteValidatorRelease(q) ==
    /\ At(q, "validator_release", "write")
    /\ Update(q, [kase EXCEPT !.dispute = None, !.status = "completed"], "idle")
    /\ UNCHANGED <<consult, offer, artifactRow>>

WriteDispute(q) ==
    /\ At(q, "attach", "write")
    /\ Update(q, [kase EXCEPT !.dispute = req[q].d, !.status = "disputed"], "idle")
    /\ UNCHANGED <<consult, offer, artifactRow>>

WriteNormalized(q) ==
    /\ At(q, "normalize", "write")
    /\ Update(q, [kase EXCEPT !.status = req[q].next], "idle")
    /\ UNCHANGED <<consult, offer, artifactRow>>

-----------------------------------------------------------------------------
(* The feature service: TransferService and DisputeService, a claim of the *)
(* status, the credit that follows it and the rollback of a failed credit  *)
(* as steps of their own.  Nobody but the handler that made the claim      *)
(* changes the status while its credit is outstanding.                     *)

SetTransfer(t, st, owing) ==
    transfer' = [transfer EXCEPT ![t].st = st, ![t].owing = owing]

\* The unique index of pending case locks admits a transfer of t's receiver.
Unlocked(t, v) ==
    \A u \in Transfers \ {t} : ~(transfer[u].st = "pending" /\ transfer[u].to = v)

CreateTransfer(t, v) ==
    /\ transfer[t].st = "none" /\ left.transfers > 0
    /\ left' = [left EXCEPT !.transfers = @ - 1]
    /\ \E c \in Cycles : offer[v][c] = "accepted_pending_funding"
    /\ Unlocked(t, v)
    /\ transfer' = [transfer EXCEPT ![t] = [st |-> "pending", to |-> v, owing |-> "none"]]
    /\ UNCHANGED <<opened, notices>>

\* The owner releases or cancels, or the receiver rejects, a disputed transfer
\* too.
EndTransfer(t) ==
    /\ \/ /\ transfer[t].st = "pending"
          /\ \E st \in {"released", "cancelled"} : SetTransfer(t, st, "user")
       \/ transfer[t].st = "disputed" /\ SetTransfer(t, "cancelled", "user")
    /\ UNCHANGED <<opened, notices, left>>

AutoRelease(t) ==
    /\ transfer[t].st = "pending"
    /\ SetTransfer(t, "released", "auto")
    /\ UNCHANGED <<opened, notices, left>>

MutualRefund(t) ==
    /\ transfer[t].st = "disputed" /\ \E d \in Disputes : opened[d] = t
    /\ SetTransfer(t, "cancelled", "mutual")
    /\ UNCHANGED <<opened, notices, left>>

\* What the handler reports when it has made the credit: only the worker
\* reports a release, and of the refunds only a mutual one is reported.
Reports(t) ==
    CASE transfer[t].owing = "auto"   -> {[outcome |-> "released", t |-> t, d |-> None]}
      [] transfer[t].owing = "mutual" ->
           {[outcome |-> "owner_refund", t |-> t, d |-> d] : d \in {e \in Disputes : opened[e] = t}}
      [] OTHER -> {}

\* The credit is made; or the handler dies, or its rollback fails, and what it
\* would have reported is lost.
EndCredit(t) ==
    /\ transfer[t].owing # "none"
    /\ SetTransfer(t, transfer[t].st, "none")
    /\ notices' = notices \cup Reports(t)
    /\ UNCHANGED <<opened, left>>

\* The credit throws and the status goes back, to Pending from a reject of a
\* disputed transfer too.
UndoClaim(t) ==
    /\ transfer[t].owing # "none" /\ left.credits > 0
    /\ left' = [left EXCEPT !.credits = @ - 1]
    /\ IF transfer[t].owing = "mutual" THEN SetTransfer(t, "disputed", "none")
       ELSE Unlocked(t, transfer[t].to) /\ SetTransfer(t, "pending", "none")
    /\ UNCHANGED <<opened, notices>>

\* One dispute for a transfer: a check and a unique index.
OpenDispute(t, d) ==
    /\ transfer[t].st = "pending"
    /\ opened[d] = None /\ \A e \in Disputes : opened[e] # t
    /\ SetTransfer(t, "disputed", "none")
    /\ opened' = [opened EXCEPT ![d] = t]
    /\ UNCHANGED <<notices, left>>

\* A dispute that is not inserted, for a failure or because there is one, and
\* the return from a withdrawal that could not close the dispute.
FreezeTransfer(t) ==
    /\ transfer[t].st = "pending"
    /\ SetTransfer(t, "disputed", "none")
    /\ UNCHANGED <<opened, notices, left>>

\* The dispute is withdrawn, resolved by NoAction, or was not inserted.
ContinueTransfer(t) ==
    /\ transfer[t].st = "disputed" /\ Unlocked(t, transfer[t].to)
    /\ SetTransfer(t, "pending", "none")
    /\ UNCHANGED <<opened, notices, left>>

\* An administrator's full refund or full release, and a split, which releases
\* the transfer and is not reported. A credit that throws ends the request and
\* leaves the status: the report is lost.
SettleDispute(t, d) ==
    /\ transfer[t].st = "disputed" /\ opened[d] = t
    /\ \/ /\ SetTransfer(t, "cancelled", "none")
          /\ notices' = notices \cup {[outcome |-> "owner_refund", t |-> t, d |-> d]}
       \/ /\ SetTransfer(t, "released", "none")
          /\ notices' = notices \cup {[outcome |-> "validator_release", t |-> t, d |-> d]}
       \/ SetTransfer(t, "released", "none") /\ UNCHANGED notices
    /\ UNCHANGED <<opened, left>>

FeatureService ==
    /\ \E t \in Transfers :
         \/ \E v \in Validators : CreateTransfer(t, v)
         \/ EndTransfer(t) \/ AutoRelease(t) \/ MutualRefund(t)
         \/ EndCredit(t) \/ UndoClaim(t)
         \/ FreezeTransfer(t) \/ ContinueTransfer(t)
         \/ \E d \in Disputes : OpenDispute(t, d) \/ SettleDispute(t, d)
    /\ UNCHANGED <<rows, stake, req, raced, peeked>>

-----------------------------------------------------------------------------

Handle(q) ==
    \/ \E v \in Validators :
         \/ RequestConsultation(q, v) \/ ApproveConsultationRequest(q, v)
         \/ RejectConsultationRequest(q, v) \/ SubmitFinalOffer(q, v)
         \/ AcceptFinalOffer(q, v) \/ SubmitArtifact(q, v) \/ NormalizeRequest(q, v)
    \/ \E t \in Transfers : ConfirmLockFunds(q, t)
    \/ \E d \in Disputes : AttachDispute(q, d)
    \/ MarkEscrowReleased(q) \/ NormalizeCase(q)
    \/ \E n \in notices : \/ MarkEscrowReleasedInternalByTransferID(q, n)
                          \/ SettleDisputeInternalByTransferID(q, n)

Continue(q) ==
    \/ InsertConsultation(q) \/ WriteDecision(q) \/ InsertOffer(q) \/ ClaimAcceptance(q)
    \/ FetchPending(q) \/ LockFunds(q) \/ MarkOfferFunded(q)
    \/ InsertArtifact(q) \/ WriteArtifact(q) \/ FetchReleased(q) \/ WriteCompleted(q)
    \/ WriteOwnerRefund(q) \/ WriteValidatorRelease(q) \/ WriteDispute(q)
    \/ WriteNormalized(q) \/ Abandon(q)

WorkflowNext ==
    \/ \E q \in Requests : Handle(q) \/ Continue(q)
    \/ \E n \in notices : LoseNotice(n)
    \/ FeatureService

-----------------------------------------------------------------------------
(* Properties.                                                             *)

\* The offer of v in cycle c was accepted.
Taken(v, c) == offer[v][c] \in {"accepted_pending_funding", "accepted"}

\* The accepted offer is one that was claimed in this cycle, whatever requests
\* overlap (the transaction of AcceptFinalOffer).  As long as no handler
\* overwrote a row it had not read, the other links agree too: an open case
\* has none, an artifact or a dispute needs an escrow, and the escrow is a
\* transfer to the accepted validator (ConfirmLockFunds, SubmitArtifact,
\* SettleDisputeInternalByTransferID).
LinksAgree ==
    /\ kase.accepted # None => Taken(kase.accepted, kase.cycle)
    /\ ~raced =>
        /\ kase.status = "open" => kase.accepted = None
        /\ kase.artifact \/ kase.dispute # None => kase.escrow # None
        /\ kase.escrow # None => /\ kase.accepted # None
                                 /\ transfer[kase.escrow].to = kase.accepted

\* t is released for good, or a request of the owner has found it released
\* before the receiver was credited.
SeenReleased(t) ==
    t \in peeked \/ (transfer[t].st = "released" /\ transfer[t].owing = "none")

\* A case is completed, or its artifact certified, only for a transfer that is
\* released for good, however late or lost the feature service's calls are and
\* whatever credits fail: the two internal handlers, which do not ask, are told
\* after the credit.  The one exception is MarkEscrowReleased: it asks, and may
\* be shown the status that ReleaseTransferAsync writes before the credit and
\* takes back when it throws.
CompletedIsReleased ==
    ~raced /\ (kase.certified \/ kase.status = "completed") =>
        kase.escrow # None /\ SeenReleased(kase.escrow)

\* Two requests that accept different offers never both succeed in one cycle
\* (the conditional update of AcceptFinalOffer).
OneAcceptedPerCycle ==
    ~raced => \A c \in Cycles :
        Cardinality({v \in Validators : Taken(v, c)}) <= 1

=============================================================================
