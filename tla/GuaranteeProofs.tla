-------------------------- MODULE GuaranteeProofs --------------------------
(***************************************************************************)
(* The workflow of a validation case and the profile guarantees beside it, *)
(* for any validators, transfers, disputes and cycles, any number of       *)
(* requests in flight and any failures: WorkflowInv and GuaranteeInv are   *)
(* inductive and imply the properties.                                     *)
(***************************************************************************)
EXTENDS Guarantee, FiniteSetTheorems, TLAPS

-----------------------------------------------------------------------------
(* The inductive invariant of CaseWorkflow, behind LinksAgree,             *)
(* CompletedIsReleased and OneAcceptedPerCycle.                            *)

\* What a request under way knows for good.
Knows(q) ==
    LET r == req[q] IN
    r.pc # "idle" =>
        /\ r.op \in {"consult", "approve", "reject", "offer", "accept", "confirm"} => r.v # None
        /\ r.op \in {"confirm", "release", "attach", "validator_release"} => r.t # None
        /\ r.op = "confirm" => Taken(r.v, r.cycle)
        /\ r.op = "confirm" /\ r.pc # "fetch" => transfer[r.t].to = r.v
        /\ r.op \in {"release", "validator_release"} /\ r.pc = "write" => SeenReleased(r.t)
        /\ r.op = "owner_refund" => r.cycle < MaxCycle

\* What it knows as long as nobody else has updated the case.
Fresh(q) ==
    LET r == req[q] IN
    r.pc # "idle" =>
        /\ r.cycle <= kase.cycle
        /\ ~r.overtaken =>
            /\ r.cycle = kase.cycle
            /\ r.op = "normalize" => r.next = DeriveStatus(kase)
            /\ r.op = "confirm" /\ r.pc # "funded" => kase.escrow = None /\ kase.accepted = r.v
            /\ r.op = "artifact" => kase.escrow # None
            /\ r.op \in {"release", "attach", "validator_release"} => kase.escrow = r.t

\* The links of the case.
Linked ==
    /\ kase.status = "open" => kase.accepted = None
    /\ kase.artifact \/ kase.dispute # None => kase.escrow # None
    /\ kase.escrow # None => kase.accepted # None /\ transfer[kase.escrow].to = kase.accepted
    /\ kase.certified \/ kase.status = "completed" =>
          kase.escrow # None /\ SeenReleased(kase.escrow)

\* The rows of the cycles, of which the case's is the last.
Cycled ==
    /\ \A v \in Validators, c \in Cycles : consult[v][c] # "none" => c <= kase.cycle
    /\ \A v \in Validators, c \in Cycles :
          Taken(v, c) => c <= kase.cycle /\ (c = kase.cycle => kase.accepted = v)
    /\ \A v, w \in Validators, c \in Cycles : Taken(v, c) /\ Taken(w, c) => v = w

\* A transfer without a receiver was not made; a credit is outstanding for a
\* transfer that was released or cancelled, as its handler has it; and the
\* reports are true.
TransfersSound ==
    /\ \A t \in Transfers :
          /\ transfer[t].st = "none" => transfer[t].to = None
          /\ transfer[t].owing # "none" => transfer[t].st \in {"released", "cancelled"}
          /\ transfer[t].owing = "auto" => transfer[t].st = "released"
    /\ \A n \in notices : n.outcome # "owner_refund" => SeenReleased(n.t)

\* The accepted offer was claimed in this cycle.
Claimed == kase.accepted # None => Taken(kase.accepted, kase.cycle)

WorkflowInv ==
    /\ WorkflowTypeOK
    /\ TransfersSound
    /\ Claimed
    /\ \A q \in Requests : Knows(q)
    /\ ~raced => Linked /\ Cycled /\ \A q \in Requests : Fresh(q)

-----------------------------------------------------------------------------
(* The inductive invariant of Guarantee, behind GuaranteeStands and        *)
(* GuaranteeMoneyKept.                                                     *)

\* A call under way, and no other, is about a validator; one that looks a
\* transfer up has its id; one that rolls back has met a fault.
CallsSound ==
    \A g \in Calls :
        /\ call[g].pc # "idle" <=> call[g].v # None
        /\ call[g].pc = "transfer" => call[g].t # None
        /\ call[g].pc = "rollback" => faults > 0

\* The partial unique index.
OneActive == \A v \in Validators : \A i, j \in Active(v) : i = j

\* A secured validator is engaged and holds a guarantee, and a release of it
\* under way has been told of the case's escrow.
Stands(v) ==
    /\ Engaged(v)
    /\ Active(v) # {}
    /\ \A g \in Calls : call[g].v = v =>
          /\ call[g].pc # "claim"
          /\ call[g].pc = "transfer" => call[g].t = kase.escrow

MoneyKept(v) ==
    /\ IsFiniteSet(InFlight(v))
    /\ ~doubtful => Held(v) <= Total /\ (faults = 0 => Held(v) = Total)

GuaranteeInv ==
    /\ TypeOK
    /\ WorkflowInv
    /\ CallsSound
    /\ OneActive
    /\ \A v \in Validators : MoneyKept(v)
    /\ ~raced => \A v \in secured \ misled : Stands(v)

-----------------------------------------------------------------------------
(* The workflow: what a step leaves of the knowledge of the requests.      *)

LEMMA DerivedStatus == ASSUME NEW k PROVE DeriveStatus(k) \in Statuses
BY DEF DeriveStatus, Statuses

LEMMA NoRequestFits == NoRequest \in RequestRecords
BY CaseWorkflowAssumption DEF NoRequest, RequestRecords, Ops, Cycles, Statuses

\* A transfer that has a receiver keeps it, one that was seen released stays
\* so, and an offer that was accepted stays accepted.
Keeps ==
    /\ \A t \in Transfers :
          /\ transfer[t].to # None => transfer'[t].to = transfer[t].to
          /\ SeenReleased(t) => SeenReleased(t)'
    /\ \A v \in Validators, c \in Cycles : Taken(v, c) => Taken(v, c)'

SamePlace(p) ==
    /\ req'[p].pc = req[p].pc /\ req'[p].op = req[p].op /\ req'[p].next = req[p].next
    /\ req'[p].v = req[p].v /\ req'[p].t = req[p].t /\ req'[p].cycle = req[p].cycle

\* The request a slot runs, field by field.
LEMMA RequestType ==
  ASSUME WorkflowTypeOK, NEW q \in Requests
  PROVE  /\ req[q].pc \in {"idle", "fetch", "row", "write", "funded"} /\ req[q].op \in Ops
         /\ req[q].v \in Validators \cup {None} /\ req[q].t \in Transfers \cup {None}
         /\ req[q].d \in Disputes \cup {None} /\ req[q].cycle \in Cycles
         /\ req[q].next \in Statuses /\ req[q].overtaken \in BOOLEAN
BY DEF WorkflowTypeOK, RequestRecords

\* The case, column by column.
LEMMA CaseType ==
  ASSUME WorkflowTypeOK
  PROVE  /\ kase.status \in Statuses /\ kase.cycle \in Cycles
         /\ kase.accepted \in Validators \cup {None} /\ kase.escrow \in Transfers \cup {None}
         /\ kase.dispute \in Disputes \cup {None} /\ kase.artifact \in BOOLEAN /\ kase.certified \in BOOLEAN
BY DEF WorkflowTypeOK, Cases

LEMMA KnowsKept ==
  ASSUME WorkflowInv, Keeps, NEW p \in Requests, SamePlace(p)
  PROVE  Knows(p)'
<1>1. WorkflowTypeOK /\ Knows(p)
  BY DEF WorkflowInv
<1>2. /\ req[p].v \in Validators \cup {None} /\ req[p].t \in Transfers \cup {None} /\ req[p].cycle \in Cycles
  BY <1>1, RequestType
<1> QED
  BY <1>1, <1>2, CaseWorkflowAssumption DEF Knows, Keeps, SamePlace, SeenReleased

LEMMA FreshKept ==
  ASSUME NEW p \in Requests, Fresh(p), SamePlace(p), req'[p].overtaken = req[p].overtaken, kase' = kase
  PROVE  Fresh(p)'
BY DEF Fresh, SamePlace, DeriveStatus

\* The links do not depend on what becomes of other transfers.
LEMMA LinkedKept ==
  ASSUME WorkflowInv, Keeps, kase' = kase, Linked
  PROVE  Linked'
<1>1. kase.escrow \in Transfers \cup {None}
  BY CaseType DEF WorkflowInv
<1> QED
  BY <1>1 DEF Linked, Keeps, SeenReleased

LEMMA CycledKept ==
  ASSUME Cycled, kase' = kase,
         \A v \in Validators, c \in Cycles : Taken(v, c)' => Taken(v, c),
         \A v \in Validators, c \in Cycles : consult'[v][c] # "none" => consult[v][c] # "none" \/ c <= kase.cycle
  PROVE  Cycled'
BY DEF Cycled

\* A step of request q that does not update the case.
LEMMA StepKept ==
  ASSUME WorkflowInv, WorkflowTypeOK', TransfersSound', Keeps, kase' = kase, raced' = raced,
         NEW q \in Requests, \A p \in Requests : p # q => req'[p] = req[p],
         Knows(q)', ~raced => Fresh(q)' /\ Cycled'
  PROVE  WorkflowInv'
<1>1. \A p \in Requests : Knows(p)'
  BY KnowsKept DEF SamePlace
<1>2. Claimed'
  <2>1. kase.accepted \in Validators \cup {None} /\ kase.cycle \in Cycles
    BY CaseType DEF WorkflowInv
  <2>2. Claimed
    BY DEF WorkflowInv
  <2> QED
    BY <2>1, <2>2 DEF Claimed, Keeps, SeenReleased
<1>3. ASSUME ~raced PROVE Linked' /\ Cycled' /\ \A p \in Requests : Fresh(p)'
  <2>1. Linked /\ \A p \in Requests : Fresh(p)
    BY <1>3 DEF WorkflowInv
  <2>2. ASSUME NEW p \in Requests PROVE Fresh(p)'
    BY <1>3, <2>1, FreshKept DEF SamePlace
  <2> QED
    BY <1>3, <2>1, <2>2, LinkedKept
<1> QED
  BY <1>1, <1>2, <1>3 DEF WorkflowInv

\* The first step of a handler.
Began(q, op, pc, v, t, d) ==
    /\ req' \in [Requests -> RequestRecords]
    /\ left' \in [overlaps : Nat, transfers : Nat, calls : Nat, credits : Nat]
    /\ UNCHANGED <<stake, raced, peeked>>
    /\ \A p \in Requests : p # q => req'[p] = req[p]
    /\ req'[q].pc = pc /\ req'[q].op = op /\ req'[q].v = v /\ req'[q].t = t
    /\ req'[q].d = d /\ req'[q].cycle = kase.cycle /\ req'[q].next = DeriveStatus(kase)
    /\ req'[q].overtaken = FALSE

LEMMA BeginEffect ==
  ASSUME WorkflowTypeOK, NEW q \in Requests, NEW op \in Ops, NEW pc \in {"fetch", "row", "write"},
         NEW v \in Validators \cup {None}, NEW t \in Transfers \cup {None}, NEW d \in Disputes \cup {None},
         Begin(q, op, pc, v, t, d)
  PROVE  Began(q, op, pc, v, t, d)
<1> DEFINE r == [pc |-> pc, op |-> op, v |-> v, t |-> t, d |-> d, cycle |-> kase.cycle,
                 next |-> DeriveStatus(kase), overtaken |-> FALSE]
<1>1. r \in RequestRecords
  BY CaseType, DerivedStatus DEF RequestRecords
<1>2. /\ r.pc = pc /\ r.op = op /\ r.v = v /\ r.t = t /\ r.d = d /\ r.cycle = kase.cycle
      /\ r.next = DeriveStatus(kase) /\ r.overtaken = FALSE
  OBVIOUS
<1>3. req' = [req EXCEPT ![q] = r] /\ UNCHANGED <<stake, raced, peeked>>
  BY DEF Begin
<1>4. left' \in [overlaps : Nat, transfers : Nat, calls : Nat, credits : Nat]
  BY DEF Begin, WorkflowTypeOK
<1> HIDE DEF r
<1> QED
  BY <1>1, <1>2, <1>3, <1>4 DEF WorkflowTypeOK, Began

\* A handler that a user called has read the case.
LEMMA CallKept ==
  ASSUME WorkflowInv, NEW q \in Requests, NEW op \in Ops, NEW pc \in {"fetch", "row", "write"},
         NEW v \in Validators \cup {None}, NEW t \in Transfers \cup {None}, NEW d \in Disputes \cup {None},
         Begin(q, op, pc, v, t, d), UNCHANGED <<kase, offer, artifactRow, transfer, opened>>,
         notices' \subseteq notices,
         consult' \in [Validators -> [Cycles -> ConsultationStates]],
         \A u \in Validators, c \in Cycles : consult'[u][c] # "none" => consult[u][c] # "none" \/ c <= kase.cycle,
         op \in {"consult", "approve", "reject", "offer", "accept", "confirm"} => v # None,
         op \in {"confirm", "release", "attach", "validator_release"} => t # None,
         op = "confirm" => pc = "fetch" /\ kase.accepted = v /\ kase.escrow = None,
         op = "artifact" => kase.escrow # None,
         op \in {"release", "attach", "validator_release"} => kase.escrow = t,
         op \in {"release", "validator_release"} /\ pc = "write" => SeenReleased(t),
         op = "owner_refund" => kase.cycle < MaxCycle
  PROVE  WorkflowInv'
<1>0. WorkflowTypeOK
  BY DEF WorkflowInv
<1>6. Began(q, op, pc, v, t, d)
  BY <1>0, BeginEffect
<1>1. /\ req' \in [Requests -> RequestRecords]
      /\ left' \in [overlaps : Nat, transfers : Nat, calls : Nat, credits : Nat]
      /\ UNCHANGED <<stake, raced, peeked>>
      /\ \A p \in Requests : p # q => req'[p] = req[p]
      /\ req'[q].pc = pc /\ req'[q].op = op /\ req'[q].v = v /\ req'[q].t = t
      /\ req'[q].d = d /\ req'[q].cycle = kase.cycle /\ req'[q].next = DeriveStatus(kase)
      /\ req'[q].overtaken = FALSE
  BY <1>6 DEF Began
<1>2. WorkflowTypeOK'
  BY <1>0, <1>1 DEF WorkflowTypeOK
<1>3. Keeps /\ TransfersSound' /\ \A u \in Validators, c \in Cycles : Taken(u, c)' <=> Taken(u, c)
  BY <1>1 DEF Keeps, Taken, TransfersSound, WorkflowInv, SeenReleased
<1>4. Knows(q)'
  <2>1. op = "confirm" => Taken(v, kase.cycle)
    BY DEF WorkflowInv, Claimed
  <2>2. kase.cycle \in Cycles
    BY <1>0, CaseType
  <2> QED
    BY <1>1, <1>3, <2>1, <2>2 DEF Knows, SeenReleased
<1>5. ASSUME ~raced PROVE Fresh(q)' /\ Cycled'
  <2>1. Cycled /\ kase.cycle \in Nat
    BY <1>0, <1>5, CaseType DEF WorkflowInv, Cycles
  <2>2. Cycled'
    BY <1>3, <2>1, CycledKept
  <2>3. Fresh(q)'
    BY <1>1, <2>1 DEF Fresh
  <2> QED
    BY <2>2, <2>3
<1> QED
  BY <1>1, <1>2, <1>3, <1>4, <1>5, StepKept

\* A handler whose only effect so far is that it has read the case.
LEMMA ReaderKept ==
  ASSUME WorkflowInv, NEW q \in Requests, NEW op \in Ops, NEW pc \in {"fetch", "row", "write"},
         NEW v \in Validators \cup {None}, NEW t \in Transfers \cup {None}, NEW d \in Disputes \cup {None},
         Call(q, op, pc, v, t, d),
         op \in {"consult", "approve", "reject", "offer", "accept", "confirm"} => v # None,
         op \in {"confirm", "attach", "release"} => t # None,
         op = "confirm" => pc = "fetch" /\ kase.accepted = v /\ kase.escrow = None,
         op = "artifact" => kase.escrow # None,
         op \in {"release", "attach"} => kase.escrow = t,
         op = "release" => pc = "fetch",
         op \notin {"validator_release", "owner_refund"}
  PROVE  WorkflowInv'
<1>1. /\ Begin(q, op, pc, v, t, d) /\ UNCHANGED <<kase, offer, artifactRow, transfer, opened>>
      /\ notices' \subseteq notices /\ consult' = consult
  BY DEF Call, rows, featureService
<1>2. consult \in [Validators -> [Cycles -> ConsultationStates]]
  BY DEF WorkflowInv, WorkflowTypeOK
<1>3. \A u \in Validators, c \in Cycles : consult'[u][c] # "none" => consult[u][c] # "none" \/ c <= kase.cycle
  BY <1>1
<1> QED
  BY <1>1, <1>2, <1>3, CallKept

LEMMA HandleKept == ASSUME WorkflowInv, NEW q \in Requests, Handle(q) PROVE WorkflowInv'
<1>0. /\ WorkflowTypeOK /\ TransfersSound /\ None \notin Validators \cup Transfers \cup Disputes
      /\ kase.accepted \in Validators \cup {None} /\ kase.escrow \in Transfers \cup {None}
      /\ kase.cycle \in Cycles
  BY CaseWorkflowAssumption, CaseType DEF WorkflowInv
<1> USE <1>0
<1>1. ASSUME NEW v \in Validators, RequestConsultation(q, v) PROVE WorkflowInv'
  BY <1>1, ReaderKept DEF RequestConsultation, Ops
<1>2. ASSUME NEW v \in Validators, ApproveConsultationRequest(q, v) PROVE WorkflowInv'
  BY <1>2, ReaderKept DEF ApproveConsultationRequest, Ops
<1>3. ASSUME NEW v \in Validators, RejectConsultationRequest(q, v) PROVE WorkflowInv'
  BY <1>3, ReaderKept DEF RejectConsultationRequest, Ops
<1>4. ASSUME NEW v \in Validators, SubmitFinalOffer(q, v) PROVE WorkflowInv'
  BY <1>4, ReaderKept DEF SubmitFinalOffer, Ops
<1>5. ASSUME NEW v \in Validators, AcceptFinalOffer(q, v) PROVE WorkflowInv'
  BY <1>5, ReaderKept DEF AcceptFinalOffer, Ops
<1>6. ASSUME NEW v \in Validators, SubmitArtifact(q, v) PROVE WorkflowInv'
  BY <1>6, ReaderKept DEF SubmitArtifact, Ops
<1>7. ASSUME NEW t \in Transfers, ConfirmLockFunds(q, t) PROVE WorkflowInv'
  BY <1>7, ReaderKept DEF ConfirmLockFunds, Ops
<1>8. ASSUME NEW d \in Disputes, AttachDispute(q, d) PROVE WorkflowInv'
  BY <1>8, ReaderKept DEF AttachDispute, Ops
<1>9. ASSUME MarkEscrowReleased(q) PROVE WorkflowInv'
  BY <1>9, ReaderKept DEF MarkEscrowReleased, Ops
<1>10. ASSUME NormalizeCase(q) PROVE WorkflowInv'
  BY <1>10, ReaderKept DEF NormalizeCase, Ops
<1>11. ASSUME NEW n \in notices,
              \/ MarkEscrowReleasedInternalByTransferID(q, n)
              \/ SettleDisputeInternalByTransferID(q, n)
       PROVE  WorkflowInv'
  <2>1. /\ n.t \in Transfers /\ n.d \in Disputes \cup {None}
        /\ n.outcome \in {"released", "owner_refund", "validator_release"}
        /\ n.outcome # "owner_refund" => SeenReleased(n.t)
        /\ consult \in [Validators -> [Cycles -> ConsultationStates]]
    BY DEF WorkflowTypeOK, Notices, TransfersSound
  <2>2. UNCHANGED <<kase, consult, offer, artifactRow, transfer, opened>> /\ notices' \subseteq notices
    BY <1>11 DEF MarkEscrowReleasedInternalByTransferID, SettleDisputeInternalByTransferID, Receive, rows
  <2>3. \A u \in Validators, c \in Cycles : consult'[u][c] # "none" => consult[u][c] # "none" \/ c <= kase.cycle
    BY <2>2
  <2>4. CASE MarkEscrowReleasedInternalByTransferID(q, n)
    <3>1. Begin(q, "release", "write", None, n.t, None) /\ kase.escrow = n.t /\ SeenReleased(n.t)
      BY <2>1, <2>4 DEF MarkEscrowReleasedInternalByTransferID
    <3> QED
      BY <2>1, <2>2, <2>3, <3>1, CallKept DEF Ops
  <2>5. CASE SettleDisputeInternalByTransferID(q, n)
    <3>1. /\ Begin(q, n.outcome, "write", None, n.t, n.d) /\ kase.escrow = n.t
          /\ n.outcome \in {"owner_refund", "validator_release"}
          /\ n.outcome = "owner_refund" => kase.cycle < MaxCycle
          /\ n.outcome = "validator_release" => SeenReleased(n.t)
      BY <2>1, <2>5 DEF SettleDisputeInternalByTransferID
    <3> QED
      BY <2>1, <2>2, <2>3, <3>1, CallKept DEF Ops
  <2> QED
    BY <1>11, <2>4, <2>5
<1>12. ASSUME NEW v \in Validators, NormalizeRequest(q, v) PROVE WorkflowInv'
  <2>1. /\ consult' = [consult EXCEPT ![v][kase.cycle] = "approved"]
        /\ UNCHANGED <<kase, offer, artifactRow, transfer, opened, notices>>
        /\ \/ Begin(q, "normalize", "write", v, None, None)
           \/ UNCHANGED <<req, stake, left, raced, peeked>>
    BY <1>12 DEF NormalizeRequest, featureService
  <2>2. /\ consult' \in [Validators -> [Cycles -> ConsultationStates]]
        /\ \A u \in Validators, c \in Cycles :
              consult'[u][c] # "none" => consult[u][c] # "none" \/ c = kase.cycle
    BY <2>1 DEF WorkflowTypeOK, ConsultationStates
  <2>3. \A u \in Validators, c \in Cycles : consult'[u][c] # "none" => consult[u][c] # "none" \/ c <= kase.cycle
    BY <2>2 DEF Cycles
  <2>4. CASE Begin(q, "normalize", "write", v, None, None)
    BY <2>1, <2>2, <2>3, <2>4, CallKept DEF Ops
  <2>5. CASE UNCHANGED <<req, stake, left, raced, peeked>>
    <3>1. WorkflowTypeOK'
      BY <2>1, <2>2, <2>5 DEF WorkflowTypeOK
    <3>2. Keeps /\ TransfersSound' /\ \A u \in Validators, c \in Cycles : Taken(u, c)' <=> Taken(u, c)
      BY <2>1, <2>5 DEF Keeps, Taken, TransfersSound, SeenReleased
    <3>3. SamePlace(q)
      BY <2>5 DEF SamePlace
    <3>4. Knows(q)'
      BY <3>2, <3>3, KnowsKept
    <3>5. ASSUME ~raced PROVE Fresh(q)' /\ Cycled'
      <4>1. Cycled /\ Fresh(q)
        BY <3>5 DEF WorkflowInv
      <4>2. Cycled'
        BY <2>1, <2>3, <3>2, <4>1, CycledKept
      <4>3. Fresh(q)'
        BY <2>1, <2>5, <3>3, <4>1, FreshKept
      <4> QED
        BY <4>2, <4>3
    <3> QED
      BY <2>1, <2>5, <3>1, <3>2, <3>4, <3>5, StepKept
  <2> QED
    BY <2>1, <2>4, <2>5
<1> QED
  BY <1>1, <1>2, <1>3, <1>4, <1>5, <1>6, <1>7, <1>8, <1>9, <1>10, <1>11, <1>12 DEF Handle


-----------------------------------------------------------------------------
(* The later steps that leave the row of the case alone.                   *)

LEMMA ReturnKept ==
  ASSUME WorkflowInv, NEW q \in Requests, Return(q),
         UNCHANGED <<kase, artifactRow, stake, transfer, opened, notices, left, raced, peeked>>,
         consult' \in [Validators -> [Cycles -> ConsultationStates]],
         offer' \in [Validators -> [Cycles -> OfferStates]],
         \A v \in Validators, c \in Cycles : Taken(v, c)' <=> Taken(v, c),
         ~raced => \A v \in Validators, c \in Cycles :
                      consult'[v][c] # "none" => consult[v][c] # "none" \/ c <= kase.cycle
  PROVE  WorkflowInv'
<1>0. WorkflowTypeOK /\ TransfersSound
  BY DEF WorkflowInv
<1>1. /\ req' \in [Requests -> RequestRecords] /\ req'[q].pc = "idle"
      /\ \A p \in Requests : p # q => req'[p] = req[p]
  BY <1>0, NoRequestFits DEF Return, WorkflowTypeOK, NoRequest
<1>2. WorkflowTypeOK'
  BY <1>0, <1>1 DEF WorkflowTypeOK
<1>3. Keeps /\ TransfersSound'
  BY <1>0 DEF Keeps, TransfersSound, SeenReleased
<1>4. Knows(q)' /\ Fresh(q)'
  BY <1>1 DEF Knows, Fresh, SeenReleased
<1>5. ~raced => Cycled'
  BY CycledKept DEF WorkflowInv
<1> QED
  BY <1>1, <1>2, <1>3, <1>4, <1>5, StepKept

\* A request that goes on, with what it has read of a transfer.
LEMMA GoOnKept ==
  ASSUME WorkflowInv, NEW q \in Requests, Goto(q, "write"), req[q].pc # "idle",
         UNCHANGED <<kase, consult, offer, stake, transfer, opened, notices, left, raced>>,
         peeked \subseteq peeked', peeked' \subseteq Transfers, artifactRow' \in BOOLEAN,
         req[q].op = "confirm" => req[q].pc = "fetch" /\ transfer[req[q].t].to = req[q].v,
         req[q].op \in {"release", "validator_release"} =>
             transfer[req[q].t].st = "released" /\ (req[q].t \in peeked' \/ transfer[req[q].t].owing = "none")
  PROVE  WorkflowInv'
<1>0. WorkflowTypeOK /\ TransfersSound /\ Knows(q)
  BY DEF WorkflowInv
<1>1. /\ req' \in [Requests -> RequestRecords] /\ req'[q].pc = "write"
      /\ \A p \in Requests : p # q => req'[p] = req[p]
      /\ req'[q].op = req[q].op /\ req'[q].v = req[q].v /\ req'[q].t = req[q].t
      /\ req'[q].cycle = req[q].cycle /\ req'[q].next = req[q].next
      /\ req'[q].overtaken = req[q].overtaken
  BY ZenonT(60), <1>0 DEF Goto, WorkflowTypeOK, RequestRecords
<1>2. WorkflowTypeOK'
  BY <1>0, <1>1 DEF WorkflowTypeOK
<1>3. Keeps /\ TransfersSound' /\ \A v \in Validators, c \in Cycles : Taken(v, c)' <=> Taken(v, c)
  BY <1>0 DEF Keeps, TransfersSound, Taken, SeenReleased
<1>4. Knows(q)'
  BY <1>0, <1>1, <1>3, RequestType, CaseWorkflowAssumption DEF Knows, SeenReleased
<1>5. ASSUME ~raced PROVE Fresh(q)' /\ Cycled'
  <2>1. Fresh(q) /\ Cycled
    BY <1>5 DEF WorkflowInv
  <2>2. Fresh(q)'
    BY <1>1, <2>1 DEF Fresh, DeriveStatus
  <2>3. Cycled'
    BY <1>3, <2>1, CycledKept
  <2> QED
    BY <2>2, <2>3
<1> QED
  BY <1>1, <1>2, <1>3, <1>4, <1>5, StepKept

LEMMA RowKept ==
  ASSUME WorkflowInv, NEW q \in Requests,
         \/ InsertConsultation(q) \/ WriteDecision(q) \/ InsertOffer(q) \/ MarkOfferFunded(q)
         \/ FetchPending(q) \/ InsertArtifact(q) \/ FetchReleased(q) \/ Abandon(q)
  PROVE  WorkflowInv'
<1>0. WorkflowTypeOK /\ Knows(q) /\ None \notin Validators \cup Transfers \cup Disputes
  BY CaseWorkflowAssumption DEF WorkflowInv
<1> DEFINE r == req[q]
<1>1. /\ r.v \in Validators \cup {None} /\ r.cycle \in Cycles /\ r.t \in Transfers \cup {None}
      /\ consult \in [Validators -> [Cycles -> ConsultationStates]]
      /\ offer \in [Validators -> [Cycles -> OfferStates]] /\ artifactRow \in BOOLEAN
      /\ peeked \subseteq Transfers
  BY <1>0, RequestType DEF WorkflowTypeOK
<1>2. r.pc # "idle" => (~raced => r.cycle <= kase.cycle)
  BY DEF WorkflowInv, Fresh
<1>3. CASE InsertConsultation(q) \/ WriteDecision(q)
  <2>1. /\ r.pc = "write" /\ r.op \in {"consult", "approve", "reject"} /\ Return(q)
        /\ \E st \in ConsultationStates : consult' = [consult EXCEPT ![r.v][r.cycle] = st]
        /\ UNCHANGED <<kase, offer, artifactRow, stake, transfer, opened, notices, left, raced, peeked>>
    BY <1>3 DEF InsertConsultation, WriteDecision, At, featureService, ConsultationStates
  <2>2. r.v \in Validators
    BY <1>0, <1>1, <2>1 DEF Knows, SeenReleased
  <2>3. /\ consult' \in [Validators -> [Cycles -> ConsultationStates]]
        /\ \A v \in Validators, c \in Cycles : consult'[v][c] # consult[v][c] => c = r.cycle
    BY <1>1, <2>1, <2>2
  <2>4. ~raced => \A v \in Validators, c \in Cycles :
                     consult'[v][c] # "none" => consult[v][c] # "none" \/ c <= kase.cycle
    BY <1>2, <2>1, <2>3
  <2>5. \A v \in Validators, c \in Cycles : Taken(v, c)' <=> Taken(v, c)
    BY <2>1 DEF Taken
  <2> QED
    BY <1>1, <2>1, <2>3, <2>4, <2>5, ReturnKept
<1>4. CASE InsertOffer(q) \/ MarkOfferFunded(q)
  <2>1. /\ r.pc # "idle" /\ r.op \in {"offer", "confirm"} /\ Return(q)
        /\ \/ offer[r.v][r.cycle] = "none" /\ offer' = [offer EXCEPT ![r.v][r.cycle] = "submitted"]
           \/ r.op = "confirm" /\ offer' = [offer EXCEPT ![r.v][r.cycle] = "accepted"]
        /\ UNCHANGED <<kase, consult, artifactRow, stake, transfer, opened, notices, left, raced, peeked>>
    BY <1>4 DEF InsertOffer, MarkOfferFunded, At, featureService
  <2>2. r.v \in Validators /\ (r.op = "confirm" => Taken(r.v, r.cycle))
    BY <1>0, <1>1, <2>1 DEF Knows, SeenReleased
  <2>3. /\ offer' \in [Validators -> [Cycles -> OfferStates]]
        /\ \A v \in Validators, c \in Cycles : v # r.v \/ c # r.cycle => offer'[v][c] = offer[v][c]
        /\ \/ offer[r.v][r.cycle] = "none" /\ offer'[r.v][r.cycle] = "submitted"
           \/ Taken(r.v, r.cycle) /\ offer'[r.v][r.cycle] = "accepted"
    <3>1. CASE offer[r.v][r.cycle] = "none" /\ offer' = [offer EXCEPT ![r.v][r.cycle] = "submitted"]
      <4> HIDE DEF r
      <4> QED
        BY <1>1, <2>2, <3>1 DEF OfferStates
    <3>2. CASE r.op = "confirm" /\ offer' = [offer EXCEPT ![r.v][r.cycle] = "accepted"]
      <4> HIDE DEF r
      <4> QED
        BY <1>1, <2>2, <3>2 DEF OfferStates
    <3> QED
      BY <2>1, <3>1, <3>2
  <2>4. \A v \in Validators, c \in Cycles : Taken(v, c)' <=> Taken(v, c)
    BY <2>3 DEF Taken
  <2> QED
    BY <1>1, <2>1, <2>3, <2>4, ReturnKept
<1>5. CASE Abandon(q)
  <2>1. /\ Return(q)
        /\ UNCHANGED <<kase, consult, offer, artifactRow, stake, transfer, opened, notices, left, raced, peeked>>
    BY <1>5 DEF Abandon, rows, featureService
  <2>2. \A v \in Validators, c \in Cycles : Taken(v, c)' <=> Taken(v, c)
    BY <2>1 DEF Taken
  <2> QED
    BY <1>1, <2>1, <2>2, ReturnKept
<1>6. CASE FetchPending(q) \/ InsertArtifact(q) \/ FetchReleased(q)
  <2>1. /\ r.pc # "idle" /\ r.op \in {"confirm", "artifact", "release"} /\ Goto(q, "write")
        /\ UNCHANGED <<kase, consult, offer, stake, transfer, opened, notices, left, raced>>
        /\ peeked \subseteq peeked' /\ peeked' \subseteq Transfers
        /\ r.op = "confirm" => r.pc = "fetch" /\ transfer[r.t].to = r.v
        /\ r.op = "release" => /\ transfer[r.t].st = "released"
                               /\ r.t \in peeked' \/ transfer[r.t].owing = "none"
        /\ artifactRow' \in BOOLEAN
    <3>1. CASE FetchPending(q)
      BY <1>1, <3>1 DEF FetchPending, At, rows, featureService
    <3>2. CASE InsertArtifact(q)
      BY <1>1, <3>2 DEF InsertArtifact, At, featureService
    <3>3. CASE FetchReleased(q)
      <4>1. /\ r.op = "release" /\ r.pc = "fetch" /\ transfer[r.t].st = "released" /\ Goto(q, "write")
            /\ peeked' = IF transfer[r.t].owing = "none" THEN peeked ELSE peeked \cup {r.t}
            /\ UNCHANGED <<kase, consult, offer, artifactRow, stake, transfer, opened, notices, left, raced>>
        BY <3>3 DEF FetchReleased, Peek, At, rows, featureService
      <4>2. r.t \in Transfers
        BY <1>0, <1>1, <4>1 DEF Knows
      <4> QED
        BY <1>1, <4>1, <4>2
    <3> QED
      BY <1>6, <3>1, <3>2, <3>3
  <2> QED
    BY <2>1, GoOnKept
<1> QED
  BY <1>3, <1>4, <1>5, <1>6


-----------------------------------------------------------------------------
(* The steps that update the case by its id.                               *)

\* The writer leaves or goes on to mark its offer; whoever else is under way
\* has been overtaken.
LEMMA UpdateEffect ==
  ASSUME WorkflowTypeOK, NEW q \in Requests, NEW k \in Cases, NEW pc \in {"idle", "funded"}, Update(q, k, pc)
  PROVE  /\ kase' = k /\ raced' = (raced \/ req[q].overtaken)
         /\ UNCHANGED <<stake, transfer, opened, notices, left, peeked>>
         /\ req' \in [Requests -> RequestRecords]
         /\ \A p \in Requests : p # q => SamePlace(p) /\ (req[p].pc # "idle" => req'[p].overtaken)
         /\ pc = "idle" => req'[q].pc = "idle"
         /\ pc = "funded" => /\ req'[q].pc = "funded" /\ req'[q].op = req[q].op /\ req'[q].v = req[q].v
                             /\ req'[q].t = req[q].t /\ req'[q].cycle = req[q].cycle
<1>1. /\ kase' = k /\ raced' = (raced \/ req[q].overtaken)
      /\ UNCHANGED <<stake, transfer, opened, notices, left, peeked>>
      /\ req' = [p \in Requests |->
                   IF p # q THEN [req[p] EXCEPT !.overtaken = req[p].pc # "idle"]
                   ELSE IF pc = "idle" THEN NoRequest ELSE [req[q] EXCEPT !.pc = pc]]
  BY DEF Update, featureService
<1>2. \A p \in Requests : req[p] \in RequestRecords
  BY DEF WorkflowTypeOK
<1>3. ASSUME NEW p \in Requests, p # q
      PROVE  req'[p] \in RequestRecords /\ SamePlace(p) /\ (req[p].pc # "idle" => req'[p].overtaken)
  BY <1>1, <1>2, <1>3 DEF SamePlace, RequestRecords
<1>4. CASE pc = "idle"
  <2>1. req'[q] = NoRequest
    BY <1>1, <1>4
  <2> QED
    BY <1>1, <1>3, <1>4, <2>1, NoRequestFits DEF NoRequest
<1>5. CASE pc = "funded"
  <2>1. req'[q] = [req[q] EXCEPT !.pc = "funded"]
    BY <1>1, <1>5
  <2>2. /\ req'[q] \in RequestRecords /\ req'[q].pc = "funded" /\ req'[q].op = req[q].op
        /\ req'[q].v = req[q].v /\ req'[q].t = req[q].t /\ req'[q].cycle = req[q].cycle
    BY <1>2, <2>1 DEF RequestRecords
  <2> QED
    BY <1>1, <1>3, <1>5, <2>2
<1> QED
  BY <1>4, <1>5

LEMMA UpdateKept ==
  ASSUME WorkflowInv, NEW q \in Requests, NEW k \in Cases, NEW pc \in {"idle", "funded"}, Update(q, k, pc),
         req[q].pc = "write", UNCHANGED <<consult, offer, artifactRow>>,
         pc = "funded" => req[q].op = "confirm" /\ k.cycle = kase.cycle,
         k.accepted # None => k.accepted = kase.accepted /\ k.cycle = kase.cycle,
         ~raced /\ ~req[q].overtaken =>
             /\ kase.cycle <= k.cycle
             /\ k.cycle = kase.cycle => k.accepted = kase.accepted
             /\ Linked'
  PROVE  WorkflowInv'
<1>0. WorkflowTypeOK /\ TransfersSound /\ Knows(q) /\ Claimed /\ kase.cycle \in Nat /\ k.cycle \in Nat
      /\ kase.accepted \in Validators \cup {None}
  BY CaseType DEF WorkflowInv, Cases, Cycles
<1>1. /\ kase' = k /\ raced' = (raced \/ req[q].overtaken)
      /\ UNCHANGED <<stake, transfer, opened, notices, left, peeked>>
      /\ req' \in [Requests -> RequestRecords]
      /\ \A p \in Requests : p # q => SamePlace(p) /\ (req[p].pc # "idle" => req'[p].overtaken)
      /\ pc = "idle" => req'[q].pc = "idle"
      /\ pc = "funded" => /\ req'[q].pc = "funded" /\ req'[q].op = req[q].op /\ req'[q].v = req[q].v
                          /\ req'[q].t = req[q].t /\ req'[q].cycle = req[q].cycle
  BY <1>0, UpdateEffect
<1>2. WorkflowTypeOK'
  BY <1>0, <1>1, RequestType DEF WorkflowTypeOK
<1>3. Keeps /\ TransfersSound' /\ \A v \in Validators, c \in Cycles : Taken(v, c)' <=> Taken(v, c)
  BY <1>0, <1>1 DEF Keeps, TransfersSound, Taken, SeenReleased
<1>4. Claimed'
  <2>1. k.cycle \in Cycles
    BY DEF Cases
  <2> QED
    BY <1>0, <1>1, <1>3, <2>1 DEF Claimed
<1>5. Knows(q)'
  BY <1>0, <1>1, <1>3, RequestType, CaseWorkflowAssumption DEF Knows, SeenReleased
<1>6. \A p \in Requests : Knows(p)'
  BY <1>1, <1>3, <1>5, KnowsKept
<1>7. ASSUME ~raced' PROVE Linked' /\ Cycled' /\ \A p \in Requests : Fresh(p)'
  <2>1. ~raced /\ ~req[q].overtaken /\ Cycled /\ \A p \in Requests : Fresh(p)
    BY <1>1, <1>7 DEF WorkflowInv
  <2>2. ASSUME NEW p \in Requests PROVE Fresh(p)'
    <3>1. req[p].cycle \in Nat
      BY <1>0, RequestType DEF Cycles
    <3>2. CASE p # q
      BY <1>0, <1>1, <2>1, <3>1, <3>2 DEF Fresh, SamePlace
    <3>3. CASE p = q
      BY <1>0, <1>1, <2>1, <3>1, <3>3 DEF Fresh
    <3> QED
      BY <3>2, <3>3
  <2>3. Cycled'
    <3>1. \A c \in Cycles : c \in Nat
      BY DEF Cycles
    <3> QED
      BY <1>0, <1>1, <1>3, <2>1, <3>1 DEF Cycled
  <2> QED
    BY <2>1, <2>2, <2>3
<1> QED
  BY <1>2, <1>3, <1>4, <1>6, <1>7 DEF WorkflowInv

\* Each update of the case keeps the links, if its writer was not overtaken.
LEMMA WriteKept ==
  ASSUME WorkflowInv, NEW q \in Requests,
         \/ LockFunds(q) \/ WriteArtifact(q) \/ WriteCompleted(q) \/ WriteOwnerRefund(q)
         \/ WriteValidatorRelease(q) \/ WriteDispute(q) \/ WriteNormalized(q)
  PROVE  WorkflowInv'
<1> DEFINE r == req[q]
<1>0. WorkflowTypeOK /\ Knows(q) /\ None \notin Validators \cup Transfers \cup Disputes /\ kase \in Cases
  BY CaseWorkflowAssumption DEF WorkflowInv, WorkflowTypeOK
<1>1. /\ r.v \in Validators \cup {None} /\ r.cycle \in Cycles /\ r.t \in Transfers \cup {None}
      /\ r.d \in Disputes \cup {None} /\ r.next \in Statuses
  BY <1>0, RequestType
<1>2. ~raced /\ ~r.overtaken => Linked /\ Fresh(q)
  BY DEF WorkflowInv
<1>3. kase.cycle \in Nat
  BY <1>0, CaseType DEF Cycles
<1>4. CASE LockFunds(q)
  <2> DEFINE k == [kase EXCEPT !.escrow = r.t, !.status = "funds_locked"]
  <2>1. r.op = "confirm" /\ r.pc = "write" /\ Update(q, k, "funded") /\ UNCHANGED <<consult, offer, artifactRow>>
    BY <1>4 DEF LockFunds, At
  <2>2. /\ k \in Cases /\ k.cycle = kase.cycle /\ k.accepted = kase.accepted /\ k.escrow = r.t
        /\ k.status = "funds_locked" /\ k.dispute = kase.dispute /\ k.artifact = kase.artifact
        /\ k.certified = kase.certified
    BY <1>0, <1>1 DEF Cases, Statuses
  <2>3. kase' = k /\ transfer' = transfer /\ peeked' = peeked
    BY <2>1 DEF Update, featureService
  <2> HIDE DEF k
  <2>4. ASSUME ~raced, ~r.overtaken PROVE Linked'
    <3>1. Linked /\ r.t # None /\ r.v # None /\ transfer[r.t].to = r.v /\ kase.escrow = None /\ kase.accepted = r.v
      BY <1>0, <1>2, <2>1, <2>4 DEF Knows, Fresh, SeenReleased
    <3> QED
      BY <2>2, <2>3, <3>1 DEF Linked, SeenReleased
  <2> QED
    BY <1>3, <2>1, <2>2, <2>4, UpdateKept
<1>5. CASE WriteArtifact(q)
  <2> DEFINE k == [kase EXCEPT !.artifact = TRUE, !.status = "artifact_submitted"]
  <2>1. r.op = "artifact" /\ r.pc = "write" /\ Update(q, k, "idle") /\ UNCHANGED <<consult, offer, artifactRow>>
    BY <1>5 DEF WriteArtifact, At
  <2>2. /\ k \in Cases /\ k.cycle = kase.cycle /\ k.accepted = kase.accepted /\ k.escrow = kase.escrow
        /\ k.status = "artifact_submitted" /\ k.dispute = kase.dispute /\ k.artifact = TRUE
        /\ k.certified = kase.certified
    BY <1>0 DEF Cases, Statuses
  <2>3. kase' = k /\ transfer' = transfer /\ peeked' = peeked
    BY <2>1 DEF Update, featureService
  <2> HIDE DEF k
  <2>4. ASSUME ~raced, ~r.overtaken PROVE Linked'
    <3>1. Linked /\ kase.escrow # None
      BY <1>0, <1>2, <2>1, <2>4 DEF Fresh
    <3> QED
      BY <2>2, <2>3, <3>1 DEF Linked, SeenReleased
  <2> QED
    BY <1>3, <2>1, <2>2, <2>4, UpdateKept
<1>6. CASE WriteCompleted(q)
  <2> DEFINE k == [kase EXCEPT !.certified = TRUE, !.status = "completed"]
  <2>1. r.op = "release" /\ r.pc = "write" /\ Update(q, k, "idle") /\ UNCHANGED <<consult, offer, artifactRow>>
    BY <1>6 DEF WriteCompleted, At
  <2>2. /\ k \in Cases /\ k.cycle = kase.cycle /\ k.accepted = kase.accepted /\ k.escrow = kase.escrow
        /\ k.status = "completed" /\ k.dispute = kase.dispute /\ k.artifact = kase.artifact
        /\ k.certified = TRUE
    BY <1>0 DEF Cases, Statuses
  <2>3. kase' = k /\ transfer' = transfer /\ peeked' = peeked
    BY <2>1 DEF Update, featureService
  <2> HIDE DEF k
  <2>4. ASSUME ~raced, ~r.overtaken PROVE Linked'
    <3>1. Linked /\ kase.escrow = r.t /\ r.t # None /\ SeenReleased(r.t)
      BY <1>0, <1>2, <2>1, <2>4 DEF Fresh, Knows, SeenReleased
    <3> QED
      BY <2>2, <2>3, <3>1 DEF Linked, SeenReleased
  <2> QED
    BY <1>3, <2>1, <2>2, <2>4, UpdateKept
<1>7. CASE WriteOwnerRefund(q)
  <2> DEFINE k == [NewCase EXCEPT !.cycle = r.cycle + 1]
  <2>1. r.op = "owner_refund" /\ r.pc = "write" /\ Update(q, k, "idle") /\ UNCHANGED <<consult, offer, artifactRow>>
    BY <1>7 DEF WriteOwnerRefund, At
  <2>2. r.cycle + 1 \in Cycles
    BY <1>0, <1>1, <2>1, CaseWorkflowAssumption DEF Knows, Cycles, SeenReleased
  <2>3. /\ k \in Cases /\ k.cycle = r.cycle + 1 /\ k.accepted = None /\ k.escrow = None
        /\ k.status = "open" /\ k.dispute = None /\ k.artifact = FALSE /\ k.certified = FALSE
    BY <2>2 DEF Cases, Statuses, NewCase
  <2>4. kase' = k /\ transfer' = transfer
    BY <2>1 DEF Update, featureService
  <2> HIDE DEF k
  <2>5. Linked'
    BY <2>3, <2>4 DEF Linked, SeenReleased
  <2>6. ~raced /\ ~r.overtaken => k.cycle = kase.cycle + 1
    BY <1>2, <2>1, <2>3 DEF Fresh
  <2> QED
    BY <1>3, <2>1, <2>3, <2>5, <2>6, UpdateKept
<1>8. CASE WriteValidatorRelease(q)
  <2> DEFINE k == [kase EXCEPT !.dispute = None, !.status = "completed"]
  <2>1. /\ r.op = "validator_release" /\ r.pc = "write" /\ Update(q, k, "idle")
        /\ UNCHANGED <<consult, offer, artifactRow>>
    BY <1>8 DEF WriteValidatorRelease, At
  <2>2. /\ k \in Cases /\ k.cycle = kase.cycle /\ k.accepted = kase.accepted /\ k.escrow = kase.escrow
        /\ k.status = "completed" /\ k.dispute = None /\ k.artifact = kase.artifact
        /\ k.certified = kase.certified
    BY <1>0 DEF Cases, Statuses
  <2>3. kase' = k /\ transfer' = transfer /\ peeked' = peeked
    BY <2>1 DEF Update, featureService
  <2> HIDE DEF k
  <2>4. ASSUME ~raced, ~r.overtaken PROVE Linked'
    <3>1. Linked /\ kase.escrow = r.t /\ r.t # None /\ SeenReleased(r.t)
      BY <1>0, <1>2, <2>1, <2>4 DEF Fresh, Knows, SeenReleased
    <3> QED
      BY <2>2, <2>3, <3>1 DEF Linked, SeenReleased
  <2> QED
    BY <1>3, <2>1, <2>2, <2>4, UpdateKept
<1>9. CASE WriteDispute(q)
  <2> DEFINE k == [kase EXCEPT !.dispute = r.d, !.status = "disputed"]
  <2>1. r.op = "attach" /\ r.pc = "write" /\ Update(q, k, "idle") /\ UNCHANGED <<consult, offer, artifactRow>>
    BY <1>9 DEF WriteDispute, At
  <2>2. /\ k \in Cases /\ k.cycle = kase.cycle /\ k.accepted = kase.accepted /\ k.escrow = kase.escrow
        /\ k.status = "disputed" /\ k.artifact = kase.artifact /\ k.certified = kase.certified
    BY <1>0, <1>1 DEF Cases, Statuses
  <2>3. kase' = k /\ transfer' = transfer /\ peeked' = peeked
    BY <2>1 DEF Update, featureService
  <2> HIDE DEF k
  <2>4. ASSUME ~raced, ~r.overtaken PROVE Linked'
    <3>1. Linked /\ kase.escrow # None
      BY <1>0, <1>2, <2>1, <2>4 DEF Fresh, Knows, SeenReleased
    <3> QED
      BY <2>2, <2>3, <3>1 DEF Linked, SeenReleased
  <2> QED
    BY <1>3, <2>1, <2>2, <2>4, UpdateKept
<1>10. CASE WriteNormalized(q)
  <2> DEFINE k == [kase EXCEPT !.status = r.next]
  <2>1. r.op = "normalize" /\ r.pc = "write" /\ Update(q, k, "idle") /\ UNCHANGED <<consult, offer, artifactRow>>
    BY <1>10 DEF WriteNormalized, At
  <2>2. /\ k \in Cases /\ k.cycle = kase.cycle /\ k.accepted = kase.accepted /\ k.escrow = kase.escrow
        /\ k.status = r.next /\ k.dispute = kase.dispute /\ k.artifact = kase.artifact
        /\ k.certified = kase.certified
    BY <1>0, <1>1 DEF Cases
  <2>3. kase' = k /\ transfer' = transfer /\ peeked' = peeked
    BY <2>1 DEF Update, featureService
  <2> HIDE DEF k
  <2>4. ASSUME ~raced, ~r.overtaken PROVE Linked'
    <3>1. Linked /\ r.next = DeriveStatus(kase)
      BY <1>0, <1>2, <2>1, <2>4 DEF Fresh
    <3>2. /\ r.next = "open" => kase.accepted = None
          /\ r.next = "completed" => kase.certified
      <4>1. Linked => (kase.escrow # None => kase.accepted # None)
        BY DEF Linked, SeenReleased
      <4> QED
        BY <3>1, <4>1, <1>0, CaseType DEF DeriveStatus
    <3> QED
      BY <2>2, <2>3, <3>1, <3>2 DEF Linked, SeenReleased
  <2> QED
    BY <1>3, <2>1, <2>2, <2>4, UpdateKept
<1> QED
  BY <1>4, <1>5, <1>6, <1>7, <1>8, <1>9, <1>10


\* The transaction of AcceptFinalOffer claims the case for one offer of the
\* current cycle.
LEMMA ClaimKept == ASSUME WorkflowInv, NEW q \in Requests, ClaimAcceptance(q) PROVE WorkflowInv'
<1> DEFINE r == req[q]
<1>0. WorkflowTypeOK /\ TransfersSound /\ Knows(q) /\ kase \in Cases /\ None \notin Validators
  BY CaseWorkflowAssumption DEF WorkflowInv, WorkflowTypeOK
<1>1. /\ r.op = "accept" /\ r.pc = "write" /\ kase.cycle = r.cycle /\ kase.status = "open"
      /\ kase.escrow = None /\ kase.dispute = None /\ kase.accepted = None
      /\ offer[r.v][r.cycle] = "submitted"
      /\ kase' = [kase EXCEPT !.accepted = r.v, !.status = "offer_accepted"]
      /\ offer' = [offer EXCEPT ![r.v][r.cycle] = "accepted_pending_funding"]
      /\ req' = [p \in Requests |-> IF p = q THEN NoRequest
                                    ELSE [req[p] EXCEPT !.overtaken = req[p].pc # "idle"]]
      /\ UNCHANGED <<consult, artifactRow, stake, transfer, opened, notices, left, raced, peeked>>
  BY DEF ClaimAcceptance, At, featureService
<1>2. r.v \in Validators /\ r.cycle \in Cycles
  BY <1>0, <1>1, RequestType DEF Knows, SeenReleased
<1>3. /\ kase' \in Cases /\ kase'.cycle = kase.cycle /\ kase'.accepted = r.v /\ kase'.escrow = None
      /\ kase'.status = "offer_accepted" /\ kase'.dispute = None /\ kase'.artifact = kase.artifact
      /\ kase'.certified = kase.certified
  BY <1>0, <1>1, <1>2 DEF Cases, Statuses
<1>4. /\ offer' \in [Validators -> [Cycles -> OfferStates]]
      /\ \A v \in Validators, c \in Cycles : v # r.v \/ c # r.cycle => offer'[v][c] = offer[v][c]
      /\ offer'[r.v][r.cycle] = "accepted_pending_funding"
  <2>1. offer \in [Validators -> [Cycles -> OfferStates]]
    BY <1>0 DEF WorkflowTypeOK
  <2>2. offer' = [offer EXCEPT ![r.v][r.cycle] = "accepted_pending_funding"]
    BY <1>1
  <2> HIDE DEF r
  <2> QED
    BY <1>2, <2>1, <2>2 DEF OfferStates
<1>5. \A v \in Validators, c \in Cycles : Taken(v, c)' <=> Taken(v, c) \/ (v = r.v /\ c = r.cycle)
  BY <1>2, <1>4 DEF Taken
<1>6. /\ req' \in [Requests -> RequestRecords] /\ req'[q].pc = "idle"
      /\ \A p \in Requests : p # q => SamePlace(p) /\ (req[p].pc # "idle" => req'[p].overtaken)
  <2>1. \A p \in Requests : req[p] \in RequestRecords
    BY <1>0 DEF WorkflowTypeOK
  <2>2. ASSUME NEW p \in Requests, p # q
        PROVE  req'[p] \in RequestRecords /\ SamePlace(p) /\ (req[p].pc # "idle" => req'[p].overtaken)
    BY <1>1, <2>1, <2>2 DEF SamePlace, RequestRecords
  <2>3. req'[q] = NoRequest
    BY <1>1
  <2> QED
    BY <1>1, <2>2, <2>3, NoRequestFits DEF NoRequest
<1>7. WorkflowTypeOK'
  BY <1>0, <1>1, <1>3, <1>4, <1>6 DEF WorkflowTypeOK
<1>8. Keeps /\ TransfersSound'
  BY <1>0, <1>1, <1>5 DEF Keeps, TransfersSound, SeenReleased
<1>9. Claimed'
  BY <1>1, <1>2, <1>3, <1>5 DEF Claimed
<1>10. \A p \in Requests : Knows(p)'
  <2>1. Knows(q)'
    BY <1>6 DEF Knows, SeenReleased
  <2> QED
    BY <1>6, <1>8, <2>1, KnowsKept
<1>11. ASSUME ~raced PROVE Linked' /\ Cycled' /\ \A p \in Requests : Fresh(p)'
  <2>1. Linked /\ Cycled /\ \A p \in Requests : Fresh(p)
    BY <1>11 DEF WorkflowInv
  <2>2. Linked'
    BY <1>0, <1>1, <1>2, <1>3, <2>1 DEF Linked, SeenReleased
  <2>3. Cycled'
    <3>1. \A c \in Cycles : c \in Nat
      BY DEF Cycles
    <3>2. \A v \in Validators : ~Taken(v, r.cycle)
      BY <1>0, <1>1, <1>2, <2>1 DEF Cycled
    <3> QED
      BY <1>1, <1>2, <1>3, <1>5, <2>1, <3>1, <3>2 DEF Cycled
  <2>4. ASSUME NEW p \in Requests PROVE Fresh(p)'
    <3>1. CASE p # q
      BY <1>3, <1>6, <2>1, <3>1 DEF Fresh, SamePlace
    <3>2. CASE p = q
      BY <1>6, <3>2 DEF Fresh
    <3> QED
      BY <3>1, <3>2
  <2> QED
    BY <2>2, <2>3, <2>4
<1> QED
  BY <1>1, <1>7, <1>8, <1>9, <1>10, <1>11 DEF WorkflowInv

-----------------------------------------------------------------------------
(* The feature service, and the workflow as a whole.                       *)

\* A step that leaves the rows and the requests alone.
LEMMA ElsewhereKept ==
  ASSUME WorkflowInv, WorkflowTypeOK', TransfersSound', Keeps,
         UNCHANGED <<kase, consult, offer, req, raced, peeked>>
  PROVE  WorkflowInv'
<1>1. \A q \in Requests : Knows(q)'
  BY KnowsKept DEF SamePlace
<1>2. Claimed'
  BY DEF WorkflowInv, Claimed, Taken
<1>3. ASSUME ~raced PROVE Linked' /\ Cycled' /\ \A p \in Requests : Fresh(p)'
  <2>1. Linked /\ Cycled /\ \A p \in Requests : Fresh(p)
    BY <1>3 DEF WorkflowInv
  <2>2. Linked'
    BY <2>1, LinkedKept
  <2>3. Cycled'
    BY <2>1, CycledKept DEF Taken
  <2>4. ASSUME NEW p \in Requests PROVE Fresh(p)'
    BY <2>1, FreshKept DEF SamePlace
  <2> QED
    BY <2>2, <2>3, <2>4
<1> QED
  BY <1>1, <1>2, <1>3 DEF WorkflowInv

\* A transfer moves on, to status st with the credit of owing outstanding; what
\* is reported of it then is true.
LEMMA TransferKept ==
  ASSUME WorkflowInv, NEW t \in Transfers, NEW st \in TransferStates \ {"none"}, NEW owing \in Creditors,
         transfer[t].st # "none", SetTransfer(t, st, owing),
         UNCHANGED <<kase, consult, offer, artifactRow, stake, req, raced, peeked>>,
         left' \in [overlaps : Nat, transfers : Nat, calls : Nat, credits : Nat],
         opened' \in [Disputes -> Transfers \cup {None}], notices' \subseteq Notices,
         transfer[t].st = "released" /\ transfer[t].owing = "none" => st = "released" /\ owing = "none",
         owing # "none" => st \in {"released", "cancelled"},
         owing = "auto" => st = "released",
         \A n \in notices' :
            n \in notices \/ (n.t = t /\ (n.outcome # "owner_refund" => st = "released" /\ owing = "none"))
  PROVE  WorkflowInv'
<1>0. WorkflowTypeOK /\ TransfersSound
  BY DEF WorkflowInv
<1>1. /\ transfer' \in [Transfers -> TransferRecords]
      /\ transfer'[t].st = st /\ transfer'[t].to = transfer[t].to /\ transfer'[t].owing = owing
      /\ \A u \in Transfers : u # t => transfer'[u] = transfer[u]
  BY <1>0 DEF SetTransfer, WorkflowTypeOK, TransferRecords
<1>2. WorkflowTypeOK'
  BY <1>0, <1>1 DEF WorkflowTypeOK
<1>3. Keeps
  BY <1>1 DEF Keeps, Taken, SeenReleased
<1>4. TransfersSound'
  <2>1. \A n \in notices : n.t \in Transfers
    BY <1>0 DEF WorkflowTypeOK, Notices
  <2>2. \A u \in Transfers : /\ transfer'[u].st = "none" => transfer'[u].to = None
                             /\ transfer'[u].owing # "none" => transfer'[u].st \in {"released", "cancelled"}
                             /\ transfer'[u].owing = "auto" => transfer'[u].st = "released"
    BY <1>0, <1>1 DEF TransfersSound
  <2>3. ASSUME NEW n \in notices', n.outcome # "owner_refund" PROVE SeenReleased(n.t)'
    <3>1. CASE n \in notices
      BY <1>0, <1>3, <2>1, <2>3, <3>1 DEF TransfersSound, Keeps
    <3>2. CASE n \notin notices
      BY <1>1, <2>3, <3>2 DEF SeenReleased
    <3> QED
      BY <3>1, <3>2
  <2> QED
    BY <2>2, <2>3 DEF TransfersSound
<1> QED
  BY <1>2, <1>3, <1>4, ElsewhereKept

LEMMA FeatureKept == ASSUME WorkflowInv, FeatureService PROVE WorkflowInv'
<1>0. /\ WorkflowTypeOK /\ TransfersSound /\ None \notin Validators
      /\ left \in [overlaps : Nat, transfers : Nat, calls : Nat, credits : Nat] /\ notices \subseteq Notices
  BY CaseWorkflowAssumption DEF WorkflowInv, WorkflowTypeOK
<1>1. UNCHANGED <<kase, consult, offer, artifactRow, stake, req, raced, peeked>>
  BY DEF FeatureService, rows
<1>2. PICK t \in Transfers :
         \/ \E v \in Validators : CreateTransfer(t, v)
         \/ EndTransfer(t) \/ AutoRelease(t) \/ MutualRefund(t)
         \/ EndCredit(t) \/ UndoClaim(t)
         \/ FreezeTransfer(t) \/ ContinueTransfer(t)
         \/ \E d \in Disputes : OpenDispute(t, d) \/ SettleDispute(t, d)
  BY DEF FeatureService
<1>3. /\ opened \in [Disputes -> Transfers \cup {None}] /\ transfer[t] \in TransferRecords
      /\ transfer[t].st \in TransferStates /\ transfer[t].owing \in Creditors
      /\ {"pending", "disputed", "released", "cancelled"} \subseteq TransferStates \ {"none"}
      /\ {"none", "user", "auto", "mutual"} = Creditors
  BY <1>0 DEF WorkflowTypeOK, TransferRecords, TransferStates, Creditors
<1>4. ASSUME NEW v \in Validators, CreateTransfer(t, v) PROVE WorkflowInv'
  <2>1. /\ transfer[t].st = "none"
        /\ transfer' = [transfer EXCEPT ![t] = [st |-> "pending", to |-> v, owing |-> "none"]]
        /\ UNCHANGED <<opened, notices>> /\ left.transfers > 0
        /\ left' = [left EXCEPT !.transfers = @ - 1]
    BY <1>4 DEF CreateTransfer
  <2>2. /\ transfer' \in [Transfers -> TransferRecords]
        /\ transfer'[t].st = "pending" /\ transfer'[t].owing = "none"
        /\ \A u \in Transfers : u # t => transfer'[u] = transfer[u]
    BY <1>0, <1>3, <2>1 DEF WorkflowTypeOK, TransferRecords
  <2>3. left' \in [overlaps : Nat, transfers : Nat, calls : Nat, credits : Nat]
    BY SMTT(30), <1>0, <2>1
  <2>4. WorkflowTypeOK'
    BY <1>0, <1>1, <2>1, <2>2, <2>3 DEF WorkflowTypeOK
  <2>5. Keeps
    BY <1>0, <1>1, <2>1, <2>2 DEF Keeps, Taken, TransfersSound, SeenReleased
  <2>6. TransfersSound'
    <3>1. \A n \in notices : n.t \in Transfers
      BY <1>0 DEF WorkflowTypeOK, Notices
    <3>2. \A n \in notices : n.outcome # "owner_refund" => SeenReleased(n.t)'
      BY <1>0, <2>5, <3>1 DEF TransfersSound, Keeps
    <3> QED
      BY <1>0, <2>1, <2>2, <3>2 DEF TransfersSound
  <2> QED
    BY <1>1, <2>4, <2>5, <2>6, ElsewhereKept
\* The claims, and the steps of disputes that report nothing.
<1>5. CASE \/ EndTransfer(t) \/ AutoRelease(t) \/ MutualRefund(t)
           \/ FreezeTransfer(t) \/ ContinueTransfer(t)
  <2>1. /\ UNCHANGED <<opened, notices, left>> /\ transfer[t].st \in {"pending", "disputed"}
        /\ \E st \in {"released", "cancelled", "pending", "disputed"}, owing \in {"none", "user", "auto", "mutual"} :
              /\ SetTransfer(t, st, owing)
              /\ owing # "none" => st \in {"released", "cancelled"}
              /\ owing = "auto" => st = "released"
    BY <1>5 DEF EndTransfer, AutoRelease, MutualRefund, FreezeTransfer, ContinueTransfer
  <2>2. PICK st \in {"released", "cancelled", "pending", "disputed"}, owing \in {"none", "user", "auto", "mutual"} :
              /\ SetTransfer(t, st, owing)
              /\ owing # "none" => st \in {"released", "cancelled"}
              /\ owing = "auto" => st = "released"
    BY <2>1
  <2>3. st \in TransferStates \ {"none"} /\ owing \in Creditors
    BY <1>3, <2>2
  <2> QED
    BY <1>0, <1>1, <1>3, <2>1, <2>2, <2>3, TransferKept
<1>6. CASE EndCredit(t)
  <2>1. /\ transfer[t].owing # "none" /\ SetTransfer(t, transfer[t].st, "none")
        /\ notices' = notices \cup Reports(t) /\ UNCHANGED <<opened, left>>
    BY <1>6 DEF EndCredit
  <2>2. /\ transfer[t].st \in TransferStates \ {"none"} /\ "none" \in Creditors
        /\ transfer[t].owing = "auto" => transfer[t].st = "released"
    BY <1>0, <1>3, <2>1 DEF TransfersSound
  <2>3. Reports(t) \subseteq Notices
    BY DEF Reports, Notices
  <2>4. \A n \in Reports(t) : n.t = t /\ (n.outcome # "owner_refund" => transfer[t].owing = "auto")
    BY DEF Reports
  <2>5. /\ notices' \subseteq Notices
        /\ \A n \in notices' :
              n \in notices \/ (n.t = t /\ (n.outcome # "owner_refund" => transfer[t].st = "released"))
    BY <1>0, <2>1, <2>2, <2>3, <2>4
  <2> QED
    BY <1>0, <1>1, <1>3, <2>1, <2>2, <2>5, TransferKept
<1>7. CASE UndoClaim(t)
  <2>1. /\ transfer[t].owing # "none" /\ left.credits > 0
        /\ left' = [left EXCEPT !.credits = @ - 1]
        /\ \/ SetTransfer(t, "disputed", "none")
           \/ SetTransfer(t, "pending", "none")
        /\ UNCHANGED <<opened, notices>>
    BY <1>7 DEF UndoClaim
  <2>2. left' \in [overlaps : Nat, transfers : Nat, calls : Nat, credits : Nat]
    BY SMTT(30), <1>0, <2>1
  <2>3. transfer[t].st # "none"
    BY <1>0, <2>1 DEF TransfersSound
  <2> QED
    BY <1>0, <1>1, <1>3, <2>1, <2>2, <2>3, TransferKept
<1>8. ASSUME NEW d \in Disputes, OpenDispute(t, d) PROVE WorkflowInv'
  <2>1. /\ transfer[t].st = "pending" /\ SetTransfer(t, "disputed", "none")
        /\ opened' = [opened EXCEPT ![d] = t] /\ UNCHANGED <<notices, left>>
    BY <1>8 DEF OpenDispute
  <2>2. opened' \in [Disputes -> Transfers \cup {None}]
    BY <1>3, <2>1
  <2> QED
    BY <1>0, <1>1, <1>3, <2>1, <2>2, TransferKept
<1>9. ASSUME NEW d \in Disputes, SettleDispute(t, d) PROVE WorkflowInv'
  <2> DEFINE refund == [outcome |-> "owner_refund", t |-> t, d |-> d]
             release == [outcome |-> "validator_release", t |-> t, d |-> d]
  <2>1. /\ transfer[t].st = "disputed" /\ UNCHANGED <<opened, left>>
        /\ \/ SetTransfer(t, "cancelled", "none") /\ notices' = notices \cup {refund}
           \/ SetTransfer(t, "released", "none") /\ notices' = notices \cup {release}
           \/ SetTransfer(t, "released", "none") /\ notices' = notices
    BY <1>9 DEF SettleDispute
  <2>2. /\ refund \in Notices /\ refund.t = t /\ refund.outcome = "owner_refund"
        /\ release \in Notices /\ release.t = t
    BY DEF Notices
  <2> HIDE DEF refund, release
  <2>3. CASE SetTransfer(t, "cancelled", "none") /\ notices' = notices \cup {refund}
    <3>1. /\ notices' \subseteq Notices
          /\ \A n \in notices' : n \in notices \/ (n.t = t /\ n.outcome = "owner_refund")
      BY <1>0, <2>2, <2>3
    <3> QED
      BY <1>0, <1>1, <1>3, <2>1, <2>3, <3>1, TransferKept
  <2>4. CASE SetTransfer(t, "released", "none") /\ notices' \in {notices, notices \cup {release}}
    <3>1. /\ notices' \subseteq Notices
          /\ \A n \in notices' : n \in notices \/ n.t = t
      BY <1>0, <2>2, <2>4
    <3> QED
      BY <1>0, <1>1, <1>3, <2>1, <2>4, <3>1, TransferKept
  <2> QED
    BY <2>1, <2>3, <2>4
<1> QED
  BY <1>2, <1>4, <1>5, <1>6, <1>7, <1>8, <1>9

\* Every step of the workflow and of the feature service keeps the invariant.
LEMMA WorkflowKept == ASSUME WorkflowInv, WorkflowNext PROVE WorkflowInv'
<1>1. ASSUME NEW n \in notices, LoseNotice(n) PROVE WorkflowInv'
  <2>1. /\ UNCHANGED <<kase, consult, offer, artifactRow, stake, transfer, opened, req, left, raced, peeked>>
        /\ notices' \subseteq notices
    BY <1>1 DEF LoseNotice, rows
  <2>2. WorkflowTypeOK' /\ TransfersSound' /\ Keeps
    BY <2>1 DEF WorkflowInv, WorkflowTypeOK, TransfersSound, Keeps, Taken, SeenReleased
  <2> QED
    BY <2>1, <2>2, ElsewhereKept
<1>2. ASSUME NEW q \in Requests, Continue(q) PROVE WorkflowInv'
  BY <1>2, RowKept, WriteKept, ClaimKept DEF Continue
<1> QED
  BY <1>1, <1>2, HandleKept, FeatureKept DEF WorkflowNext


-----------------------------------------------------------------------------
(* The guarantees: counting the money of a validator.                      *)

LEMMA CallFits ==
  ASSUME TypeOK, NEW g \in Calls
  PROVE  /\ call[g] \in CallRecords
         /\ call[g].v \in Validators \cup {None} /\ call[g].id \in Ids /\ call[g].t \in Transfers \cup {None}
         /\ call[g].amount \in {0, 1}
BY DEF TypeOK, CallRecords

LEMMA NoCallFits == NoCall \in CallRecords /\ NoCall.pc = "idle" /\ NoCall.v = None
BY GuaranteeAssumption DEF NoCall, CallRecords, Ids

\* The partial unique index makes the count of active guarantees 0 or 1.
LEMMA ActiveCount ==
  ASSUME NEW v \in Validators, \A i, j \in Active(v) : i = j
  PROVE  Cardinality(Active(v)) = IF Active(v) = {} THEN 0 ELSE 1
<1>1. CASE Active(v) = {}
  BY <1>1, FS_EmptySet
<1>2. CASE Active(v) # {}
  <2>1. PICK i \in Active(v) : TRUE
    BY <1>2
  <2>2. Active(v) = {i}
    BY <2>1
  <2> QED
    BY <1>2, <2>2, FS_Singleton
<1> QED
  BY <1>1, <1>2

Flying(c, v) == c.v = v /\ c.pc \in {"insert", "refund", "credit", "rollback"}

\* One call moves: the money in flight changes by what that call takes up or
\* puts down.
LEMMA FlightStep ==
  ASSUME NEW v \in Validators, NEW g \in Calls, \A h \in Calls : h # g => call'[h] = call[h],
         IsFiniteSet(InFlight(v))
  PROVE  /\ Cardinality(InFlight(v)) \in Nat
         /\ IsFiniteSet(InFlight(v)')
         /\ Cardinality(InFlight(v)') = Cardinality(InFlight(v)) + (IF Flying(call'[g], v) THEN 1 ELSE 0)
                                                                 - (IF Flying(call[g], v) THEN 1 ELSE 0)
<1>0. Cardinality(InFlight(v)) \in Nat
  BY FS_CardinalityType
<1>1. CASE Flying(call'[g], v)
  <2>1. InFlight(v)' = InFlight(v) \cup {g}
    BY <1>1 DEF InFlight, Flying
  <2>2. g \in InFlight(v) <=> Flying(call[g], v)
    BY DEF InFlight, Flying
  <2> QED
    BY <1>0, <1>1, <2>1, <2>2, FS_AddElement
<1>2. CASE ~Flying(call'[g], v)
  <2>1. InFlight(v)' = InFlight(v) \ {g}
    BY <1>2 DEF InFlight, Flying
  <2>2. g \in InFlight(v) <=> Flying(call[g], v)
    BY DEF InFlight, Flying
  <2> QED
    BY <1>0, <1>2, <2>1, <2>2, FS_RemoveElement
<1> QED
  BY <1>1, <1>2

\* What a step of call g on behalf of v may change.
ServiceFrame(g, v) ==
    /\ UNCHANGED <<kase, consult, offer, artifactRow, transfer, opened, notices, req, raced, peeked>>
    /\ stake' \subseteq Validators /\ left' \in [overlaps : Nat, transfers : Nat, calls : Nat, credits : Nat]
    /\ call' \in [Calls -> CallRecords] /\ \A h \in Calls : h # g => call'[h] = call[h]
    /\ call[g].v \in {v, None} /\ call'[g].v \in {v, None}
    /\ guarantee' \in [Validators -> [Ids -> {"none", "active", "released"}]]
    /\ wallet' \in [Validators -> Nat]
    /\ \A w \in Validators : w # v => guarantee'[w] = guarantee[w] /\ wallet'[w] = wallet[w]
    /\ faults' \in {faults, faults + 1}
    /\ doubtful' \in BOOLEAN /\ (doubtful => doubtful')
    /\ call'[g].pc # "idle" <=> call'[g].v # None
    /\ call'[g].pc = "transfer" => call'[g].t # None
    /\ call'[g].pc = "rollback" => faults' > 0

LEMMA ServiceKept ==
  ASSUME GuaranteeInv, NEW g \in Calls, NEW v \in Validators, ServiceFrame(g, v), UpdateSecured,
         \A i, j \in Active(v)' : i = j,
         ~doubtful' => Held(v)' <= Total /\ (faults' = 0 => Held(v)' = Total),
         Stands(v) /\ ~Misleads(v) => /\ Active(v)' # {}
                                      /\ call'[g].pc # "claim"
                                      /\ call'[g].pc = "transfer" => call'[g].t = kase.escrow
  PROVE  GuaranteeInv'
<1>0. TypeOK /\ WorkflowInv /\ WorkflowTypeOK /\ CallsSound /\ OneActive /\ faults \in Nat /\ None \notin Validators
      /\ \A w \in Validators : MoneyKept(w)
  BY CaseWorkflowAssumption DEF GuaranteeInv, TypeOK
<1>1. WorkflowInv'
  <2>1. WorkflowTypeOK'
    BY <1>0 DEF WorkflowTypeOK, ServiceFrame
  <2>2. TransfersSound' /\ Keeps
    BY <1>0 DEF ServiceFrame, WorkflowInv, TransfersSound, Keeps, Taken, SeenReleased
  <2> QED
    BY <1>0, <2>1, <2>2, ElsewhereKept DEF ServiceFrame
<1>2. TypeOK'
  BY <1>0, <1>1 DEF TypeOK, ServiceFrame, WorkflowInv, UpdateSecured
<1>3. CallsSound'
  BY <1>0 DEF CallsSound, ServiceFrame
<1>4. \A w \in Validators : w # v => Active(w)' = Active(w)
  BY DEF ServiceFrame, Active
<1>5. OneActive'
  BY <1>0, <1>4 DEF OneActive
<1>6. ASSUME NEW w \in Validators PROVE MoneyKept(w)'
  <2>1. IsFiniteSet(InFlight(w)')
    BY <1>0, FlightStep DEF MoneyKept, ServiceFrame
  <2>2. CASE w = v
    BY <2>1, <2>2 DEF MoneyKept
  <2>3. CASE w # v
    <3>1. InFlight(w)' = InFlight(w)
      BY <1>0, <2>3 DEF InFlight, ServiceFrame
    <3>2. Held(w)' = Held(w)
      BY <1>4, <2>3, <3>1 DEF Held, ServiceFrame
    <3> QED
      BY <1>0, <2>1, <3>2 DEF MoneyKept, ServiceFrame
  <2> QED
    BY <2>2, <2>3
<1>7. ASSUME ~raced', NEW w \in secured' \ misled' PROVE Stands(w)'
  <2>1. /\ w \in Validators /\ (Engaged(w)' <=> Engaged(w)) /\ Engaged(w)' /\ ~raced
        /\ w \notin misled /\ ~Misleads(w)
    BY <1>7 DEF UpdateSecured, Engaged, ServiceFrame
  <2>2. w \in secured
    BY <1>7, <2>1 DEF UpdateSecured
  <2>3. Stands(w)
    BY <2>1, <2>2 DEF GuaranteeInv
  <2>4. Active(w)' # {}
    BY <1>4, <2>1, <2>3 DEF Stands
  <2>5. ASSUME NEW h \in Calls, call'[h].v = w
        PROVE  call'[h].pc # "claim" /\ (call'[h].pc = "transfer" => call'[h].t = kase'.escrow)
    <3>1. CASE h # g
      BY <2>3, <2>5, <3>1 DEF Stands, ServiceFrame
    <3>2. CASE h = g
      BY <1>0, <2>1, <2>3, <2>5, <3>2 DEF ServiceFrame
    <3> QED
      BY <3>1, <3>2
  <2> QED
    BY <2>1, <2>4, <2>5 DEF Stands
<1> QED
  BY <1>1, <1>2, <1>3, <1>5, <1>6, <1>7 DEF GuaranteeInv


-----------------------------------------------------------------------------
(* The steps of the guarantee service.                                     *)

\* What call g and v have between them.
Share(g, v) == wallet[v] + (IF Active(v) = {} THEN 0 ELSE 1) + (IF Flying(call[g], v) THEN 1 ELSE 0)

\* ServiceKept, by the money that call g moves.
LEMMA ShareKept ==
  ASSUME GuaranteeInv, NEW g \in Calls, NEW v \in Validators, ServiceFrame(g, v), UpdateSecured,
         \A i, j \in Active(v)' : i = j,
         ~doubtful' => Share(g, v)' <= Share(g, v) /\ (faults' = 0 => Share(g, v)' = Share(g, v)),
         Stands(v) /\ ~Misleads(v) => /\ Active(v)' # {}
                                      /\ call'[g].pc # "claim"
                                      /\ call'[g].pc = "transfer" => call'[g].t = kase.escrow
  PROVE  GuaranteeInv'
<1>1. ASSUME ~doubtful' PROVE Held(v)' <= Total /\ (faults' = 0 => Held(v)' = Total)
  <2>1. /\ MoneyKept(v) /\ ~doubtful /\ faults \in Nat /\ wallet[v] \in Nat /\ wallet'[v] \in Nat
        /\ \A i, j \in Active(v) : i = j
    BY <1>1 DEF GuaranteeInv, TypeOK, ServiceFrame, OneActive
  <2>2. Cardinality(Active(v)) = IF Active(v) = {} THEN 0 ELSE 1
    BY <2>1, ActiveCount
  <2>3. Cardinality(Active(v)') = IF Active(v)' = {} THEN 0 ELSE 1
    <3>1. CASE Active(v)' = {}
      BY <3>1, FS_EmptySet
    <3>2. CASE Active(v)' # {}
      <4>1. PICK i \in Active(v)' : TRUE
        BY <3>2
      <4>2. Active(v)' = {i}
        BY <4>1
      <4> QED
        BY <3>2, <4>2, FS_Singleton
    <3> QED
      BY <3>1, <3>2
  <2>4. /\ Cardinality(InFlight(v)) \in Nat
        /\ Cardinality(InFlight(v)') = Cardinality(InFlight(v)) + (IF Flying(call'[g], v) THEN 1 ELSE 0)
                                                                - (IF Flying(call[g], v) THEN 1 ELSE 0)
    BY <2>1, FlightStep DEF MoneyKept, ServiceFrame
  <2>5. /\ Share(g, v) = wallet[v] + (IF Active(v) = {} THEN 0 ELSE 1) + (IF Flying(call[g], v) THEN 1 ELSE 0)
        /\ Share(g, v)' = wallet'[v] + (IF Active(v)' = {} THEN 0 ELSE 1) + (IF Flying(call'[g], v) THEN 1 ELSE 0)
    BY DEF Share, Flying
  <2>6. /\ Held(v) = wallet[v] + Cardinality(Active(v)) + Cardinality(InFlight(v))
        /\ Held(v)' = wallet'[v] + Cardinality(Active(v)') + Cardinality(InFlight(v)')
    BY DEF Held
  <2>7. Held(v)' = Held(v) + Share(g, v)' - Share(g, v) /\ Held(v) \in Nat /\ Share(g, v) \in Nat /\ Share(g, v)' \in Nat
    BY <2>1, <2>2, <2>3, <2>4, <2>5, <2>6
  <2>8. Held(v) <= Total /\ (faults = 0 => Held(v) = Total) /\ (faults' = 0 => faults = 0) /\ Total \in Nat
    BY <2>1, GuaranteeAssumption DEF MoneyKept, ServiceFrame
  <2> QED
    BY <1>1, <2>7, <2>8
<1> QED
  BY <1>1, ServiceKept

\* What moves in the table of calls.
LEMMA CallStep ==
  ASSUME TypeOK, NEW g \in Calls, NEW r \in CallRecords, call' = [call EXCEPT ![g] = r]
  PROVE  call' \in [Calls -> CallRecords] /\ call'[g] = r /\ \A h \in Calls : h # g => call'[h] = call[h]
BY DEF TypeOK

LEMMA GotoStep ==
  ASSUME TypeOK, NEW g \in Calls, NEW pc \in {"refund", "claim", "credit", "rollback"}, GotoCall(g, pc)
  PROVE  /\ call' \in [Calls -> CallRecords] /\ \A h \in Calls : h # g => call'[h] = call[h]
         /\ call'[g].pc = pc /\ call'[g].v = call[g].v
<1>1. call[g] \in CallRecords
  BY CallFits
<1> DEFINE r == [call[g] EXCEPT !.pc = pc]
<1>2. r \in CallRecords /\ r.pc = pc /\ r.v = call[g].v
  BY <1>1 DEF CallRecords
<1>3. call' = [call EXCEPT ![g] = r]
  BY DEF GotoCall
<1> HIDE DEF r
<1> QED
  BY <1>2, <1>3, CallStep

LEMMA SyncStep ==
  ASSUME TypeOK, NEW g \in Calls, NEW amount \in {0, 1},
         call' = [call EXCEPT ![g].pc = "sync", ![g].amount = amount]
  PROVE  /\ call' \in [Calls -> CallRecords] /\ \A h \in Calls : h # g => call'[h] = call[h]
         /\ call'[g].pc = "sync" /\ call'[g].v = call[g].v
<1>1. call[g] \in CallRecords
  BY CallFits
<1> DEFINE r == [call[g] EXCEPT !.pc = "sync", !.amount = amount]
<1>2. r \in CallRecords /\ r.pc = "sync" /\ r.v = call[g].v
  BY <1>1 DEF CallRecords
<1>3. call' = [call EXCEPT ![g] = r]
  BY <1>1 DEF TypeOK, CallRecords
<1> HIDE DEF r
<1> QED
  BY <1>2, <1>3, CallStep

LEMMA ReturnStep ==
  ASSUME TypeOK, NEW g \in Calls, ReturnCall(g)
  PROVE  /\ call' \in [Calls -> CallRecords] /\ \A h \in Calls : h # g => call'[h] = call[h]
         /\ call'[g].pc = "idle" /\ call'[g].v = None
BY NoCallFits, CallStep DEF ReturnCall

LEMMA BeginStep ==
  ASSUME TypeOK, NEW g \in Calls, NEW r \in CallRecords, BeginCall(g, r)
  PROVE  /\ call' \in [Calls -> CallRecords] /\ call'[g] = r /\ \A h \in Calls : h # g => call'[h] = call[h]
         /\ call[g].pc = "idle" /\ left' \in [overlaps : Nat, transfers : Nat, calls : Nat, credits : Nat]
<1>1. left \in [overlaps : Nat, transfers : Nat, calls : Nat, credits : Nat]
  BY DEF TypeOK, WorkflowTypeOK
<1>2. left' \in [overlaps : Nat, transfers : Nat, calls : Nat, credits : Nat]
  BY <1>1 DEF BeginCall
<1> QED
  BY <1>2, CallStep DEF BeginCall

\* The rest of a state that a step of the service leaves alone.
Apart == UNCHANGED <<rows, featureService, req, raced, peeked>>


LEMMA SetKept ==
  ASSUME GuaranteeInv, NEW g \in Calls, NEW v \in Validators, SetGuarantee(g, v), Apart, UpdateSecured
  PROVE  GuaranteeInv'
<1>0. TypeOK /\ CallsSound /\ None \notin Validators /\ faults \in Nat /\ doubtful \in BOOLEAN /\ stake \subseteq Validators
  BY CaseWorkflowAssumption DEF GuaranteeInv, TypeOK, WorkflowTypeOK
<1> DEFINE r == [NoCall EXCEPT !.pc = "insert", !.v = v]
<1>1. r \in CallRecords /\ r.pc = "insert" /\ r.v = v
  BY NoCallFits DEF CallRecords
<1>2. BeginCall(g, r)
  BY DEF SetGuarantee
<1> HIDE DEF r
<1>3. /\ call' \in [Calls -> CallRecords] /\ call'[g] = r /\ \A h \in Calls : h # g => call'[h] = call[h]
      /\ call[g].pc = "idle" /\ left' \in [overlaps : Nat, transfers : Nat, calls : Nat, credits : Nat]
  BY <1>0, <1>1, <1>2, BeginStep
<1>4. /\ Active(v) = {} /\ wallet[v] >= 1 /\ wallet' = [wallet EXCEPT ![v] = @ - 1]
      /\ UNCHANGED <<guarantee, faults, doubtful, stake>>
  BY DEF SetGuarantee
<1>5. /\ wallet \in [Validators -> Nat] /\ wallet' \in [Validators -> Nat] /\ wallet'[v] = wallet[v] - 1
      /\ \A w \in Validators : w # v => wallet'[w] = wallet[w]
  BY <1>0, <1>4 DEF TypeOK
<1>6. call[g].v = None
  BY <1>0, <1>3 DEF CallsSound
<1>7. ServiceFrame(g, v)
  BY <1>0, <1>1, <1>3, <1>4, <1>5, <1>6 DEF ServiceFrame, Apart, rows, featureService, TypeOK
<1>8. Active(v)' = Active(v)
  BY <1>4 DEF Active
<1>9. Share(g, v)' = Share(g, v)
  BY <1>0, <1>1, <1>3, <1>4, <1>5, <1>6, <1>8 DEF Share, Flying
<1>10. ~Stands(v) /\ \A i, j \in Active(v)' : i = j
  BY <1>4, <1>8 DEF Stands
<1>11. Share(g, v) \in Nat
  BY <1>5 DEF Share
<1> QED
  BY <1>7, <1>9, <1>10, <1>11, ShareKept

\* The answer of the Go backend names the escrow of an engaged validator.
LEMMA ReleaseKept ==
  ASSUME GuaranteeInv, NEW g \in Calls, NEW v \in Validators, ReleaseGuarantee(g, v), Apart, UpdateSecured
  PROVE  GuaranteeInv'
<1>0. /\ TypeOK /\ CallsSound /\ OneActive /\ None \notin Validators /\ faults \in Nat /\ doubtful \in BOOLEAN
      /\ stake \subseteq Validators /\ kase.escrow \in Transfers \cup {None} /\ wallet[v] \in Nat
  BY CaseWorkflowAssumption, CaseType DEF GuaranteeInv, TypeOK, WorkflowTypeOK
<1> DEFINE r(i) == [NoCall EXCEPT !.pc = IF ConsultationLock(v) THEN "transfer" ELSE "claim",
                       !.v = v, !.id = i, !.t = IF ConsultationLock(v) THEN kase.escrow ELSE None]
<1>1. PICK i \in Active(v) : BeginCall(g, r(i))
  BY DEF ReleaseGuarantee
<1>2. /\ r(i) \in CallRecords /\ r(i).v = v
      /\ r(i).pc = IF ConsultationLock(v) THEN "transfer" ELSE "claim"
      /\ r(i).t = IF ConsultationLock(v) THEN kase.escrow ELSE None
  <2>1. i \in Ids
    BY DEF Active
  <2> QED
    BY <1>0, <2>1, NoCallFits DEF CallRecords
<1> HIDE DEF r
<1>3. /\ call' \in [Calls -> CallRecords] /\ call'[g] = r(i) /\ \A h \in Calls : h # g => call'[h] = call[h]
      /\ call[g].pc = "idle" /\ left' \in [overlaps : Nat, transfers : Nat, calls : Nat, credits : Nat]
  BY <1>0, <1>1, <1>2, BeginStep
<1>4. /\ UNCHANGED <<guarantee, wallet, faults, doubtful, stake>>
      /\ ConsultationLock(v) => kase.escrow # None
  BY DEF ReleaseGuarantee
<1>5. call[g].v = None /\ call'[g].v = v
  BY <1>0, <1>2, <1>3 DEF CallsSound
<1>6. ServiceFrame(g, v)
  BY <1>0, <1>2, <1>3, <1>4, <1>5 DEF ServiceFrame, Apart, rows, featureService, TypeOK
<1>7. Active(v)' = Active(v)
  BY <1>4 DEF Active
<1>8. Share(g, v)' = Share(g, v) /\ Share(g, v) \in Nat
  BY <1>0, <1>2, <1>3, <1>4, <1>5, <1>7 DEF Share, Flying
<1>9. ASSUME Stands(v)
      PROVE  Active(v)' # {} /\ call'[g].pc # "claim" /\ (call'[g].pc = "transfer" => call'[g].t = kase.escrow)
  <2>1. Engaged(v) /\ Active(v) # {}
    BY <1>9 DEF Stands
  <2>2. ConsultationLock(v)
    BY <2>1 DEF Engaged, ConsultationLock
  <2> QED
    BY <1>2, <1>3, <1>7, <2>1, <2>2
<1> QED
  BY <1>0, <1>6, <1>7, <1>8, <1>9, ShareKept DEF OneActive

LEMMA GetKept ==
  ASSUME GuaranteeInv, NEW g \in Calls, NEW v \in Validators, GetGuarantee(g, v), Apart, UpdateSecured
  PROVE  GuaranteeInv'
<1>0. /\ TypeOK /\ CallsSound /\ OneActive /\ None \notin Validators /\ faults \in Nat /\ doubtful \in BOOLEAN
      /\ stake \subseteq Validators /\ wallet[v] \in Nat
  BY CaseWorkflowAssumption DEF GuaranteeInv, TypeOK, WorkflowTypeOK
<1> DEFINE r == [NoCall EXCEPT !.pc = "sync", !.v = v, !.amount = IF Active(v) = {} THEN 0 ELSE 1]
<1>1. r \in CallRecords /\ r.pc = "sync" /\ r.v = v
  BY NoCallFits DEF CallRecords
<1>2. BeginCall(g, r)
  BY DEF GetGuarantee
<1> HIDE DEF r
<1>3. /\ call' \in [Calls -> CallRecords] /\ call'[g] = r /\ \A h \in Calls : h # g => call'[h] = call[h]
      /\ call[g].pc = "idle" /\ left' \in [overlaps : Nat, transfers : Nat, calls : Nat, credits : Nat]
  BY <1>0, <1>1, <1>2, BeginStep
<1>4. UNCHANGED <<guarantee, wallet, faults, doubtful, stake>>
  BY DEF GetGuarantee
<1>5. call[g].v = None
  BY <1>0, <1>3 DEF CallsSound
<1>6. ServiceFrame(g, v)
  BY <1>0, <1>1, <1>3, <1>4, <1>5 DEF ServiceFrame, Apart, rows, featureService, TypeOK
<1>7. Active(v)' = Active(v)
  BY <1>4 DEF Active
<1>8. Share(g, v)' = Share(g, v) /\ Share(g, v) \in Nat
  BY <1>0, <1>1, <1>3, <1>4, <1>5, <1>7 DEF Share, Flying
<1>9. Stands(v) => Active(v)' # {} /\ call'[g].pc = "sync"
  BY <1>1, <1>3, <1>7 DEF Stands
<1> QED
  BY <1>0, <1>6, <1>7, <1>8, <1>9, ShareKept DEF OneActive


\* A call under way is about a validator.
LEMMA Underway ==
  ASSUME GuaranteeInv, NEW g \in Calls, call[g].pc # "idle"
  PROVE  /\ TypeOK /\ CallsSound /\ OneActive /\ None \notin Validators
         /\ call[g].v \in Validators /\ call[g].id \in Ids /\ call[g].t \in Transfers \cup {None}
         /\ faults \in Nat /\ doubtful \in BOOLEAN /\ stake \subseteq Validators
         /\ left \in [overlaps : Nat, transfers : Nat, calls : Nat, credits : Nat]
         /\ wallet \in [Validators -> Nat]
         /\ guarantee \in [Validators -> [Ids -> {"none", "active", "released"}]]
<1>1. TypeOK /\ CallsSound /\ OneActive
  BY DEF GuaranteeInv
<1> QED
  BY <1>1, CallFits, CaseWorkflowAssumption DEF TypeOK, WorkflowTypeOK, CallsSound

\* The status of a guarantee changes.
LEMMA StatusStep ==
  ASSUME TypeOK, NEW v \in Validators, NEW i \in Ids, NEW s \in {"active", "released"},
         guarantee' = [guarantee EXCEPT ![v][i] = s]
  PROVE  /\ guarantee' \in [Validators -> [Ids -> {"none", "active", "released"}]]
         /\ \A w \in Validators : w # v => guarantee'[w] = guarantee[w]
         /\ Active(v)' = IF s = "active" THEN Active(v) \cup {i} ELSE Active(v) \ {i}
<1>1. guarantee \in [Validators -> [Ids -> {"none", "active", "released"}]]
  BY DEF TypeOK
<1>2. /\ guarantee' \in [Validators -> [Ids -> {"none", "active", "released"}]]
      /\ \A w \in Validators : w # v => guarantee'[w] = guarantee[w]
      /\ \A j \in Ids : guarantee'[v][j] = IF j = i THEN s ELSE guarantee[v][j]
  BY <1>1
<1> QED
  BY <1>2 DEF Active

\* A call that leaves the guarantees alone and may pay v.
LEMMA PaymentKept ==
  ASSUME GuaranteeInv, NEW g \in Calls, NEW v \in Validators, call[g].v = v, call[g].pc # "idle", Apart, UpdateSecured,
         UNCHANGED <<guarantee, left>>, stake' \subseteq Validators,
         call' \in [Calls -> CallRecords], \A h \in Calls : h # g => call'[h] = call[h],
         \/ call'[g].pc = "idle" /\ call'[g].v = None
         \/ call'[g].pc \in {"refund", "rollback", "sync", "claim"} /\ call'[g].v = v,
         wallet' \in {wallet, [wallet EXCEPT ![v] = @ + 1]},
         faults' \in {faults, faults + 1}, doubtful' \in {doubtful, TRUE},
         call'[g].pc = "rollback" => faults' > 0,
         call'[g].pc = "claim" => ~Stands(v) \/ Misleads(v),
         \/ doubtful'
         \/ wallet' = wallet /\ (Flying(call[g], v) => call'[g].pc \in {"refund", "rollback"} \/ faults' > 0)
                             /\ (call'[g].pc \in {"refund", "rollback"} => Flying(call[g], v))
         \/ wallet' # wallet /\ Flying(call[g], v) /\ call'[g].pc \in {"idle", "sync"}
  PROVE  GuaranteeInv'
<1>0. /\ TypeOK /\ CallsSound /\ OneActive /\ None \notin Validators /\ v \in Validators
      /\ faults \in Nat /\ doubtful \in BOOLEAN /\ left \in [overlaps : Nat, transfers : Nat, calls : Nat, credits : Nat]
      /\ wallet \in [Validators -> Nat]
      /\ guarantee \in [Validators -> [Ids -> {"none", "active", "released"}]]
  BY Underway
<1>1. /\ wallet' \in [Validators -> Nat] /\ \A w \in Validators : w # v => wallet'[w] = wallet[w]
      /\ wallet'[v] = IF wallet' = wallet THEN wallet[v] ELSE wallet[v] + 1
  BY <1>0
<1>2. ServiceFrame(g, v)
  BY <1>0, <1>1 DEF ServiceFrame, Apart, rows, featureService
<1>3. Active(v)' = Active(v)
  BY DEF Active
<1>4. ASSUME ~doubtful' PROVE Share(g, v)' <= Share(g, v) /\ (faults' = 0 => Share(g, v)' = Share(g, v))
  <2>1. Flying(call'[g], v) <=> call'[g].pc \in {"refund", "rollback"}
    BY <1>0 DEF Flying
  <2>2. wallet[v] \in Nat /\ (faults' > 0 => faults' # 0)
    BY <1>0
  <2>3. CASE wallet' = wallet
    BY <1>0, <1>1, <1>3, <1>4, <2>1, <2>2, <2>3 DEF Share
  <2>4. CASE wallet' # wallet
    <3>1. Flying(call[g], v) /\ ~Flying(call'[g], v)
      BY <1>4, <2>1, <2>4
    <3>2. Share(g, v)' = wallet[v] + 1 + (IF Active(v) = {} THEN 0 ELSE 1)
      BY <1>1, <1>3, <2>4, <2>2, <3>1 DEF Share
    <3>3. Share(g, v) = wallet[v] + (IF Active(v) = {} THEN 0 ELSE 1) + 1
      BY <2>2, <3>1 DEF Share
    <3> QED
      BY <2>2, <3>2, <3>3
  <2> QED
    BY <2>3, <2>4
<1>5. Stands(v) /\ ~Misleads(v) => Active(v)' # {} /\ call'[g].pc # "claim" /\ call'[g].pc # "transfer"
  BY <1>3 DEF Stands
<1> QED
  BY <1>0, <1>2, <1>3, <1>4, <1>5, ShareKept DEF OneActive


LEMMA InsertKept ==
  ASSUME GuaranteeInv, NEW g \in Calls, InsertGuarantee(g), Apart, UpdateSecured
  PROVE  GuaranteeInv'
<1>0. /\ call[g].pc = "insert" /\ UNCHANGED <<wallet, doubtful, stake, left>>
      /\ \/ /\ Active(call[g].v) = {}
            /\ \E i \in Ids : guarantee' = [guarantee EXCEPT ![call[g].v][i] = "active"]
            /\ call' = [call EXCEPT ![g].pc = "sync", ![g].amount = 1]
            /\ UNCHANGED faults
         \/ faults' \in {faults, faults + 1} /\ GotoCall(g, "refund") /\ UNCHANGED guarantee
  BY DEF InsertGuarantee, Fault
<1>1. /\ TypeOK /\ None \notin Validators /\ call[g].v \in Validators /\ faults \in Nat /\ doubtful \in BOOLEAN
      /\ stake \subseteq Validators /\ left \in [overlaps : Nat, transfers : Nat, calls : Nat, credits : Nat]
      /\ wallet \in [Validators -> Nat]
  BY <1>0, Underway
<1>2. PICK v \in Validators : call[g].v = v
  BY <1>1
<1>3. CASE faults' \in {faults, faults + 1} /\ GotoCall(g, "refund") /\ UNCHANGED guarantee
  <2>1. /\ call' \in [Calls -> CallRecords] /\ \A h \in Calls : h # g => call'[h] = call[h]
        /\ call'[g].pc = "refund" /\ call'[g].v = v
    BY <1>1, <1>2, <1>3, GotoStep
  <2>2. Flying(call[g], v)
    BY <1>0, <1>2 DEF Flying
  <2> QED
    BY <1>0, <1>1, <1>2, <1>3, <2>1, <2>2, PaymentKept
<1>4. CASE /\ Active(call[g].v) = {}
           /\ \E i \in Ids : guarantee' = [guarantee EXCEPT ![call[g].v][i] = "active"]
           /\ call' = [call EXCEPT ![g].pc = "sync", ![g].amount = 1]
           /\ UNCHANGED faults
  <2>1. /\ call' \in [Calls -> CallRecords] /\ \A h \in Calls : h # g => call'[h] = call[h]
        /\ call'[g].pc = "sync" /\ call'[g].v = v
    BY <1>1, <1>2, <1>4, SyncStep
  <2>2. Active(v) = {}
    BY <1>2, <1>4
  <2>3. PICK i \in Ids : guarantee' = [guarantee EXCEPT ![v][i] = "active"]
    BY <1>2, <1>4
  <2>4. /\ guarantee' \in [Validators -> [Ids -> {"none", "active", "released"}]]
        /\ \A w \in Validators : w # v => guarantee'[w] = guarantee[w]
        /\ Active(v)' = {i}
    BY ZenonT(60), <1>1, <2>2, <2>3, StatusStep
  <2>5. ServiceFrame(g, v)
    BY <1>0, <1>1, <1>2, <1>4, <2>1, <2>4 DEF ServiceFrame, Apart, rows, featureService
  <2>6. Share(g, v)' = Share(g, v) /\ Share(g, v) \in Nat
    <3>1. Flying(call[g], v) /\ ~Flying(call'[g], v)
      BY <1>0, <1>2, <2>1 DEF Flying
    <3> QED
      BY <1>0, <1>1, <2>2, <2>4, <3>1 DEF Share
  <2> QED
    BY <2>1, <2>2, <2>4, <2>5, <2>6, ShareKept DEF Stands
<1> QED
  BY <1>0, <1>3, <1>4

\* The claim of a release takes the only active guarantee of v.
LEMMA ReleasedKept ==
  ASSUME GuaranteeInv, NEW g \in Calls, ClaimRelease(g), Apart, UpdateSecured
  PROVE  GuaranteeInv'
<1>0. /\ call[g].pc = "claim" /\ UNCHANGED <<wallet, faults, doubtful, stake, left>>
  BY DEF ClaimRelease
<1>1. /\ TypeOK /\ OneActive /\ None \notin Validators /\ call[g].v \in Validators /\ call[g].id \in Ids
      /\ faults \in Nat /\ doubtful \in BOOLEAN
      /\ stake \subseteq Validators /\ left \in [overlaps : Nat, transfers : Nat, calls : Nat, credits : Nat]
      /\ wallet \in [Validators -> Nat]
  BY <1>0, Underway
<1>2. PICK v \in Validators, i \in Ids : call[g].v = v /\ call[g].id = i
  BY <1>1
<1>3. CASE guarantee[v][i] # "active"
  <2>1. ReturnCall(g) /\ UNCHANGED guarantee
    BY <1>2, <1>3 DEF ClaimRelease
  <2>2. /\ call' \in [Calls -> CallRecords] /\ \A h \in Calls : h # g => call'[h] = call[h]
        /\ call'[g].pc = "idle" /\ call'[g].v = None
    BY <1>1, <2>1, ReturnStep
  <2>3. ~Flying(call[g], v)
    BY <1>0 DEF Flying
  <2> QED
    BY <1>0, <1>1, <1>2, <2>1, <2>2, <2>3, PaymentKept
<1>4. CASE guarantee[v][i] = "active"
  <2>1. GotoCall(g, "credit") /\ guarantee' = [guarantee EXCEPT ![v][i] = "released"]
    BY <1>2, <1>4 DEF ClaimRelease
  <2>2. /\ call' \in [Calls -> CallRecords] /\ \A h \in Calls : h # g => call'[h] = call[h]
        /\ call'[g].pc = "credit" /\ call'[g].v = v
    BY <1>1, <1>2, <2>1, GotoStep
  <2>3. Active(v) = {i}
    BY <1>1, <1>4 DEF Active, OneActive
  <2>4. /\ guarantee' \in [Validators -> [Ids -> {"none", "active", "released"}]]
        /\ \A w \in Validators : w # v => guarantee'[w] = guarantee[w]
        /\ Active(v)' = {}
    <3>1. /\ guarantee' \in [Validators -> [Ids -> {"none", "active", "released"}]]
          /\ \A w \in Validators : w # v => guarantee'[w] = guarantee[w]
          /\ Active(v)' = Active(v) \ {i}
      BY <1>1, <2>1, StatusStep
    <3>2. Active(v) \ {i} = {}
      BY <2>3
    <3> QED
      BY <3>1, <3>2
  <2>5. ServiceFrame(g, v)
    BY <1>0, <1>1, <1>2, <2>2, <2>4 DEF ServiceFrame, Apart, rows, featureService
  <2>6. Share(g, v)' = Share(g, v) /\ Share(g, v) \in Nat
    <3>1. ~Flying(call[g], v) /\ Flying(call'[g], v)
      BY <1>0, <2>2 DEF Flying
    <3> QED
      BY <1>0, <1>1, <2>3, <2>4, <3>1 DEF Share
  <2>7. ~Stands(v)
    BY <1>0, <1>2 DEF Stands
  <2> QED
    BY <2>4, <2>5, <2>6, <2>7, ShareKept
<1> QED
  BY <1>3, <1>4

LEMMA RolledBackKept ==
  ASSUME GuaranteeInv, NEW g \in Calls, RollbackRelease(g), Apart, UpdateSecured
  PROVE  GuaranteeInv'
<1>0. /\ call[g].pc = "rollback" /\ UNCHANGED <<wallet, doubtful, stake, left>> /\ ReturnCall(g)
      /\ \/ /\ Active(call[g].v) = {}
            /\ guarantee' = [guarantee EXCEPT ![call[g].v][call[g].id] = "active"]
            /\ UNCHANGED faults
         \/ faults' \in {faults, faults + 1} /\ UNCHANGED guarantee
  BY DEF RollbackRelease, Fault
<1>1. /\ TypeOK /\ None \notin Validators /\ call[g].v \in Validators /\ call[g].id \in Ids
      /\ faults \in Nat /\ doubtful \in BOOLEAN /\ CallsSound
      /\ stake \subseteq Validators /\ left \in [overlaps : Nat, transfers : Nat, calls : Nat, credits : Nat]
      /\ wallet \in [Validators -> Nat]
  BY <1>0, Underway
<1>2. PICK v \in Validators, i \in Ids : call[g].v = v /\ call[g].id = i
  BY <1>1
<1>3. /\ call' \in [Calls -> CallRecords] /\ \A h \in Calls : h # g => call'[h] = call[h]
      /\ call'[g].pc = "idle" /\ call'[g].v = None
  BY <1>0, <1>1, ReturnStep
<1>4. Flying(call[g], v) /\ ~Flying(call'[g], v) /\ faults > 0
  BY <1>0, <1>1, <1>2, <1>3 DEF Flying, CallsSound
<1>5. CASE faults' \in {faults, faults + 1} /\ UNCHANGED guarantee
  <2>1. faults' > 0
    BY <1>1, <1>4, <1>5
  <2> QED
    BY <1>0, <1>1, <1>2, <1>3, <1>4, <1>5, <2>1, PaymentKept
<1>6. CASE /\ Active(call[g].v) = {}
           /\ guarantee' = [guarantee EXCEPT ![call[g].v][call[g].id] = "active"]
           /\ UNCHANGED faults
  <2>1. Active(v) = {} /\ guarantee' = [guarantee EXCEPT ![v][i] = "active"]
    BY <1>2, <1>6
  <2>2. /\ guarantee' \in [Validators -> [Ids -> {"none", "active", "released"}]]
        /\ \A w \in Validators : w # v => guarantee'[w] = guarantee[w]
        /\ Active(v)' = {i}
    BY ZenonT(60), <1>1, <2>1, StatusStep
  <2>3. ServiceFrame(g, v)
    BY <1>0, <1>1, <1>2, <1>3, <1>6, <2>2 DEF ServiceFrame, Apart, rows, featureService
  <2>4. Share(g, v)' = Share(g, v) /\ Share(g, v) \in Nat
    BY <1>0, <1>1, <1>4, <2>1, <2>2 DEF Share
  <2> QED
    BY <2>1, <2>2, <2>3, <2>4, ShareKept DEF Stands
<1> QED
  BY <1>0, <1>5, <1>6


\* An engaged validator's transfer is found resolved only while a credit is
\* outstanding.
LEMMA LookedUpKept ==
  ASSUME GuaranteeInv, NEW g \in Calls, LookUpTransfer(g), Apart, UpdateSecured
  PROVE  GuaranteeInv'
<1>0. call[g].pc = "transfer" /\ UNCHANGED <<guarantee, wallet, faults, doubtful, stake, left>>
  BY DEF LookUpTransfer
<1>1. /\ TypeOK /\ CallsSound /\ None \notin Validators /\ call[g].v \in Validators /\ call[g].t \in Transfers \cup {None}
      /\ faults \in Nat /\ doubtful \in BOOLEAN /\ stake \subseteq Validators
  BY <1>0, Underway
<1>2. PICK v \in Validators : call[g].v = v
  BY <1>1
<1>3. ~Flying(call[g], v)
  BY <1>0 DEF Flying
<1>4. CASE TransferResolved(call[g].t, v)
  <2>1. GotoCall(g, "claim")
    BY <1>2, <1>4 DEF LookUpTransfer
  <2>2. /\ call' \in [Calls -> CallRecords] /\ \A h \in Calls : h # g => call'[h] = call[h]
        /\ call'[g].pc = "claim" /\ call'[g].v = v
    BY <1>1, <1>2, <2>1, GotoStep
  <2>3. ASSUME Stands(v) PROVE Misleads(v)
    <3>1. call[g].t # None /\ call[g].t = kase.escrow /\ Engaged(v)
      BY <1>0, <1>1, <1>2, <2>3 DEF CallsSound, Stands
    <3>2. transfer[call[g].t].owing # "none"
      BY <1>4, <3>1 DEF Engaged, TransferResolved
    <3> QED
      BY <1>0, <1>2, <2>2, <3>2 DEF Misleads
  <2> QED
    BY <1>0, <1>1, <1>2, <1>3, <2>2, <2>3, PaymentKept
<1>5. CASE ~TransferResolved(call[g].t, v)
  <2>1. ReturnCall(g)
    BY <1>2, <1>5 DEF LookUpTransfer
  <2>2. /\ call' \in [Calls -> CallRecords] /\ \A h \in Calls : h # g => call'[h] = call[h]
        /\ call'[g].pc = "idle" /\ call'[g].v = None
    BY <1>1, <2>1, ReturnStep
  <2> QED
    BY <1>0, <1>1, <1>2, <1>3, <2>2, PaymentKept
<1> QED
  BY <1>4, <1>5

LEMMA CreditedKept ==
  ASSUME GuaranteeInv, NEW g \in Calls, CreditRelease(g), Apart, UpdateSecured
  PROVE  GuaranteeInv'
<1>0. call[g].pc = "credit" /\ UNCHANGED <<guarantee, stake, left>>
  BY DEF CreditRelease
<1>1. /\ TypeOK /\ None \notin Validators /\ call[g].v \in Validators
      /\ faults \in Nat /\ doubtful \in BOOLEAN /\ stake \subseteq Validators /\ wallet \in [Validators -> Nat]
  BY <1>0, Underway
<1>2. PICK v \in Validators : call[g].v = v
  BY <1>1
<1>3. Flying(call[g], v)
  BY <1>0, <1>2 DEF Flying
<1>4. [wallet EXCEPT ![call[g].v] = @ + 1] # wallet
  BY <1>1
<1>5. ASSUME wallet' = [wallet EXCEPT ![call[g].v] = @ + 1],
             call' = [call EXCEPT ![g].pc = "sync", ![g].amount = 0], UNCHANGED <<faults, doubtful>>
      PROVE  GuaranteeInv'
  <2>1. /\ call' \in [Calls -> CallRecords] /\ \A h \in Calls : h # g => call'[h] = call[h]
        /\ call'[g].pc = "sync" /\ call'[g].v = v
    BY <1>1, <1>2, <1>5, SyncStep
  <2> QED
    BY <1>0, <1>1, <1>2, <1>3, <1>4, <1>5, <2>1, PaymentKept
<1>6. ASSUME Fault, GotoCall(g, "rollback"),
             \/ UNCHANGED <<wallet, doubtful>>
             \/ wallet' = [wallet EXCEPT ![call[g].v] = @ + 1] /\ doubtful' = TRUE
      PROVE  GuaranteeInv'
  <2>1. /\ call' \in [Calls -> CallRecords] /\ \A h \in Calls : h # g => call'[h] = call[h]
        /\ call'[g].pc = "rollback" /\ call'[g].v = v
    BY <1>1, <1>2, <1>6, GotoStep
  <2>2. faults' = faults + 1 /\ faults' > 0
    BY <1>1, <1>6 DEF Fault
  <2> QED
    BY <1>0, <1>1, <1>2, <1>3, <1>6, <2>1, <2>2, PaymentKept
<1> QED
  BY <1>5, <1>6, Zenon DEF CreditRelease

\* The calls that end: the refund, the report of the amount, and a crash.
LEMMA EndedKept ==
  ASSUME GuaranteeInv, NEW g \in Calls, BestEffortRefund(g) \/ SyncGuaranteeAmount(g) \/ CrashCall(g),
         Apart, UpdateSecured
  PROVE  GuaranteeInv'
<1>0. call[g].pc # "idle" /\ ReturnCall(g) /\ UNCHANGED <<guarantee, doubtful, left>>
  BY DEF BestEffortRefund, SyncGuaranteeAmount, CrashCall
<1>1. /\ TypeOK /\ None \notin Validators /\ call[g].v \in Validators
      /\ faults \in Nat /\ doubtful \in BOOLEAN /\ stake \subseteq Validators /\ wallet \in [Validators -> Nat]
  BY <1>0, Underway
<1>2. PICK v \in Validators : call[g].v = v
  BY <1>1
<1>3. /\ call' \in [Calls -> CallRecords] /\ \A h \in Calls : h # g => call'[h] = call[h]
      /\ call'[g].pc = "idle" /\ call'[g].v = None
  BY <1>0, <1>1, ReturnStep
<1>4. CASE BestEffortRefund(g)
  <2>1. /\ Flying(call[g], v) /\ stake' = stake
        /\ \/ wallet' = [wallet EXCEPT ![v] = @ + 1] /\ faults' = faults
           \/ wallet' = wallet /\ faults' = faults + 1
    BY <1>2, <1>4 DEF BestEffortRefund, Fault, Flying
  <2>2. [wallet EXCEPT ![v] = @ + 1] # wallet /\ faults + 1 > 0
    BY <1>1
  <2> QED
    BY <1>0, <1>1, <1>2, <1>3, <2>1, <2>2, PaymentKept
<1>5. CASE SyncGuaranteeAmount(g)
  <2>1. /\ ~Flying(call[g], v) /\ stake' \subseteq Validators /\ wallet' = wallet /\ faults' = faults
    BY <1>1, <1>2, <1>5 DEF SyncGuaranteeAmount, Flying
  <2> QED
    BY <1>0, <1>1, <1>2, <1>3, <2>1, PaymentKept
<1>6. CASE CrashCall(g)
  <2>1. /\ stake' = stake /\ wallet' = wallet /\ faults' = faults + 1 /\ faults' > 0
    BY <1>1, <1>6 DEF CrashCall, Fault
  <2> QED
    BY <1>0, <1>1, <1>2, <1>3, <2>1, PaymentKept
<1> QED
  BY <1>4, <1>5, <1>6

LEMMA GuaranteeServiceKept ==
  ASSUME GuaranteeInv, GuaranteeService, UpdateSecured
  PROVE  GuaranteeInv'
<1>0. Apart /\ Stakers \subseteq Validators
  BY GuaranteeAssumption DEF GuaranteeService, Apart
<1>1. PICK g \in Calls :
         \/ \E v \in Stakers : SetGuarantee(g, v) \/ ReleaseGuarantee(g, v) \/ GetGuarantee(g, v)
         \/ InsertGuarantee(g) \/ BestEffortRefund(g)
         \/ LookUpTransfer(g) \/ ClaimRelease(g) \/ CreditRelease(g) \/ RollbackRelease(g)
         \/ SyncGuaranteeAmount(g) \/ CrashCall(g)
  BY DEF GuaranteeService
<1>2. ASSUME NEW v \in Stakers, SetGuarantee(g, v) \/ ReleaseGuarantee(g, v) \/ GetGuarantee(g, v)
      PROVE  GuaranteeInv'
  BY <1>0, <1>2, SetKept, ReleaseKept, GetKept
<1>3. CASE InsertGuarantee(g) \/ LookUpTransfer(g) \/ ClaimRelease(g) \/ CreditRelease(g) \/ RollbackRelease(g)
  BY <1>0, <1>3, InsertKept, LookedUpKept, ReleasedKept, CreditedKept, RolledBackKept
<1>4. CASE BestEffortRefund(g) \/ SyncGuaranteeAmount(g) \/ CrashCall(g)
  BY <1>0, <1>4, EndedKept
<1> QED
  BY <1>1, <1>2, <1>3, <1>4


-----------------------------------------------------------------------------
(* The workflow beside the guarantees.                                     *)

\* A case that has an escrow keeps it until a new cycle begins, in which
\* nobody has been consulted.
LEMMA EscrowStays ==
  ASSUME WorkflowInv, WorkflowNext, ~raced'
  PROVE  /\ ~raced
         /\ \/ kase'.escrow = kase.escrow
            \/ kase.escrow = None
            \/ \A v \in Validators : consult'[v][kase'.cycle] = "none"
<1>0. WorkflowTypeOK /\ kase \in Cases
  BY DEF WorkflowInv, WorkflowTypeOK
<1>1. ASSUME NEW q \in Requests, Handle(q) PROVE UNCHANGED <<kase, raced>>
  <2>1. ASSUME NEW v \in Validators,
               \/ RequestConsultation(q, v) \/ ApproveConsultationRequest(q, v)
               \/ RejectConsultationRequest(q, v) \/ SubmitFinalOffer(q, v)
               \/ AcceptFinalOffer(q, v) \/ SubmitArtifact(q, v)
        PROVE  UNCHANGED <<kase, raced>>
    BY <2>1 DEF RequestConsultation, ApproveConsultationRequest, RejectConsultationRequest,
                SubmitFinalOffer, AcceptFinalOffer, SubmitArtifact, Call, Begin, rows
  <2>2. ASSUME NEW v \in Validators, NormalizeRequest(q, v) PROVE UNCHANGED <<kase, raced>>
    BY <2>2 DEF NormalizeRequest, Begin
  <2>3. ASSUME NEW t \in Transfers, ConfirmLockFunds(q, t) PROVE UNCHANGED <<kase, raced>>
    BY <2>3 DEF ConfirmLockFunds, Call, Begin, rows
  <2>4. ASSUME NEW d \in Disputes, AttachDispute(q, d) PROVE UNCHANGED <<kase, raced>>
    BY <2>4 DEF AttachDispute, Call, Begin, rows
  <2>5. ASSUME MarkEscrowReleased(q) \/ NormalizeCase(q) PROVE UNCHANGED <<kase, raced>>
    BY <2>5 DEF MarkEscrowReleased, NormalizeCase, Call, Begin, rows
  <2>6. ASSUME NEW n \in notices,
               MarkEscrowReleasedInternalByTransferID(q, n) \/ SettleDisputeInternalByTransferID(q, n)
        PROVE  UNCHANGED <<kase, raced>>
    BY <2>6 DEF MarkEscrowReleasedInternalByTransferID, SettleDisputeInternalByTransferID, Receive, Begin, rows
  <2> QED
    BY <1>1, <2>1, <2>2, <2>3, <2>4, <2>5, <2>6 DEF Handle
<1>2. ASSUME NEW q \in Requests,
             \/ InsertConsultation(q) \/ WriteDecision(q) \/ InsertOffer(q) \/ FetchPending(q)
             \/ MarkOfferFunded(q) \/ InsertArtifact(q) \/ FetchReleased(q) \/ Abandon(q)
      PROVE  UNCHANGED <<kase, raced>>
  BY <1>2 DEF InsertConsultation, WriteDecision, InsertOffer, FetchPending, MarkOfferFunded,
              InsertArtifact, FetchReleased, Abandon, rows
<1>3. ASSUME NEW q \in Requests,
             \/ ClaimAcceptance(q) \/ WriteArtifact(q) \/ WriteCompleted(q)
             \/ WriteValidatorRelease(q) \/ WriteDispute(q) \/ WriteNormalized(q)
      PROVE  kase'.escrow = kase.escrow /\ ~raced
  <2>1. CASE ClaimAcceptance(q)
    <3>1. kase' = [kase EXCEPT !.accepted = req[q].v, !.status = "offer_accepted"] /\ raced' = raced
      BY <2>1, Zenon DEF ClaimAcceptance
    <3> QED
      BY <1>0, <3>1 DEF Cases
  <2>2. CASE WriteArtifact(q)
    BY <1>0, <2>2 DEF WriteArtifact, Update, Cases
  <2>3. CASE WriteCompleted(q)
    BY <1>0, <2>3 DEF WriteCompleted, Update, Cases
  <2>4. CASE WriteValidatorRelease(q)
    BY <1>0, <2>4 DEF WriteValidatorRelease, Update, Cases
  <2>5. CASE WriteDispute(q)
    BY <1>0, <2>5 DEF WriteDispute, Update, Cases
  <2>6. CASE WriteNormalized(q)
    BY <1>0, <2>6 DEF WriteNormalized, Update, Cases
  <2> QED
    BY <1>3, <2>1, <2>2, <2>3, <2>4, <2>5, <2>6
<1>4. ASSUME NEW q \in Requests, LockFunds(q) PROVE kase.escrow = None /\ ~raced
  <2>1. /\ req[q].op = "confirm" /\ req[q].pc = "write" /\ raced' = (raced \/ req[q].overtaken)
    BY <1>4 DEF LockFunds, At, Update
  <2>2. Fresh(q)
    BY <2>1 DEF WorkflowInv
  <2> QED
    BY <2>1, <2>2 DEF Fresh
<1>5. ASSUME NEW q \in Requests, WriteOwnerRefund(q)
      PROVE  ~raced /\ \A v \in Validators : consult'[v][kase'.cycle] = "none"
  <2>1. /\ req[q].op = "owner_refund" /\ req[q].pc = "write" /\ raced' = (raced \/ req[q].overtaken)
        /\ kase' = [NewCase EXCEPT !.cycle = req[q].cycle + 1] /\ consult' = consult
    BY <1>5 DEF WriteOwnerRefund, At, Update
  <2>2. Fresh(q) /\ Knows(q) /\ Cycled /\ ~raced
    BY <2>1 DEF WorkflowInv
  <2>3. req[q].cycle = kase.cycle /\ req[q].cycle < MaxCycle /\ kase.cycle \in Cycles
    BY <1>0, <2>1, <2>2, CaseType DEF Fresh, Knows, SeenReleased
  <2>4. kase'.cycle = kase.cycle + 1 /\ kase.cycle + 1 \in Cycles /\ ~(kase.cycle + 1 <= kase.cycle)
    BY <2>1, <2>3, CaseWorkflowAssumption DEF NewCase, Cycles
  <2> QED
    BY <2>1, <2>2, <2>4 DEF Cycled
<1>6. ASSUME (\E n \in notices : LoseNotice(n)) \/ FeatureService PROVE UNCHANGED <<kase, raced>>
  BY <1>6 DEF LoseNotice, FeatureService, rows
<1> QED
  BY <1>1, <1>2, <1>3, <1>4, <1>5, <1>6 DEF WorkflowNext, Continue

\* The workflow takes no guarantee: it can only engage and disengage.
LEMMA WorkflowBeside ==
  ASSUME GuaranteeInv, WorkflowNext, UNCHANGED guaranteeVars, UpdateSecured
  PROVE  GuaranteeInv'
<1>0. TypeOK /\ WorkflowInv /\ CallsSound /\ OneActive /\ \A v \in Validators : MoneyKept(v)
  BY DEF GuaranteeInv
<1>1. WorkflowInv'
  BY <1>0, WorkflowKept
<1>2. UNCHANGED <<guarantee, wallet, call, faults, doubtful>>
  BY DEF guaranteeVars
<1>3. TypeOK'
  BY <1>0, <1>1, <1>2 DEF TypeOK, WorkflowInv, UpdateSecured
<1>4. CallsSound' /\ OneActive' /\ \A v \in Validators : MoneyKept(v)'
  BY <1>0, <1>2 DEF CallsSound, OneActive, MoneyKept, Held, InFlight, Active
<1>5. ASSUME ~raced', NEW v \in secured' \ misled' PROVE Stands(v)'
  <2>1. /\ v \in Validators /\ Engaged(v)' /\ v \notin misled
        /\ v \in secured \/ (Active(v) # {} /\ ~Releasing(v))
    BY <1>5 DEF UpdateSecured
  <2>2. ~raced /\ (kase'.escrow = kase.escrow \/ kase.escrow = None)
    <3>1. consult'[v][kase'.cycle] # "none"
      BY <2>1 DEF Engaged
    <3> QED
      BY <1>0, <1>5, <2>1, <3>1, EscrowStays
  <2>3. CASE v \in secured
    <3>1. Stands(v)
      BY <2>1, <2>2, <2>3 DEF GuaranteeInv
    <3>2. \A g \in Calls : call[g].v = v => call[g].pc # "claim" /\ (call[g].pc = "transfer" => call[g].t = kase'.escrow)
      BY <1>0, <2>2, <3>1 DEF Stands, CallsSound
    <3>3. Active(v)' # {}
      BY <1>2, <3>1 DEF Stands, Active
    <3> QED
      BY <1>2, <2>1, <3>2, <3>3 DEF Stands
  <2>4. CASE Active(v) # {} /\ ~Releasing(v)
    <3>1. Active(v)' # {}
      BY <1>2, <2>4 DEF Active
    <3> QED
      BY <1>2, <2>1, <2>4, <3>1 DEF Stands, Releasing
  <2> QED
    BY <2>1, <2>3, <2>4
<1> QED
  BY <1>1, <1>3, <1>4, <1>5 DEF GuaranteeInv


-----------------------------------------------------------------------------
(* The theorems.                                                           *)

\* The three ways a case begins, by the columns that differ.
LEMMA CaseInitially ==
  ASSUME WorkflowInit
  PROVE  /\ kase \in Cases /\ kase.cycle = 1 /\ kase.escrow = None /\ kase.dispute = None
         /\ ~kase.artifact /\ ~kase.certified /\ kase.status \in {"open", "waiting_owner_response"}
         /\ kase.status = "open" => kase.accepted = None
         /\ kase.accepted # None => Taken(kase.accepted, 1)
         /\ consult \in [Validators -> [Cycles -> ConsultationStates]]
         /\ \A v \in Validators, c \in Cycles : consult[v][c] # "none" => c = 1
         /\ offer \in [Validators -> [Cycles -> OfferStates]]
         /\ \A v \in Validators, c \in Cycles : Taken(v, c) => c = 1 /\ kase.accepted = v
<1>0. 1 \in Cycles
  BY CaseWorkflowAssumption DEF Cycles
<1>1. /\ NewCase \in Cases /\ NewCase.cycle = 1 /\ NewCase.escrow = None /\ NewCase.dispute = None
      /\ ~NewCase.artifact /\ ~NewCase.certified /\ NewCase.status = "open" /\ NewCase.accepted = None
  BY <1>0 DEF NewCase, Cases, Statuses
<1>2. /\ NoRows("none") \in [Validators -> [Cycles -> ConsultationStates]]
      /\ NoRows("none") \in [Validators -> [Cycles -> OfferStates]]
      /\ \A v \in Validators, c \in Cycles : NoRows("none")[v][c] = "none"
  BY DEF NoRows, ConsultationStates, OfferStates
<1>3. CASE kase = NewCase /\ consult = NoRows("none") /\ offer = NoRows("none")
  BY <1>1, <1>2, <1>3 DEF Taken
<1>4. ASSUME NEW v \in Validators, NEW accepted \in {v, None},
             consult = [NoRows("none") EXCEPT ![v][1] = "waiting_owner_response"],
             kase = IF accepted = None THEN [NewCase EXCEPT !.status = "waiting_owner_response"]
                    ELSE [NewCase EXCEPT !.status = "waiting_owner_response", !.accepted = accepted],
             offer = IF accepted = None THEN NoRows("none")
                     ELSE [NoRows("none") EXCEPT ![v][1] = "accepted_pending_funding"]
      PROVE  /\ kase \in Cases /\ kase.cycle = 1 /\ kase.escrow = None /\ kase.dispute = None
             /\ ~kase.artifact /\ ~kase.certified /\ kase.status = "waiting_owner_response"
             /\ kase.accepted # None => Taken(kase.accepted, 1)
             /\ consult \in [Validators -> [Cycles -> ConsultationStates]]
             /\ \A w \in Validators, c \in Cycles : consult[w][c] # "none" => c = 1
             /\ offer \in [Validators -> [Cycles -> OfferStates]]
             /\ \A w \in Validators, c \in Cycles : Taken(w, c) => c = 1 /\ kase.accepted = w
  <2>1. /\ kase \in Cases /\ kase.cycle = 1 /\ kase.escrow = None /\ kase.dispute = None
        /\ ~kase.artifact /\ ~kase.certified /\ kase.status = "waiting_owner_response" /\ kase.accepted = accepted
    BY <1>1, <1>4 DEF Cases, Statuses
  <2>2. /\ consult \in [Validators -> [Cycles -> ConsultationStates]]
        /\ \A w \in Validators, c \in Cycles : consult[w][c] # "none" => c = 1
    BY <1>0, <1>2, <1>4 DEF ConsultationStates
  <2>3. /\ offer \in [Validators -> [Cycles -> OfferStates]]
        /\ \A w \in Validators, c \in Cycles :
              offer[w][c] = IF accepted # None /\ w = v /\ c = 1 THEN "accepted_pending_funding" ELSE "none"
    BY <1>0, <1>2, <1>4 DEF OfferStates
  <2>4. /\ kase.accepted # None => Taken(kase.accepted, 1)
        /\ \A w \in Validators, c \in Cycles : Taken(w, c) => c = 1 /\ kase.accepted = w
    BY <1>0, <1>4, <2>1, <2>3 DEF Taken
  <2> QED
    BY <2>1, <2>2, <2>3, <2>4
<1>5. \/ kase = NewCase /\ consult = NoRows("none") /\ offer = NoRows("none")
      \/ \E v \in Validators :
            /\ consult = [NoRows("none") EXCEPT ![v][1] = "waiting_owner_response"]
            /\ \/ /\ kase = [NewCase EXCEPT !.status = "waiting_owner_response"]
                  /\ offer = NoRows("none")
               \/ /\ kase = [NewCase EXCEPT !.status = "waiting_owner_response", !.accepted = v]
                  /\ offer = [NoRows("none") EXCEPT ![v][1] = "accepted_pending_funding"]
  BY Zenon DEF WorkflowInit
<1> QED
  <2>1. CASE \E v \in Validators :
            /\ consult = [NoRows("none") EXCEPT ![v][1] = "waiting_owner_response"]
            /\ \/ /\ kase = [NewCase EXCEPT !.status = "waiting_owner_response"]
                  /\ offer = NoRows("none")
               \/ /\ kase = [NewCase EXCEPT !.status = "waiting_owner_response", !.accepted = v]
                  /\ offer = [NoRows("none") EXCEPT ![v][1] = "accepted_pending_funding"]
    <3>1. PICK v \in Validators :
            /\ consult = [NoRows("none") EXCEPT ![v][1] = "waiting_owner_response"]
            /\ \/ /\ kase = [NewCase EXCEPT !.status = "waiting_owner_response"]
                  /\ offer = NoRows("none")
               \/ /\ kase = [NewCase EXCEPT !.status = "waiting_owner_response", !.accepted = v]
                  /\ offer = [NoRows("none") EXCEPT ![v][1] = "accepted_pending_funding"]
      BY <2>1, Zenon
    <3>2. v # None
      BY CaseWorkflowAssumption
    <3>3. CASE kase = [NewCase EXCEPT !.status = "waiting_owner_response"] /\ offer = NoRows("none")
      BY <1>4, <3>1, <3>3
    <3>4. CASE /\ kase = [NewCase EXCEPT !.status = "waiting_owner_response", !.accepted = v]
               /\ offer = [NoRows("none") EXCEPT ![v][1] = "accepted_pending_funding"]
      BY <1>4, <3>1, <3>2, <3>4
    <3> QED
      BY <3>1, <3>3, <3>4
  <2> QED
    BY <1>3, <1>5, <2>1

LEMMA WorkflowInitially == ASSUME WorkflowInit, stake \subseteq Validators PROVE WorkflowInv
<1>0. /\ kase \in Cases /\ kase.cycle = 1 /\ kase.escrow = None /\ kase.dispute = None
      /\ ~kase.artifact /\ ~kase.certified /\ kase.status \in {"open", "waiting_owner_response"}
      /\ kase.status = "open" => kase.accepted = None
      /\ kase.accepted # None => Taken(kase.accepted, 1)
      /\ consult \in [Validators -> [Cycles -> ConsultationStates]]
      /\ \A v \in Validators, c \in Cycles : consult[v][c] # "none" => c = 1
      /\ offer \in [Validators -> [Cycles -> OfferStates]]
      /\ \A v \in Validators, c \in Cycles : Taken(v, c) => c = 1 /\ kase.accepted = v
  BY CaseInitially
<1>1. /\ artifactRow = FALSE /\ transfer = [t \in Transfers |-> [st |-> "none", to |-> None, owing |-> "none"]]
      /\ opened = [d \in Disputes |-> None] /\ notices = {} /\ req = [q \in Requests |-> NoRequest]
      /\ left \in [overlaps : Nat, transfers : Nat, calls : Nat, credits : Nat] /\ raced = FALSE /\ peeked = {}
  BY CaseWorkflowAssumption DEF WorkflowInit
<1>2. WorkflowTypeOK
  BY <1>0, <1>1, NoRequestFits DEF WorkflowTypeOK, TransferStates, TransferRecords, Creditors
<1>3. TransfersSound /\ Claimed
  BY <1>0, <1>1 DEF TransfersSound, Claimed
<1>4. \A q \in Requests : Knows(q) /\ Fresh(q)
  BY <1>1 DEF Knows, Fresh, NoRequest, SeenReleased
<1>5. Linked
  BY <1>0 DEF Linked, SeenReleased
<1>6. Cycled
  BY <1>0 DEF Cycled
<1> QED
  BY <1>2, <1>3, <1>4, <1>5, <1>6 DEF WorkflowInv

LEMMA GuaranteeInitially == Init => GuaranteeInv
<1> SUFFICES ASSUME Init PROVE GuaranteeInv
  OBVIOUS
<1>0. 1 \in Ids /\ 1 \in Cycles /\ Total \in Nat /\ Total # 0
  BY GuaranteeAssumption, CaseWorkflowAssumption DEF Ids, Cycles
<1>1. /\ WorkflowInit /\ call = [g \in Calls |-> NoCall] /\ faults = 0 /\ doubtful = FALSE /\ misled = {}
      /\ secured = {v \in Validators : consult[v][1] = "waiting_owner_response"}
  BY DEF Init
<1>2. PICK holders \in SUBSET Validators :
         /\ \A v \in Validators : consult[v][1] # "none" => v \in holders
         /\ stake = holders
         /\ guarantee = [v \in Validators |-> [i \in Ids |->
                            IF i = 1 /\ v \in holders THEN "active" ELSE "none"]]
         /\ wallet = [v \in Validators |-> IF v \in holders THEN Total - 1 ELSE Total]
  BY Zenon DEF Init
<1>3. WorkflowInv /\ WorkflowTypeOK
  BY <1>1, <1>2, WorkflowInitially DEF WorkflowInv
<1>4. TypeOK
  <2>1. guarantee \in [Validators -> [Ids -> {"none", "active", "released"}]]
    BY <1>2
  <2>2. wallet \in [Validators -> Nat]
    BY <1>0, <1>2
  <2>3. call \in [Calls -> CallRecords] /\ faults \in Nat /\ doubtful \in BOOLEAN
        /\ secured \subseteq Validators /\ misled \subseteq Validators
    BY <1>1, NoCallFits
  <2> QED
    BY <1>3, <2>1, <2>2, <2>3 DEF TypeOK
<1>5. CallsSound
  BY <1>1, NoCallFits DEF CallsSound
<1>6. \A v \in Validators : Active(v) = IF v \in holders THEN {1} ELSE {}
  BY <1>0, <1>2 DEF Active
<1>7. OneActive
  BY <1>6 DEF OneActive
<1>8. ASSUME NEW v \in Validators PROVE MoneyKept(v)
  <2>1. InFlight(v) = {}
    BY <1>1, NoCallFits DEF InFlight
  <2>2. IsFiniteSet(InFlight(v)) /\ Cardinality(InFlight(v)) = 0
    BY <2>1, FS_EmptySet
  <2>3. Cardinality(Active(v)) = IF Active(v) = {} THEN 0 ELSE 1
    BY <1>7, ActiveCount DEF OneActive
  <2>4. Held(v) = Total
    BY <1>0, <1>2, <1>6, <2>2, <2>3 DEF Held
  <2> QED
    BY <1>0, <2>2, <2>4 DEF MoneyKept
<1>9. ASSUME NEW v \in secured \ misled PROVE Stands(v)
  <2>1. v \in Validators /\ consult[v][1] = "waiting_owner_response" /\ v \in holders
    BY <1>1, <1>2
  <2>2. kase.cycle = 1 /\ kase.escrow = None /\ kase.status # "completed"
    BY <1>1, CaseInitially
  <2>3. Engaged(v)
    BY <2>1, <2>2 DEF Engaged
  <2>4. \A g \in Calls : call[g].pc = "idle"
    BY <1>1, NoCallFits
  <2> QED
    BY <1>6, <2>1, <2>3, <2>4 DEF Stands
<1> QED
  BY <1>3, <1>4, <1>5, <1>7, <1>8, <1>9 DEF GuaranteeInv

LEMMA GuaranteeStep == GuaranteeInv /\ [Next]_vars => GuaranteeInv'
<1> SUFFICES ASSUME GuaranteeInv, [Next]_vars PROVE GuaranteeInv'
  OBVIOUS
<1>1. CASE WorkflowNext /\ UNCHANGED guaranteeVars /\ UpdateSecured
  BY <1>1, WorkflowBeside
<1>2. CASE GuaranteeService /\ UpdateSecured
  BY <1>2, GuaranteeServiceKept
<1>3. CASE UNCHANGED vars
  <2>1. /\ UNCHANGED <<kase, consult, offer, artifactRow, stake, transfer, opened, notices, req, left, raced, peeked>>
        /\ UNCHANGED <<guarantee, wallet, call, faults, doubtful, secured, misled>>
    BY <1>3 DEF vars, workflowVars, guaranteeVars
  <2>2. TypeOK /\ WorkflowInv /\ WorkflowTypeOK /\ TransfersSound
    BY DEF GuaranteeInv, WorkflowInv
  <2>3. WorkflowTypeOK' /\ TransfersSound' /\ Keeps
    BY <2>1, <2>2 DEF WorkflowTypeOK, TransfersSound, Keeps, Taken, SeenReleased
  <2>4. WorkflowInv'
    BY <2>1, <2>2, <2>3, ElsewhereKept
  <2>5. TypeOK'
    BY <2>1, <2>2, <2>3 DEF TypeOK
  <2>6. CallsSound' /\ OneActive' /\ \A v \in Validators : MoneyKept(v)'
    BY <2>1 DEF GuaranteeInv, CallsSound, OneActive, MoneyKept, Held, InFlight, Active
  <2>7. ~raced => \A v \in secured \ misled : Stands(v)'
    BY <2>1 DEF GuaranteeInv, Stands, Engaged, Active
  <2> QED
    BY <2>1, <2>4, <2>5, <2>6, <2>7 DEF GuaranteeInv
<1> QED
  BY <1>1, <1>2, <1>3 DEF Next

\* GuaranteeInv is an invariant of the two services.
THEOREM GuaranteeInvariance == Spec => []GuaranteeInv
<1>1. Init => GuaranteeInv
  BY GuaranteeInitially
<1>2. GuaranteeInv /\ [Next]_vars => GuaranteeInv'
  BY GuaranteeStep
<1> QED
  BY <1>1, <1>2, PTL DEF Spec

\* However the requests of owner, validators and feature service overlap, the
\* accepted offer is one that was claimed in this cycle, and as long as no
\* handler overwrites a row it has not read, the links of the case agree
\* (AcceptFinalOffer, ConfirmLockFunds, SettleDisputeInternalByTransferID).
THEOREM LinksAlwaysAgree == Spec => []LinksAgree
<1>1. GuaranteeInv => LinksAgree
  BY DEF GuaranteeInv, WorkflowInv, Claimed, Linked, LinksAgree, SeenReleased
<1> QED
  BY <1>1, GuaranteeInvariance, PTL

\* Whatever credits fail and however late or lost the feature service's calls
\* are, no case is completed or certified but for a transfer that is released
\* for good, or that a MarkEscrowReleased has found released while the credit of
\* ReleaseTransferAsync or of the worker was outstanding.
THEOREM CompletedReleased == Spec => []CompletedIsReleased
<1>1. GuaranteeInv => CompletedIsReleased
  BY DEF GuaranteeInv, WorkflowInv, Linked, CompletedIsReleased, SeenReleased
<1> QED
  BY <1>1, GuaranteeInvariance, PTL

\* At most one offer is accepted in a cycle (the conditional update of
\* AcceptFinalOffer).
THEOREM OneAccepted == Spec => []OneAcceptedPerCycle
<1>1. GuaranteeInv => OneAcceptedPerCycle
  <2> SUFFICES ASSUME GuaranteeInv, ~raced, NEW c \in Cycles
               PROVE  Cardinality({v \in Validators : Taken(v, c)}) <= 1
    BY DEF OneAcceptedPerCycle
  <2> DEFINE S == {v \in Validators : Taken(v, c)}
  <2>1. \A v, w \in S : v = w
    BY DEF GuaranteeInv, WorkflowInv, Cycled
  <2>2. CASE S = {}
    <3>1. Cardinality(S) = 0
      BY <2>2, FS_EmptySet
    <3> QED
      BY <3>1
  <2>3. CASE S # {}
    <3>1. PICK v \in S : TRUE
      BY <2>3
    <3> HIDE DEF S
    <3>2. S = {v}
      BY <2>1, <3>1
    <3>3. Cardinality(S) = 1
      BY <3>2, FS_Singleton
    <3> QED
      BY <3>3 DEF S
  <2> QED
    BY <2>2, <2>3
<1> QED
  BY <1>1, GuaranteeInvariance, PTL

\* A validator engaged in a case keeps the guarantee it was engaged with until
\* the escrow is settled and its credit made, whatever ReleaseGuaranteeAsync
\* calls are in flight and whatever credits fail, unless such a call has looked
\* the transfer up while a credit that may yet be undone was outstanding.
THEOREM GuaranteeAlwaysStands == Spec => []GuaranteeStands
<1>1. GuaranteeInv => GuaranteeStands
  BY DEF GuaranteeInv, GuaranteeStands, Stands
<1> QED
  BY <1>1, GuaranteeInvariance, PTL

\* No interleaving of SetGuaranteeAsync and ReleaseGuaranteeAsync makes money,
\* and none loses any unless a call fails or a process dies.
THEOREM MoneyAlwaysKept == Spec => []GuaranteeMoneyKept
<1>1. GuaranteeInv => GuaranteeMoneyKept
  BY DEF GuaranteeInv, GuaranteeMoneyKept, MoneyKept
<1> QED
  BY <1>1, GuaranteeInvariance, PTL


=============================================================================
