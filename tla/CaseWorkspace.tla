--------------------------- MODULE CaseWorkspace ---------------------------
(***************************************************************************)
(* backend/services/validation_case_repo_workflow_service.go and the       *)
(* create, update and delete handlers of validation_case_service_ent.go:   *)
(* the Evidence Validation Workspace of one case.  All workflow state is   *)
(* one JSON document in the column meta.  A handler loads it, checks it,   *)
(* may call the feature service, and then overwrites it by the case's id,  *)
(* with no version check, so what another handler saved in between is      *)
(* lost.  A request that is refused changes nothing and is not a step.     *)
(***************************************************************************)
EXTENDS Naturals, FiniteSets

CONSTANTS
    Owner,         \* the user id of the owner
    Validators,    \* the user ids of the others
    Staked,        \* validators whose guarantee reaches the required stake
    Requests,      \* slots of concurrent requests
    Bounty,        \* the BountyAmount of the case when it is created
    BountyEdits,   \* the amounts the owner may ask for later
    OtherBounty,   \* what the owner's other order reserves
    Metas,         \* documents the owner's client may send of its own making
    MinUploads,    \* repoMinimumValidatorUploads
    MaxRequests,   \* bound: requests made
    MaxFaults      \* bound: calls that fail and requests that die

ASSUME WorkspaceAssumption ==
    /\ Owner \in Nat /\ Validators \subseteq Nat /\ Owner \notin Validators
    /\ IsFiniteSet(Validators)
    /\ Staked \subseteq Validators
    /\ Bounty \in Nat \ {0} /\ BountyEdits \subseteq Nat \ {0}
    /\ OtherBounty \in Nat \ {0} /\ MinUploads \in Nat \ {0}
    /\ MaxRequests \in Nat /\ MaxFaults \in Nat

Users == Validators \cup {Owner}

VARIABLES
    exists,      \* the row of the case is in the database
    status,      \* ValidationCase.Status
    doc,         \* ValidationCase.Meta
    amount,      \* ValidationCase.BountyAmount
    bounty,      \* [Orders -> ], what the feature service did with each order
    paid,        \* [Orders -> [Validators -> Nat]], what the case paid from it
    shared,      \* [Users -> SUBSET Users], readers of each user's file
    req,         \* the request each slot runs
    begun,
    faults,
    chosen,      \* history: validators the owner assigned, or named so in a meta
    uploaded,    \* history: validators with an output they or the owner's meta listed
    distributed, \* history: orders this case was paid from
    unpaid,      \* history: orders answered as distributed, which paid nothing
    claimed,     \* history: a meta of the owner said the case is finalised or paid
    overwrote    \* history: a request wrote over another's change, or a meta of
                 \* the owner named readers or files nothing was shared for

vars == <<exists, status, doc, amount, bounty, paid, shared, req, begun, faults,
          chosen, uploaded, distributed, unpaid, claimed, overwrote>>
caseVars == <<exists, status, doc, amount>>
serviceVars == <<bounty, paid, shared>>
answers == <<distributed, unpaid>>
history == <<chosen, uploaded, answers, claimed, overwrote>>

-----------------------------------------------------------------------------
(* The document.  Each user has one file; validators' are outputs, the     *)
(* owner's is a readme, task input or sensitive context.                   *)

\* No confidence vote of the user.
NoVote == Owner

Nothing == [v \in Validators |-> 0]

\* The order of this case's bounty, and any other order the owner has.
Orders == {"own", "other"}

(***************************************************************************)
(* workspace  workflow_family names the workspace, or nothing              *)
(* order      whose bounty_reserve_order_id the document has, with         *)
(*            bounty_reserve_status = reserved.  These two keys are what   *)
(*            loadRepoMetaState reads.  mergeRepoMeta never writes them:   *)
(*            they are there when a meta of the client had them, and stay  *)
(* files      rows of repo_files for each user's document                  *)
(***************************************************************************)
Documents ==
    [workspace : BOOLEAN, order : Orders \cup {"none"},
     stage : {"ready", "in_review", "finalized"},
     applicants : SUBSET Validators, assigned : SUBSET Validators,
     files : [Users -> Nat], votes : [Users -> Users],
     payout : [Validators -> Nat]]

ASSUME MetasAssumption == Metas \subseteq Documents

\* defaultRepoMetaState: what a meta without workflow fields loads as.
PlainDoc ==
    [workspace |-> TRUE, order |-> "none", stage |-> "ready", applicants |-> {},
     assigned |-> {}, files |-> [u \in Users |-> 0],
     votes |-> [u \in Users |-> NoVote], payout |-> Nothing]

\* The document CreateValidationCase makes of the client's meta: all fields of
\* the workspace are replaced, the two keys of the order are not among them.
CreatedDoc(order, bootstrap) ==
    [PlainDoc EXCEPT !.order = order, !.files[Owner] = bootstrap]

\* Mutant: every assigned validator is eligible.
UploadersAssigned(d) == d.assigned

\* activeValidatorOutputCounts: assigned validators with an output.
Uploaders(d) == {v \in d.assigned : d.files[v] > 0}

\* normalizeConfidenceVotes: votes for others than valid are dropped.
NormalizeVotes(votes, valid) ==
    [u \in Users |-> IF votes[u] \in valid THEN votes[u] ELSE NoVote]

Votes(d, v) == Cardinality({u \in Users : d.votes[u] = v})

\* The uploaders with the most votes.
Winners(d) == {v \in Uploaders(d) : \A w \in Uploaders(d) : Votes(d, w) <= Votes(d, v)}

\* splitAmountEvenly: the remainder goes to the first in the order of ids.
SplitAmountEvenly(total, winners) ==
    [v \in Validators |->
        IF v \notin winners THEN 0
        ELSE (total \div Cardinality(winners))
             + (IF Cardinality({w \in winners : w < v}) < total % Cardinality(winners)
                THEN 1 ELSE 0)]

\* workspaceFileShareTargets: who may read u's file.
ShareTargets(d, u) == (IF u = Owner THEN d.assigned ELSE d.assigned \cup {Owner}) \ {u}

-----------------------------------------------------------------------------

(***************************************************************************)
(* reserve     created the row, about to reserve the bounty                *)
(* discard     creation failed, about to delete the row                    *)
(* share       about to set the readers of the file of who                 *)
(* distribute  about to pay the winners                                    *)
(* save        about to overwrite the document with doc                    *)
(* amount: the total a finalisation pays, the bounty an update sets, or 0  *)
(***************************************************************************)
Pcs == {"idle", "reserve", "discard", "share", "distribute", "save"}
Ops == {"none", "create", "update", "bounty", "attach", "publish", "apply",
        "assign", "vote", "finalize"}

Idle == [pc |-> "idle", op |-> "none", doc |-> PlainDoc, who |-> Owner,
         amount |-> 0, overtaken |-> FALSE]

TypeOK ==
    /\ exists \in BOOLEAN
    /\ status \in {"none", "open", "completed"}
    /\ doc \in Documents /\ amount \in Nat
    /\ bounty \in [Orders -> {"none", "reserved", "captured"}]
    /\ paid \in [Orders -> [Validators -> Nat]]
    /\ shared \in [Users -> SUBSET Users]
    /\ req \in [Requests -> [pc : Pcs, op : Ops, doc : Documents, who : Users,
                             amount : Nat, overtaken : BOOLEAN]]
    /\ begun \in Nat /\ faults \in Nat
    /\ chosen \subseteq Validators /\ uploaded \subseteq Validators
    /\ distributed \subseteq Orders /\ unpaid \subseteq Orders
    /\ claimed \in BOOLEAN /\ overwrote \in BOOLEAN

Init ==
    /\ exists = FALSE
    /\ status = "none"
    /\ doc = PlainDoc
    /\ amount = Bounty
    /\ bounty = [o \in Orders |-> "none"]
    /\ paid = [o \in Orders |-> Nothing]
    /\ shared = [u \in Users |-> {}]
    /\ req = [q \in Requests |-> Idle]
    /\ begun = 0 /\ faults = 0
    /\ chosen = {} /\ uploaded = {} /\ distributed = {} /\ unpaid = {}
    /\ claimed = FALSE /\ overwrote = FALSE

Fault == faults < MaxFaults /\ faults' = faults + 1

\* A request passed its checks; its document is d and its next call is at pc.
Begin(q, op, who, pc, d, a) ==
    /\ req[q].pc = "idle" /\ begun < MaxRequests
    /\ begun' = begun + 1
    /\ req' = [req EXCEPT ![q] = [pc |-> pc, op |-> op, doc |-> d, who |-> who,
                                  amount |-> a, overtaken |-> FALSE]]
    /\ UNCHANGED faults

Goto(q, pc) == req' = [req EXCEPT ![q].pc = pc]

Return(q) == req' = [req EXCEPT ![q] = Idle]

\* Request q has replaced the row the requests in flight loaded.
ReturnOvertaking(q) ==
    req' = [p \in Requests |->
               IF p = q THEN Idle
               ELSE [req[p] EXCEPT !.overtaken = req[p].pc # "idle"]]

\* Request q writes from a document that was replaced, or while another request
\* has shared a file and not saved yet.
Conflicts(q) ==
    \/ req[q].overtaken
    \/ \E p \in Requests \ {q} : req[p].pc = "save" /\ req[p].op \in {"attach", "assign"}

\* getValidationCase and the check every handler but PublishRepoCase makes.
Open == exists /\ doc.workspace /\ doc.stage # "finalized"

-----------------------------------------------------------------------------
(* The handlers up to their first call of another service, or the save.    *)

\* CreateValidationCase inserts the row, which other requests then see.  The
\* client's meta may name any order; that of the case only if it guessed the id.
CreateValidationCase(q, order, bootstrap) ==
    /\ ~exists /\ bounty["own"] = "none" /\ begun = 0
    /\ Begin(q, "create", Owner, "reserve", CreatedDoc(order, bootstrap), 0)
    /\ exists' = TRUE
    /\ status' = "open"
    /\ doc' = CreatedDoc(order, bootstrap)
    /\ UNCHANGED <<amount, serviceVars, history>>

\* What the owner's meta says of the case that its document did not.
ClaimsPayment(meta) ==
    \/ meta.stage = "finalized" /\ doc.stage # "finalized"
    \/ meta.payout \notin {Nothing, doc.payout}

NamesReaders(meta) ==
    \/ ~(meta.assigned \subseteq doc.assigned)
    \/ meta.files[Owner] > 0 /\ doc.files[Owner] = 0

\* UpdateValidationCase replaces meta by the client's, whatever it says, and
\* may set the bounty (a > 0) of an open case that is not in the workspace.
UpdateValidationCase(q, meta, a) ==
    /\ exists
    /\ a > 0 => ~doc.workspace /\ status = "open"
    /\ Begin(q, "update", Owner, "save", meta, a)
    /\ chosen' = chosen \cup meta.assigned
    /\ uploaded' = uploaded \cup {v \in Validators : meta.files[v] > 0}
    /\ claimed' = (claimed \/ ClaimsPayment(meta))
    /\ overwrote' = (overwrote \/ NamesReaders(meta))
    /\ UNCHANGED <<caseVars, serviceVars, answers>>

\* UpdateValidationCase without a meta leaves the document alone.
UpdateBounty(q, a) ==
    /\ exists /\ ~doc.workspace /\ status = "open"
    /\ Begin(q, "bounty", Owner, "save", doc, a)
    /\ UNCHANGED <<caseVars, serviceVars, history>>

\* AttachRepoFile: a document already attached is not attached again.
AttachRepoFile(q, u) ==
    /\ Open
    /\ u = Owner \/ u \in doc.assigned
    /\ doc.files[u] = 0
    /\ Begin(q, "attach", u, "share", [doc EXCEPT !.files[u] = @ + 1], 0)
    /\ uploaded' = uploaded \cup ({u} \ {Owner})
    /\ UNCHANGED <<caseVars, serviceVars, chosen, answers, claimed, overwrote>>

\* PublishRepoCase does not look at the stage.
PublishRepoCase(q) ==
    /\ exists /\ doc.workspace
    /\ Begin(q, "publish", Owner, "save", [doc EXCEPT !.stage = "ready"], 0)
    /\ UNCHANGED <<caseVars, serviceVars, history>>

ApplyForRepoValidation(q, v) ==
    /\ Open
    /\ v \in Staked \ (doc.applicants \cup doc.assigned)
    /\ Begin(q, "apply", Owner, "save", [doc EXCEPT !.applicants = @ \cup {v}], 0)
    /\ UNCHANGED <<caseVars, serviceVars, history>>

\* AssignRepoValidators: of the ids given, filtered are applicants or
\* assigned.  The owner's file is shared again before the save.
AssignRepoValidators(q, filtered) ==
    /\ Open
    /\ filtered # {}
    /\ filtered \subseteq (doc.applicants \cup doc.assigned) \cap Staked
    /\ LET assigned == doc.assigned \cup filtered
       IN  Begin(q, "assign", Owner,
                 IF doc.files[Owner] > 0 THEN "share" ELSE "save",
                 [doc EXCEPT !.assigned = assigned,
                             !.stage = "in_review",
                             !.votes = NormalizeVotes(@, assigned),
                             !.applicants = @ \ assigned], 0)
    /\ chosen' = chosen \cup filtered
    /\ UNCHANGED <<caseVars, serviceVars, uploaded, answers, claimed, overwrote>>

\* VoteRepoValidatorConfidence: one vote per voter, the latest one.
VoteRepoValidatorConfidence(q, voter, v) ==
    /\ Open
    /\ voter # v
    /\ v \in doc.assigned
    /\ Begin(q, "vote", Owner, "save",
             [doc EXCEPT !.votes = [NormalizeVotes(@, doc.assigned) EXCEPT ![voter] = v]], 0)
    /\ UNCHANGED <<caseVars, serviceVars, history>>

\* FinalizeRepoCase up to the call that pays the winners.
FinalizeRepoCase(q) ==
    /\ Open
    /\ Cardinality(Uploaders(doc)) >= MinUploads
    /\ doc.order # "none"
    /\ Begin(q, "finalize", Owner, "distribute",
             [doc EXCEPT !.stage = "finalized", !.payout = SplitAmountEvenly(amount, Winners(doc))],
             amount)
    /\ UNCHANGED <<caseVars, serviceVars, history>>

\* DeleteValidationCase, one transaction.  The bounty is not released.
DeleteValidationCase ==
    /\ exists
    /\ exists' = FALSE
    /\ status' = "none"
    /\ doc' = PlainDoc
    /\ req' = [p \in Requests |-> [req[p] EXCEPT !.overtaken = req[p].pc # "idle"]]
    /\ UNCHANGED <<amount, serviceVars, begun, faults, history>>

-----------------------------------------------------------------------------
(* The calls of the feature service, modelled by what they promise.  A     *)
(* call that fails may have taken effect.                                  *)

\* ReserveMarketPurchase of the order of this case.
Reserve(q) ==
    LET reserved == bounty' = [bounty EXCEPT !["own"] = "reserved"]
    IN  /\ req[q].pc = "reserve"
        /\ \/ reserved /\ Goto(q, "save") /\ UNCHANGED faults
           \/ UNCHANGED <<bounty, faults>> /\ Goto(q, "discard")
           \/ reserved /\ Goto(q, "discard") /\ Fault
        /\ UNCHANGED <<caseVars, paid, shared, begun, history>>

\* What the owner, or another case that names the order, does with it: reserves
\* the other one, and releases, captures or distributes either.
UseOrder(o) ==
    /\ \/ o = "other" /\ bounty[o] = "none" /\ bounty' = [bounty EXCEPT ![o] = "reserved"]
       \/ /\ bounty[o] = "reserved"
          /\ bounty' \in {[bounty EXCEPT ![o] = s] : s \in {"none", "captured"}}
    /\ UNCHANGED <<caseVars, paid, shared, req, begun, faults, history>>

\* Mutant: sharing is best effort.
ShareBestEffort(q) ==
    /\ req[q].pc = "share"
    /\ \/ /\ shared' = [shared EXCEPT ![req[q].who] = ShareTargets(req[q].doc, req[q].who)]
          /\ UNCHANGED faults
       \/ UNCHANGED shared /\ Fault
    /\ Goto(q, "save")
    /\ overwrote' = (overwrote \/ Conflicts(q))
    /\ UNCHANGED <<caseVars, bounty, paid, begun, chosen, uploaded, answers, claimed>>

\* updateWorkspaceDocumentSharing: the document's readers are replaced.
Share(q) ==
    LET targets == [shared EXCEPT ![req[q].who] = ShareTargets(req[q].doc, req[q].who)]
    IN  /\ req[q].pc = "share"
        /\ \/ shared' = targets /\ Goto(q, "save") /\ UNCHANGED faults
           \/ shared' \in {shared, targets} /\ Return(q) /\ Fault
        /\ overwrote' = (overwrote \/ Conflicts(q))
        /\ UNCHANGED <<caseVars, bounty, paid, begun, chosen, uploaded, answers, claimed>>

\* What each order reserves.
Reserved == [o \in Orders |-> IF o = "own" THEN Bounty ELSE OtherBounty]

\* The order is reserved for just the total of the request.
Payable(q, o) == bounty[o] = "reserved" /\ req[q].amount = Reserved[o]

\* The distribution of a payable order: the winners are paid.
PayWinners(q, o) ==
    /\ Payable(q, o)
    /\ bounty' = [bounty EXCEPT ![o] = "captured"]
    /\ paid' = [paid EXCEPT ![o] = req[q].doc.payout]
    /\ distributed' = distributed \cup {o}
    /\ UNCHANGED unpaid

\* Mutant: the case is finalised although the distribution failed.
DistributeBestEffort(q) ==
    /\ req[q].pc = "distribute"
    /\ \/ PayWinners(q, req[q].doc.order) /\ UNCHANGED faults
       \/ UNCHANGED <<bounty, paid, answers>> /\ Fault
    /\ Goto(q, "save")
    /\ UNCHANGED <<caseVars, shared, begun, chosen, uploaded, claimed, overwrote>>

\* DistributeMarketPurchase of the order the document names: pays it when it is
\* reserved for the same total, answers success without paying when someone has
\* captured it, and else refuses.
Distribute(q) ==
    LET o == req[q].doc.order
    IN  /\ req[q].pc = "distribute"
        /\ \/ PayWinners(q, o) /\ Goto(q, "save") /\ UNCHANGED faults
           \/ PayWinners(q, o) /\ Return(q) /\ Fault
           \/ /\ bounty[o] = "captured" /\ unpaid' = unpaid \cup {o}
              /\ Goto(q, "save")
              /\ UNCHANGED <<bounty, paid, distributed, faults>>
           \/ /\ bounty[o] # "captured" /\ ~Payable(q, o) /\ Return(q)
              /\ UNCHANGED <<bounty, paid, answers, faults>>
           \/ Return(q) /\ Fault /\ UNCHANGED <<bounty, paid, answers>>
        /\ UNCHANGED <<caseVars, shared, begun, chosen, uploaded, claimed, overwrote>>

-----------------------------------------------------------------------------
(* The last step of a handler.                                             *)

\* UpdateOneID(id).SetMeta(meta): the whole document is replaced.
Save(q) ==
    /\ req[q].pc = "save" /\ req[q].op # "bounty" /\ exists
    /\ doc' = req[q].doc
    /\ status' = CASE req[q].op = "publish"  -> "open"
                   [] req[q].op = "finalize" -> "completed"
                   [] OTHER                  -> status
    /\ amount' = IF req[q].op = "update" /\ req[q].amount > 0 THEN req[q].amount ELSE amount
    /\ overwrote' = (overwrote \/ Conflicts(q))
    /\ ReturnOvertaking(q)
    /\ UNCHANGED <<exists, serviceVars, begun, faults, chosen, uploaded, answers, claimed>>

\* UpdateOneID(id).SetBountyAmount(amount), without a meta.
SaveBounty(q) ==
    /\ req[q].pc = "save" /\ req[q].op = "bounty" /\ exists
    /\ amount' = req[q].amount
    /\ Return(q)
    /\ UNCHANGED <<exists, status, doc, serviceVars, begun, faults, history>>

\* The save fails, or finds no row.  Only CreateValidationCase reacts.
SaveFails(q) ==
    /\ req[q].pc = "save"
    /\ IF exists THEN Fault ELSE UNCHANGED faults
    /\ IF req[q].op = "create" THEN Goto(q, "discard") ELSE Return(q)
    /\ UNCHANGED <<caseVars, serviceVars, begun, history>>

\* CreateValidationCase deletes the row of a case it could not complete, and
\* ignores an error of that.
Discard(q) ==
    /\ req[q].pc = "discard"
    /\ \/ /\ exists' = FALSE /\ status' = "none" /\ doc' = PlainDoc
          /\ ReturnOvertaking(q)
          /\ UNCHANGED <<amount, faults>>
       \/ UNCHANGED caseVars /\ Return(q) /\ Fault
    /\ UNCHANGED <<serviceVars, begun, history>>

\* The process dies with the request, or the request's context ends.
Crash(q) ==
    /\ req[q].pc # "idle"
    /\ Fault
    /\ Return(q)
    /\ UNCHANGED <<caseVars, serviceVars, begun, history>>

-----------------------------------------------------------------------------

\* A client sends what it read, with any order it likes, or a meta of its own.
ClientMetas == Metas \cup {[doc EXCEPT !.order = o] : o \in Orders \cup {"none"}}

Handle(q) ==
    \/ \E order \in Orders \cup {"none"}, bootstrap \in {0, 1} :
          CreateValidationCase(q, order, bootstrap)
    \/ \E meta \in ClientMetas, a \in BountyEdits \cup {0} : UpdateValidationCase(q, meta, a)
    \/ \E a \in BountyEdits : UpdateBounty(q, a)
    \/ \E u \in Users : AttachRepoFile(q, u)
    \/ PublishRepoCase(q)
    \/ \E v \in Validators : ApplyForRepoValidation(q, v)
    \/ \E filtered \in SUBSET Validators : AssignRepoValidators(q, filtered)
    \/ \E voter \in Users, v \in Validators : VoteRepoValidatorConfidence(q, voter, v)
    \/ FinalizeRepoCase(q)
    \/ Reserve(q) \/ Share(q) \/ Distribute(q)
    \/ Save(q) \/ SaveBounty(q) \/ SaveFails(q) \/ Discard(q) \/ Crash(q)

Next ==
    \/ DeleteValidationCase
    \/ \E o \in Orders : UseOrder(o)
    \/ \E q \in Requests : Handle(q)

Spec == Init /\ [][Next]_vars

-----------------------------------------------------------------------------
(* Properties.                                                             *)

\* A case is completed, and unless its owner's meta said so its document is
\* finalised, only when the order it named was paid out: to its winners, or
\* by another use of that order which the service answers as success.
\* FinalizeRepoCase saves after the distribution, and no document that is
\* written over another brings the stage back before it.
FinalizedIsPaid ==
    status = "completed" \/ (doc.stage = "finalized" /\ ~claimed)
        => \E o \in distributed \cup unpaid : bounty[o] = "captured"

\* Whoever the case paid was named by the owner, in an assignment or in a
\* meta, and had an output, attached by them or listed in a meta of the owner;
\* whatever documents were overwritten and whichever order is paid
\* (FinalizeRepoCase pays by the document it loaded).
WinnersEarnedIt ==
    \A o \in Orders, v \in Validators : paid[o][v] > 0 => v \in chosen /\ v \in uploaded

\* The payout the document records is a payment that was made, unless the
\* service answered a distribution that paid nothing (FinalizeRepoCase retried
\* after a failed save, or an order somebody else had used) or a meta of the
\* owner brought a payout along.
RecordedPayoutIsPaid ==
    ~claimed /\ unpaid = {} /\ doc.payout # Nothing
        => \E o \in distributed : doc.payout = paid[o]

\* As long as no request wrote over another's change and no meta of the owner
\* named readers or files by itself, every assigned validator can read the
\* owner's file, failed calls included: a file is shared before the document
\* that needs it is saved (syncWorkspaceFileSharing).
AssignedCanRead ==
    ~overwrote /\ doc.files[Owner] > 0 => doc.assigned \subseteq shared[Owner]

=============================================================================
