------------------------ MODULE CaseWorkspaceProofs ------------------------
(***************************************************************************)
(* The payment of a case is right for any validators, any number of        *)
(* requests in flight and any failures: FinalizedIsPaid, WinnersEarnedIt,  *)
(* RecordedPayoutIsPaid and AssignedCanRead follow from one inductive      *)
(* invariant.                                                              *)
(***************************************************************************)
EXTENDS CaseWorkspace, FiniteSetTheorems, TLAPS

-----------------------------------------------------------------------------
(***************************************************************************)
(* The inductive invariant. Any document a request carries may be saved    *)
(* over any other, so what holds of the document must hold of every copy   *)
(* in flight; only the copy of a request about to pay is ahead of the      *)
(* payment.                                                                *)
(***************************************************************************)

\* Who is assigned or has an output in d came by it, or the owner said so.
Earned(d) ==
    /\ d.assigned \subseteq chosen
    /\ \A v \in Validators : d.files[v] > 0 => v \in uploaded

\* A payout that goes to such validators, from an order.
ToPay(d) ==
    /\ d.order \in Orders
    /\ \A v \in Validators : d.payout[v] > 0 => v \in chosen /\ v \in uploaded

AllEarned ==
    /\ Earned(doc) /\ \A q \in Requests : Earned(req[q].doc)
    /\ \A q \in Requests : req[q].pc = "distribute" => ToPay(req[q].doc)
    /\ WinnersEarnedIt

\* One request creates the case, and reserves before its order is used.
OneCreator ==
    /\ begun = 0 => \A q \in Requests : req[q].pc = "idle"
    /\ \A q \in Requests : req[q].pc = "reserve" => bounty["own"] = "none"
    /\ \A p, q \in Requests : req[p].pc = "reserve" /\ req[q].pc = "reserve" => p = q

\* Some distribution has been answered with success.
Answered == distributed \cup unpaid # {}

\* What only that answer, or the owner's own meta, may say.
Final(d) == d.stage = "finalized" /\ ~claimed

AllFinalizedArePaid ==
    /\ \A o \in distributed \cup unpaid : bounty[o] = "captured"
    /\ status = "completed" \/ Final(doc) => Answered
    /\ \A q \in Requests :
          req[q].pc # "distribute" /\ (Final(req[q].doc) \/ req[q].op = "finalize") => Answered

\* d records no payout, or one that was paid.
Matches(d) == d.payout = Nothing \/ \E o \in distributed : d.payout = paid[o]

AllPayoutsMatch ==
    ~claimed /\ unpaid = {} =>
        /\ Matches(doc)
        /\ \A q \in Requests : req[q].pc # "distribute" => Matches(req[q].doc)

IInv == TypeOK /\ AllEarned /\ OneCreator /\ AllFinalizedArePaid /\ AllPayoutsMatch

(***************************************************************************)
(* What AssignedCanRead needs: the readers of the owner's file cover the   *)
(* document and every copy of it that has not been overtaken, but for the  *)
(* copies whose request is about to share that file.                       *)
(***************************************************************************)
Readable(d) == d.files[Owner] > 0 => d.assigned \subseteq shared[Owner]

\* What the copy of q has to do with the document it was loaded from.
Loaded(q) ==
    LET r == req[q] IN
    r.pc # "idle" /\ ~r.overtaken =>
        /\ r.pc = "share" => r.op \in {"attach", "assign"}
        /\ r.op \in {"attach", "assign"} => r.pc \in {"share", "save"}
        /\ r.op = "attach" => r.doc.assigned = doc.assigned
        /\ r.op = "assign" => doc.assigned \subseteq r.doc.assigned /\ r.who = Owner
        /\ r.op \notin {"attach", "assign"} => r.doc.assigned \subseteq doc.assigned
        /\ Readable(r.doc) \/ (r.pc = "share" /\ r.who = Owner)

AllCanRead == ~overwrote => Readable(doc) /\ \A q \in Requests : Loaded(q)

-----------------------------------------------------------------------------
(* The documents.                                                          *)

LEMMA OwnerApart == Owner \in Users /\ Validators \subseteq Users /\ Owner \notin Validators
BY WorkspaceAssumption DEF Users

LEMMA NothingType == Nothing \in [Validators -> Nat]
BY DEF Nothing

\* The document of a meta without workflow fields is earned, unpaid and open.
LEMMA PlainDocFits ==
  /\ PlainDoc \in Documents
  /\ Earned(PlainDoc) /\ Earned(PlainDoc)'
  /\ PlainDoc.stage = "ready"
  /\ PlainDoc.payout = Nothing
<1>1. PlainDoc \in Documents
  BY OwnerApart, NothingType DEF PlainDoc, Documents, NoVote
<1>2. QED
  BY <1>1, OwnerApart DEF PlainDoc, Earned, Nothing, Documents

Request ==
  [pc : Pcs, op : Ops, doc : Documents, who : Users, amount : Nat, overtaken : BOOLEAN]

LEMMA IdleFits ==
  Idle \in Request /\ Idle.doc = PlainDoc /\ Idle.pc = "idle" /\ Idle.op = "none"
BY PlainDocFits, OwnerApart DEF Idle, Request, Pcs, Ops

\* splitAmountEvenly gives natural shares, and only to winners.
LEMMA SplitFits ==
  ASSUME NEW total \in Nat, NEW winners \in SUBSET Validators
  PROVE  /\ SplitAmountEvenly(total, winners) \in [Validators -> Nat]
         /\ \A v \in Validators : SplitAmountEvenly(total, winners)[v] > 0 => v \in winners
<1>1. SUFFICES ASSUME NEW v \in winners
               PROVE  (total \div Cardinality(winners))
                       + (IF Cardinality({w \in winners : w < v}) < total % Cardinality(winners)
                          THEN 1 ELSE 0) \in Nat
  BY DEF SplitAmountEvenly
<1>2. IsFiniteSet(winners)
  BY WorkspaceAssumption, FS_Subset
<1>3. Cardinality(winners) \in Nat /\ Cardinality(winners) # 0
  BY <1>2, FS_CardinalityType, FS_EmptySet
<1>4. total \div Cardinality(winners) \in Nat
  BY <1>3
<1>5. QED
  BY <1>4

-----------------------------------------------------------------------------
(* The initial states.                                                     *)

LEMMA InitInv == Init => IInv
<1> SUFFICES ASSUME Init PROVE IInv
  OBVIOUS
<1>3. TypeOK
  <2>1. exists \in BOOLEAN /\ overwrote \in BOOLEAN /\ claimed \in BOOLEAN
    BY Zenon DEF Init
  <2>2. req \in [Requests -> Request]
    BY IdleFits DEF Init
  <2>3. doc \in Documents /\ amount \in Nat /\ paid \in [Orders -> [Validators -> Nat]]
    BY PlainDocFits, NothingType, WorkspaceAssumption DEF Init
  <2>4. shared \in [Users -> SUBSET Users]
    BY DEF Init
  <2>5. QED
    BY <2>1, <2>2, <2>3, <2>4 DEF Init, TypeOK, Request
<1>4. AllEarned
  BY PlainDocFits, IdleFits DEF Init, AllEarned, WinnersEarnedIt, Nothing
<1>5. OneCreator /\ AllFinalizedArePaid
  BY PlainDocFits, IdleFits DEF Init, OneCreator, AllFinalizedArePaid, Final, Orders
<1>6. AllPayoutsMatch
  BY PlainDocFits, IdleFits DEF Init, AllPayoutsMatch, Matches
<1>7. QED
  BY <1>3, <1>4, <1>5, <1>6 DEF IInv

-----------------------------------------------------------------------------
(* The beginning of a request.                                             *)

\* A request that begins with a document that fits and has paid nothing yet.
LEMMA BeginKeeps ==
  ASSUME IInv, NEW q \in Requests, NEW op \in Ops, NEW who \in Users,
         NEW pc \in Pcs \ {"reserve"}, NEW d \in Documents, NEW a \in Nat,
         Begin(q, op, who, pc, d, a),
         UNCHANGED <<caseVars, serviceVars, answers>>,
         chosen \subseteq chosen', chosen' \subseteq Validators,
         uploaded \subseteq uploaded', uploaded' \subseteq Validators,
         claimed' \in BOOLEAN, claimed => claimed', overwrote' \in BOOLEAN,
         Earned(d)',
         pc = "distribute" => ToPay(d)',
         pc # "distribute" => /\ op # "finalize"
                              /\ d.stage = "finalized" /\ ~claimed' => Answered
                              /\ ~claimed' /\ unpaid = {} => Matches(d)
  PROVE  IInv'
<1> DEFINE r == [pc |-> pc, op |-> op, doc |-> d, who |-> who, amount |-> a, overtaken |-> FALSE]
<1> USE DEF caseVars, serviceVars, answers
<1>1. /\ req' = [req EXCEPT ![q] = r]
      /\ begun' = begun + 1 /\ faults' = faults
  BY DEF Begin
<1>2. TypeOK'
  <2>1. r \in Request
    BY DEF Request
  <2>2. req' \in [Requests -> Request]
    BY <1>1, <2>1 DEF IInv, TypeOK, Request
  <2>3. QED
    BY <1>1, <2>2 DEF IInv, TypeOK, Request
<1>3. req'[q] = r /\ \A p \in Requests \ {q} : req'[p] = req[p]
  BY <1>1 DEF IInv, TypeOK
<1>4. AllEarned'
  <2>1. Earned(doc)' /\ WinnersEarnedIt'
    BY DEF IInv, AllEarned, Earned, WinnersEarnedIt
  <2>2. \A p \in Requests \ {q} :
          /\ Earned(req[p].doc)'
          /\ req'[p].pc = "distribute" => ToPay(req[p].doc)'
    BY <1>3 DEF IInv, AllEarned, Earned, ToPay
  <2>3. Earned(req[q].doc)' /\ (req'[q].pc = "distribute" => ToPay(req[q].doc)')
    BY <1>3 DEF Earned, ToPay
  <2>4. QED
    BY <2>1, <2>2, <2>3 DEF AllEarned
<1>5. OneCreator'
  BY <1>1, <1>2, <1>3 DEF IInv, OneCreator, TypeOK
<1>6. AllFinalizedArePaid'
  BY <1>3 DEF IInv, AllFinalizedArePaid, Final, Answered
<1>7. AllPayoutsMatch'
  BY <1>3 DEF IInv, AllPayoutsMatch, Matches
<1>8. QED
  BY <1>2, <1>4, <1>5, <1>6, <1>7 DEF IInv

OrderNames == Orders \cup {"none"}

LEMMA CreateKeeps ==
  ASSUME IInv, NEW q \in Requests, NEW order \in OrderNames, NEW bootstrap \in {0, 1},
         CreateValidationCase(q, order, bootstrap)
  PROVE  IInv'
<1> DEFINE d == CreatedDoc(order, bootstrap)
           r == [pc |-> "reserve", op |-> "create", doc |-> d, who |-> Owner,
                 amount |-> 0, overtaken |-> FALSE]
<1>1. /\ begun = 0 /\ bounty["own"] = "none"
      /\ exists' = TRUE /\ status' = "open" /\ doc' = d
      /\ req' = [req EXCEPT ![q] = r] /\ begun' = begun + 1 /\ faults' = faults
      /\ UNCHANGED <<amount, bounty, paid, shared, chosen, uploaded, distributed, unpaid,
                     claimed, overwrote>>
  BY DEF CreateValidationCase, Begin, serviceVars, history, answers
<1>2. /\ d \in Documents
      /\ d.stage = "ready" /\ d.payout = Nothing /\ d.assigned = {}
      /\ \A v \in Validators : d.files[v] = 0
  <2>1. PlainDoc.assigned = {} /\ \A u \in Users : PlainDoc.files[u] = 0
    BY DEF PlainDoc
  <2>2. d = [PlainDoc EXCEPT !.order = order, !.files[Owner] = bootstrap]
    BY DEF CreatedDoc
  <2>3. d \in Documents
    <3>1. [PlainDoc.files EXCEPT ![Owner] = bootstrap] \in [Users -> Nat]
      <4>1. bootstrap \in Nat
        OBVIOUS
      <4>2. PlainDoc.files \in [Users -> Nat]
        BY PlainDocFits DEF Documents
      <4>3. QED
        BY <4>1, <4>2
    <3>2. d = [[PlainDoc EXCEPT !.order = order]
                  EXCEPT !.files = [PlainDoc.files EXCEPT ![Owner] = bootstrap]]
      BY <2>2, PlainDocFits DEF Documents
    <3>3. QED
      BY <3>1, <3>2, PlainDocFits DEF Documents, OrderNames
  <2>4. QED
    BY <2>1, <2>2, <2>3, PlainDocFits, OwnerApart DEF Documents
<1>3. r \in Request
  BY <1>2, OwnerApart DEF Request, Pcs, Ops
<1>4. TypeOK'
  <2>1. req' \in [Requests -> Request]
    BY <1>1, <1>3 DEF IInv, TypeOK, Request
  <2>2. QED
    BY <1>1, <1>2, <2>1 DEF IInv, TypeOK, Request
<1>5. req'[q] = r /\ \A p \in Requests \ {q} : req'[p] = req[p]
  BY <1>1 DEF IInv, TypeOK
<1>6. Earned(d)'
  BY <1>2 DEF Earned
<1>7. AllEarned'
  BY <1>1, <1>5, <1>6 DEF IInv, AllEarned, Earned, ToPay, WinnersEarnedIt
<1>8. OneCreator'
  BY <1>1, <1>5 DEF IInv, OneCreator
<1>9. AllFinalizedArePaid'
  BY <1>1, <1>2, <1>5 DEF IInv, AllFinalizedArePaid, Final, Answered
<1>10. AllPayoutsMatch'
  BY <1>1, <1>2, <1>5 DEF IInv, AllPayoutsMatch, Matches
<1>11. QED
  BY <1>4, <1>7, <1>8, <1>9, <1>10 DEF IInv

LEMMA MetasFit ==
  ASSUME doc \in Documents, NEW meta \in ClientMetas
  PROVE  meta \in Documents
BY MetasAssumption DEF ClientMetas, Documents

\* Whatever meta the owner sends is vouched for by the owner.
LEMMA UpdateKeeps ==
  ASSUME IInv, NEW q \in Requests, NEW meta \in ClientMetas, NEW a \in BountyEdits \cup {0},
         UpdateValidationCase(q, meta, a)
  PROVE  IInv'
<1>1. /\ Begin(q, "update", Owner, "save", meta, a)
      /\ UNCHANGED <<caseVars, serviceVars, answers>>
      /\ chosen' = chosen \cup meta.assigned
      /\ uploaded' = uploaded \cup {v \in Validators : meta.files[v] > 0}
  BY DEF UpdateValidationCase
<1>2. claimed' = (claimed \/ ClaimsPayment(meta)) /\ claimed' \in BOOLEAN /\ overwrote' \in BOOLEAN
  BY Zenon DEF UpdateValidationCase
<1>3. meta \in Documents /\ a \in Nat
  BY MetasFit, WorkspaceAssumption DEF IInv, TypeOK
<1>4. Earned(meta)'
  BY <1>1 DEF Earned
<1>5. /\ chosen \subseteq chosen' /\ chosen' \subseteq Validators
      /\ uploaded \subseteq uploaded' /\ uploaded' \subseteq Validators
  BY <1>1, <1>3 DEF IInv, TypeOK, Documents
<1>6. ~claimed' => ~claimed /\ (meta.stage = "finalized" => doc.stage = "finalized")
                            /\ meta.payout \in {Nothing, doc.payout}
  BY <1>2 DEF ClaimsPayment
<1>7. meta.stage = "finalized" /\ ~claimed' => Answered
  BY <1>6 DEF IInv, AllFinalizedArePaid, Final
<1>8. ~claimed' /\ unpaid = {} => Matches(meta)
  BY <1>6 DEF IInv, AllPayoutsMatch, Matches
<1>9. "update" \in Ops /\ "save" \in Pcs \ {"reserve"}
  BY DEF Ops, Pcs
<1>10. claimed => claimed'
  BY <1>2
<1>11. QED
  BY <1>1, <1>2, <1>3, <1>4, <1>5, <1>7, <1>8, <1>9, <1>10, OwnerApart, BeginKeeps

LEMMA UpdateBountyKeeps ==
  ASSUME IInv, NEW q \in Requests, NEW a \in BountyEdits, UpdateBounty(q, a)
  PROVE  IInv'
<1>1. /\ Begin(q, "bounty", Owner, "save", doc, a)
      /\ UNCHANGED <<caseVars, serviceVars, answers, chosen, uploaded, claimed, overwrote>>
  BY DEF UpdateBounty, history
<1>2. /\ doc \in Documents /\ a \in Nat /\ claimed \in BOOLEAN /\ overwrote \in BOOLEAN
      /\ chosen \subseteq Validators /\ uploaded \subseteq Validators
  BY WorkspaceAssumption DEF IInv, TypeOK
<1>3. Earned(doc)'
  BY <1>1 DEF IInv, AllEarned, Earned, caseVars
<1>4. doc.stage = "finalized" /\ ~claimed => Answered
  BY DEF IInv, AllFinalizedArePaid, Final
<1>5. ~claimed /\ unpaid = {} => Matches(doc)
  BY DEF IInv, AllPayoutsMatch
<1>6. "bounty" \in Ops /\ "save" \in Pcs \ {"reserve"}
  BY DEF Ops, Pcs
<1>7. PICK d \in Documents : d = doc
  BY <1>2
<1>8. Earned(d)'
  BY <1>1, <1>3, <1>7 DEF Earned, caseVars
<1>9. QED
  BY <1>1, <1>2, <1>4, <1>5, <1>6, <1>7, <1>8, OwnerApart, BeginKeeps

\* A request that carries on with a changed copy of the document: the same
\* payout, a stage that is not final, and nothing unearned.
LEMMA CopyKeeps ==
  ASSUME IInv, NEW q \in Requests, NEW op \in Ops \ {"finalize"}, NEW who \in Users,
         NEW pc \in {"share", "save"}, NEW d \in Documents,
         Begin(q, op, who, pc, d, 0),
         UNCHANGED <<caseVars, serviceVars, answers, claimed, overwrote>>,
         chosen \subseteq chosen', chosen' \subseteq Validators,
         uploaded \subseteq uploaded', uploaded' \subseteq Validators,
         d.payout = doc.payout,
         d.stage # "finalized",
         d.assigned \subseteq chosen',
         \A v \in Validators : d.files[v] > 0 => v \in uploaded'
  PROVE  IInv'
<1>1. Earned(d)'
  BY DEF Earned
<1>2. ~claimed' /\ unpaid = {} => Matches(d)
  BY DEF IInv, AllPayoutsMatch, Matches
<1>3. pc \in Pcs \ {"reserve"} /\ pc # "distribute"
  BY DEF Pcs
<1>4. claimed' \in BOOLEAN /\ overwrote' \in BOOLEAN /\ claimed' = claimed
  BY DEF IInv, TypeOK
<1>5. QED
  BY <1>1, <1>2, <1>3, <1>4, BeginKeeps

LEMMA AttachKeeps ==
  ASSUME IInv, NEW q \in Requests, NEW u \in Users, AttachRepoFile(q, u)
  PROVE  IInv'
<1> DEFINE d == [doc EXCEPT !.files[u] = @ + 1]
<1>1. /\ Begin(q, "attach", u, "share", d, 0)
      /\ UNCHANGED <<caseVars, serviceVars, answers, claimed, overwrote>>
      /\ chosen' = chosen
      /\ uploaded' = uploaded \cup ({u} \ {Owner})
      /\ doc.stage # "finalized"
  BY DEF AttachRepoFile, Open
<1>2. doc \in Documents
  BY DEF IInv, TypeOK
<1>3. d \in Documents
  BY <1>2 DEF Documents
<1>4. /\ d.payout = doc.payout /\ d.stage = doc.stage /\ d.assigned = doc.assigned
      /\ \A v \in Users \ {u} : d.files[v] = doc.files[v]
  BY <1>2 DEF Documents
<1>5. d.assigned \subseteq chosen'
  BY <1>1, <1>4 DEF IInv, AllEarned, Earned
<1>6. \A v \in Validators : d.files[v] > 0 => v \in uploaded'
  BY <1>1, <1>4, OwnerApart DEF IInv, AllEarned, Earned
<1>7. chosen' \subseteq Validators /\ uploaded' \subseteq Validators
  BY <1>1, OwnerApart DEF IInv, TypeOK, Users
<1>8. "attach" \in Ops \ {"finalize"}
  BY DEF Ops
<1>9. uploaded \subseteq uploaded' /\ chosen \subseteq chosen'
  BY <1>1
<1> HIDE DEF d
<1>10. QED
  BY <1>1, <1>3, <1>4, <1>5, <1>6, <1>7, <1>8, <1>9, CopyKeeps

\* The handlers that only change the stage, the applicants or the votes.
LEMMA PublishKeeps ==
  ASSUME IInv, NEW q \in Requests, PublishRepoCase(q)
  PROVE  IInv'
<1> DEFINE d == [doc EXCEPT !.stage = "ready"]
<1>1. /\ Begin(q, "publish", Owner, "save", d, 0)
      /\ UNCHANGED <<caseVars, serviceVars, chosen, uploaded, answers, claimed, overwrote>>
  BY DEF PublishRepoCase, history
<1>2. /\ d \in Documents /\ d.payout = doc.payout /\ d.stage = "ready"
      /\ d.assigned = doc.assigned /\ d.files = doc.files
  BY DEF IInv, TypeOK, Documents
<1>3. /\ d.assigned \subseteq chosen'
      /\ \A v \in Validators : d.files[v] > 0 => v \in uploaded'
      /\ chosen' \subseteq Validators /\ uploaded' \subseteq Validators
  BY <1>1, <1>2 DEF IInv, AllEarned, Earned, TypeOK
<1>4. "publish" \in Ops \ {"finalize"}
  BY DEF Ops
<1> HIDE DEF d
<1>5. QED
  BY <1>1, <1>2, <1>3, <1>4, OwnerApart, CopyKeeps

LEMMA ApplyKeeps ==
  ASSUME IInv, NEW q \in Requests, NEW v \in Validators, ApplyForRepoValidation(q, v)
  PROVE  IInv'
<1> DEFINE d == [doc EXCEPT !.applicants = @ \cup {v}]
<1>1. /\ Begin(q, "apply", Owner, "save", d, 0)
      /\ UNCHANGED <<caseVars, serviceVars, chosen, uploaded, answers, claimed, overwrote>>
      /\ doc.stage # "finalized"
  BY DEF ApplyForRepoValidation, history, Open
<1>2. /\ d \in Documents /\ d.payout = doc.payout /\ d.stage = doc.stage
      /\ d.assigned = doc.assigned /\ d.files = doc.files
  BY DEF IInv, TypeOK, Documents
<1>3. /\ d.assigned \subseteq chosen'
      /\ \A w \in Validators : d.files[w] > 0 => w \in uploaded'
      /\ chosen' \subseteq Validators /\ uploaded' \subseteq Validators
  BY <1>1, <1>2 DEF IInv, AllEarned, Earned, TypeOK
<1>4. "apply" \in Ops \ {"finalize"}
  BY DEF Ops
<1> HIDE DEF d
<1>5. QED
  BY <1>1, <1>2, <1>3, <1>4, OwnerApart, CopyKeeps

LEMMA NormalizeFits ==
  ASSUME NEW votes \in [Users -> Users], NEW valid
  PROVE  NormalizeVotes(votes, valid) \in [Users -> Users]
BY OwnerApart DEF NormalizeVotes, NoVote

LEMMA AssignKeeps ==
  ASSUME IInv, NEW q \in Requests, NEW filtered \in SUBSET Validators,
         AssignRepoValidators(q, filtered)
  PROVE  IInv'
<1> DEFINE assigned == doc.assigned \cup filtered
           d == [doc EXCEPT !.assigned = assigned, !.stage = "in_review",
                            !.votes = NormalizeVotes(@, assigned),
                            !.applicants = @ \ assigned]
           pc == IF doc.files[Owner] > 0 THEN "share" ELSE "save"
<1>1. /\ Begin(q, "assign", Owner, pc, d, 0)
      /\ UNCHANGED <<caseVars, serviceVars, uploaded, answers, claimed, overwrote>>
      /\ chosen' = chosen \cup filtered
  BY DEF AssignRepoValidators
<1>2. doc \in Documents
  BY DEF IInv, TypeOK
<1>3. /\ d \in Documents /\ d.payout = doc.payout /\ d.stage = "in_review"
      /\ d.assigned = assigned /\ d.files = doc.files
  <2>1. NormalizeVotes(doc.votes, assigned) \in [Users -> Users]
    BY <1>2, NormalizeFits DEF Documents
  <2>2. QED
    BY <1>2, <2>1 DEF Documents
<1>4. /\ d.assigned \subseteq chosen'
      /\ \A v \in Validators : d.files[v] > 0 => v \in uploaded'
      /\ chosen' \subseteq Validators /\ uploaded' \subseteq Validators
  BY <1>1, <1>3 DEF IInv, AllEarned, Earned, TypeOK
<1>5. "assign" \in Ops \ {"finalize"} /\ pc \in {"share", "save"}
  BY DEF Ops
<1> HIDE DEF d, pc
<1>6. QED
  BY <1>1, <1>3, <1>4, <1>5, OwnerApart, CopyKeeps

LEMMA VoteKeeps ==
  ASSUME IInv, NEW q \in Requests, NEW voter \in Users, NEW v \in Validators,
         VoteRepoValidatorConfidence(q, voter, v)
  PROVE  IInv'
<1> DEFINE votes == [NormalizeVotes(doc.votes, doc.assigned) EXCEPT ![voter] = v]
           d == [doc EXCEPT !.votes = votes]
<1>1. /\ Begin(q, "vote", Owner, "save", d, 0)
      /\ UNCHANGED <<caseVars, serviceVars, chosen, uploaded, answers, claimed, overwrote>>
      /\ doc.stage # "finalized"
  BY DEF VoteRepoValidatorConfidence, history, Open
<1>2. doc \in Documents
  BY DEF IInv, TypeOK
<1>3. /\ d \in Documents /\ d.payout = doc.payout /\ d.stage = doc.stage
      /\ d.assigned = doc.assigned /\ d.files = doc.files
  <2>1. NormalizeVotes(doc.votes, doc.assigned) \in [Users -> Users]
    BY <1>2, NormalizeFits DEF Documents
  <2>2. votes \in [Users -> Users]
    BY <2>1, OwnerApart
  <2> HIDE DEF votes
  <2>3. QED
    BY <1>2, <2>2 DEF Documents
<1>4. /\ d.assigned \subseteq chosen'
      /\ \A w \in Validators : d.files[w] > 0 => w \in uploaded'
      /\ chosen' \subseteq Validators /\ uploaded' \subseteq Validators
  BY <1>1, <1>3 DEF IInv, AllEarned, Earned, TypeOK
<1>5. "vote" \in Ops \ {"finalize"}
  BY DEF Ops
<1> HIDE DEF d
<1>6. QED
  BY <1>1, <1>3, <1>4, <1>5, OwnerApart, CopyKeeps

\* Only uploaders among the assigned get a share.
LEMMA FinalizeKeeps ==
  ASSUME IInv, NEW q \in Requests, FinalizeRepoCase(q)
  PROVE  IInv'
<1> DEFINE payout == SplitAmountEvenly(amount, Winners(doc))
           d == [doc EXCEPT !.stage = "finalized", !.payout = payout]
<1>1. /\ Begin(q, "finalize", Owner, "distribute", d, amount)
      /\ UNCHANGED <<caseVars, serviceVars, chosen, uploaded, answers, claimed, overwrote>>
      /\ doc.order # "none"
  BY DEF FinalizeRepoCase, history
<1>2. doc \in Documents /\ amount \in Nat
  BY DEF IInv, TypeOK
<1>3. \A v \in Winners(doc) : v \in doc.assigned /\ doc.files[v] > 0
  BY DEF Winners, Uploaders
<1>4. /\ payout \in [Validators -> Nat]
      /\ \A v \in Validators : payout[v] > 0 => v \in Winners(doc)
  BY <1>2, <1>3, SplitFits DEF Documents
<1> HIDE DEF payout
<1>5. /\ d \in Documents /\ d.payout = payout /\ d.order = doc.order
      /\ d.assigned = doc.assigned /\ d.files = doc.files
  BY <1>2, <1>4 DEF Documents
<1> HIDE DEF d
<1>e. PICK e \in Documents : e = d
  BY <1>5
<1>6. Earned(e)' /\ ToPay(e)'
  BY <1>1, <1>2, <1>3, <1>4, <1>5, <1>e DEF IInv, AllEarned, Earned, ToPay, Documents
<1>7. /\ chosen' \subseteq Validators /\ uploaded' \subseteq Validators
      /\ claimed' \in BOOLEAN /\ overwrote' \in BOOLEAN /\ claimed' = claimed
  BY <1>1 DEF IInv, TypeOK
<1>8. "finalize" \in Ops /\ "distribute" \in Pcs \ {"reserve"}
  BY DEF Ops, Pcs
<1>9. QED
  BY <1>1, <1>2, <1>e, <1>6, <1>7, <1>8, OwnerApart, BeginKeeps

-----------------------------------------------------------------------------
(* The other steps of a request.                                           *)

\* p has ended, or goes on with the document it had.
Follows(p) ==
  \/ req'[p].pc = "idle" /\ req'[p].op = "none" /\ req'[p].doc = PlainDoc
  \/ /\ req'[p].doc = req[p].doc /\ req'[p].op = req[p].op
     /\ \/ req'[p].pc = req[p].pc
        \/ /\ req[p].pc \notin {"idle", "distribute"}
           /\ req'[p].pc \notin {"distribute", "reserve"}

LEMMA ReturnFollows ==
  ASSUME TypeOK, NEW q \in Requests, Return(q)
  PROVE  req' \in [Requests -> Request] /\ \A p \in Requests : Follows(p)
BY IdleFits DEF Return, Follows, TypeOK, Request

LEMMA GotoFollows ==
  ASSUME TypeOK, NEW q \in Requests, NEW pc \in {"save", "discard"}, Goto(q, pc),
         req[q].pc \in {"reserve", "share", "save"}
  PROVE  req' \in [Requests -> Request] /\ \A p \in Requests : Follows(p)
<1>1. pc \in Pcs
  BY DEF Pcs
<1>2. req' \in [Requests -> Request]
  BY <1>1 DEF Goto, TypeOK, Request
<1>3. QED
  BY <1>2 DEF Goto, Follows, TypeOK, Request

LEMMA OvertakingFollows ==
  ASSUME TypeOK, NEW q \in Requests, ReturnOvertaking(q)
  PROVE  req' \in [Requests -> Request] /\ \A p \in Requests : Follows(p)
BY IdleFits DEF ReturnOvertaking, Follows, TypeOK, Request

\* A step after which every request has ended or goes on with its document,
\* and which leaves the money alone, keeps what is known of the requests.
LEMMA RequestsKept ==
  ASSUME IInv, \A p \in Requests : Follows(p),
         UNCHANGED <<bounty, paid, begun, chosen, uploaded, answers, claimed>>
  PROVE  /\ \A p \in Requests :
              /\ Earned(req[p].doc)'
              /\ req'[p].pc = "distribute" => ToPay(req[p].doc)'
         /\ OneCreator'
         /\ \A p \in Requests :
               req'[p].pc # "distribute" /\ (Final(req[p].doc)' \/ req'[p].op = "finalize")
               => Answered'
         /\ ~claimed' /\ unpaid' = {} =>
               \A p \in Requests : req'[p].pc # "distribute" => Matches(req[p].doc)'
<1> USE DEF answers
<1>1. \A p \in Requests :
        /\ Earned(req[p].doc)'
        /\ req'[p].pc = "distribute" => ToPay(req[p].doc)'
  BY PlainDocFits DEF IInv, AllEarned, Earned, ToPay, Follows
<1>2. OneCreator'
  BY DEF IInv, OneCreator, Follows
<1>3. \A p \in Requests :
        req'[p].pc # "distribute" /\ (Final(req[p].doc)' \/ req'[p].op = "finalize") => Answered'
  BY PlainDocFits DEF IInv, AllFinalizedArePaid, Final, Answered, Follows
<1>4. ~claimed' /\ unpaid' = {} =>
        \A p \in Requests : req'[p].pc # "distribute" => Matches(req[p].doc)'
  BY PlainDocFits DEF IInv, AllPayoutsMatch, Matches, Follows
<1>5. QED
  BY <1>1, <1>2, <1>3, <1>4

\* Such a step that leaves the document of the case alone as well.
LEMMA QuietStepKeeps ==
  ASSUME IInv, req' \in [Requests -> Request], \A p \in Requests : Follows(p),
         shared' \in [Users -> SUBSET Users], faults' \in Nat, overwrote' \in BOOLEAN,
         amount' \in Nat,
         UNCHANGED <<exists, status, doc, bounty, paid, begun, chosen, uploaded, answers, claimed>>
  PROVE  IInv'
<1> USE DEF answers
<1>1. TypeOK'
  BY DEF IInv, TypeOK, Request
<1>2. AllEarned'
  BY RequestsKept DEF IInv, AllEarned, Earned, WinnersEarnedIt
<1>3. AllFinalizedArePaid'
  BY RequestsKept DEF IInv, AllFinalizedArePaid, Final, Answered
<1>4. AllPayoutsMatch'
  BY RequestsKept DEF IInv, AllPayoutsMatch, Matches
<1>5. QED
  BY <1>1, <1>2, <1>3, <1>4, RequestsKept DEF IInv

\* Such a step that deletes the row.
LEMMA DeletionKeeps ==
  ASSUME IInv, req' \in [Requests -> Request], \A p \in Requests : Follows(p),
         exists' = FALSE, status' = "none", doc' = PlainDoc,
         UNCHANGED <<amount, serviceVars, begun, faults, history>>
  PROVE  IInv'
<1> USE DEF serviceVars, history, answers
<1>1. TypeOK'
  BY PlainDocFits DEF IInv, TypeOK, Request
<1>2. AllEarned'
  BY RequestsKept, PlainDocFits DEF IInv, AllEarned, Earned, WinnersEarnedIt
<1>3. AllFinalizedArePaid'
  BY RequestsKept, PlainDocFits DEF IInv, AllFinalizedArePaid, Final, Answered
<1>4. AllPayoutsMatch'
  BY RequestsKept, PlainDocFits DEF IInv, AllPayoutsMatch, Matches
<1>5. QED
  BY <1>1, <1>2, <1>3, <1>4, RequestsKept DEF IInv

LEMMA DeleteKeeps ==
  ASSUME IInv, DeleteValidationCase
  PROVE  IInv'
<1>1. req' \in [Requests -> Request] /\ \A p \in Requests : Follows(p)
  BY DEF DeleteValidationCase, IInv, TypeOK, Request, Follows
<1>2. QED
  BY <1>1, DeletionKeeps DEF DeleteValidationCase

LEMMA ReserveKeeps ==
  ASSUME IInv, NEW q \in Requests, Reserve(q)
  PROVE  IInv'
<1> USE DEF caseVars, history, answers
<1>1. /\ req[q].pc = "reserve" /\ bounty["own"] = "none"
      /\ bounty' \in {bounty, [bounty EXCEPT !["own"] = "reserved"]}
      /\ \E pc \in {"save", "discard"} : Goto(q, pc)
      /\ faults' \in Nat
      /\ UNCHANGED <<exists, status, doc, amount, paid, shared, begun, chosen, uploaded,
                     distributed, unpaid, claimed, overwrote>>
  BY DEF Reserve, Fault, IInv, OneCreator, TypeOK
<1>2. req' \in [Requests -> Request] /\ \A p \in Requests : Follows(p)
  BY <1>1, GotoFollows DEF IInv
<1>3. req'[q].pc # "reserve" /\ \A p \in Requests : p # q => req[p].pc # "reserve"
  BY <1>1 DEF Goto, IInv, TypeOK, OneCreator
<1>4. TypeOK'
  BY <1>1, <1>2 DEF IInv, TypeOK, Request
<1>5. AllEarned'
  BY <1>1, <1>2, PlainDocFits
     DEF IInv, AllEarned, Earned, ToPay, WinnersEarnedIt, Follows
<1>6. OneCreator'
  BY <1>1, <1>2, <1>3 DEF IInv, OneCreator, Follows
<1>7. AllFinalizedArePaid'
  <2>1. \A o \in distributed \cup unpaid : o # "own" /\ bounty'[o] = "captured"
    BY <1>1 DEF IInv, AllFinalizedArePaid, TypeOK
  <2>2. QED
    BY <1>1, <1>2, <2>1, PlainDocFits
       DEF IInv, AllFinalizedArePaid, Final, Answered, Follows
<1>8. AllPayoutsMatch'
  BY <1>1, <1>2, PlainDocFits DEF IInv, AllPayoutsMatch, Matches, Follows
<1>9. QED
  BY <1>4, <1>5, <1>6, <1>7, <1>8 DEF IInv

\* An order that was distributed is captured and stays so.
LEMMA UseOrderKeeps ==
  ASSUME IInv, NEW o \in Orders, UseOrder(o)
  PROVE  IInv'
<1> USE DEF caseVars, history, answers
<1>1. /\ UNCHANGED <<exists, status, doc, amount, paid, shared, req, begun, faults, chosen,
                     uploaded, distributed, unpaid, claimed, overwrote>>
      /\ bounty[o] # "captured" /\ (o = "own" => bounty[o] # "none")
      /\ \E s \in {"none", "reserved", "captured"} : bounty' = [bounty EXCEPT ![o] = s]
  BY DEF UseOrder
<1>2. \A p \in Orders : p # o => bounty'[p] = bounty[p]
  BY <1>1 DEF IInv, TypeOK
<1>3. TypeOK'
  BY <1>1 DEF IInv, TypeOK
<1>4. AllEarned'
  BY <1>1 DEF IInv, AllEarned, Earned, ToPay, WinnersEarnedIt
<1>5. OneCreator'
  BY <1>1, <1>2 DEF IInv, OneCreator, Orders
<1>6. AllFinalizedArePaid'
  BY <1>1, <1>2 DEF IInv, TypeOK, AllFinalizedArePaid, Final, Answered
<1>7. AllPayoutsMatch'
  BY <1>1 DEF IInv, AllPayoutsMatch, Matches
<1>8. QED
  BY <1>3, <1>4, <1>5, <1>6, <1>7 DEF IInv

LEMMA FaultFits == ASSUME TypeOK, Fault PROVE faults' \in Nat
BY DEF TypeOK, Fault

LEMMA TargetsFit ==
  ASSUME NEW d \in Documents, NEW u \in Users
  PROVE  ShareTargets(d, u) \in SUBSET Users
BY OwnerApart DEF ShareTargets, Documents

LEMMA ShareKeeps ==
  ASSUME IInv, NEW q \in Requests, Share(q)
  PROVE  IInv'
<1> DEFINE targets == [shared EXCEPT ![req[q].who] = ShareTargets(req[q].doc, req[q].who)]
<1>1. targets \in [Users -> SUBSET Users]
  BY TargetsFit DEF IInv, TypeOK
<1>2. shared' \in {shared, targets} /\ faults' \in Nat
  BY FaultFits DEF Share, IInv, TypeOK
<1>3. shared' \in [Users -> SUBSET Users]
  BY <1>1, <1>2 DEF IInv, TypeOK
<1>4. req' \in [Requests -> Request] /\ \A p \in Requests : Follows(p)
  <2>1. Return(q) \/ (Goto(q, "save") /\ req[q].pc = "share")
    BY DEF Share
  <2>2. QED
    BY <2>1, ReturnFollows, GotoFollows DEF IInv
<1>5. overwrote' \in BOOLEAN
  BY Zenon DEF Share
<1>6. UNCHANGED <<caseVars, bounty, paid, begun, chosen, uploaded, answers, claimed>>
  BY DEF Share
<1>7. amount' \in Nat
  BY <1>6 DEF IInv, TypeOK, caseVars
<1>8. QED
  BY <1>2, <1>3, <1>4, <1>5, <1>6, <1>7, QuietStepKeeps DEF caseVars

\* DistributeMarketPurchase pays a reserved order by the document of the request,
\* once; a request that goes on from here has an answer behind it.
LEMMA DistributeKeeps ==
  ASSUME IInv, NEW q \in Requests, Distribute(q)
  PROVE  IInv'
<1> DEFINE o == req[q].doc.order
<1> USE DEF caseVars, answers
<1>1. /\ req[q].pc = "distribute"
      /\ UNCHANGED <<exists, status, doc, amount, shared, begun, chosen, uploaded, claimed, overwrote>>
      /\ faults' \in Nat
  BY FaultFits DEF Distribute, IInv, TypeOK, PayWinners
<1>2. req[q].doc \in Documents
  BY DEF IInv, TypeOK
<1>3. CASE UNCHANGED <<bounty, paid, answers>> /\ Return(q)
  <2>1. req' \in [Requests -> Request] /\ \A p \in Requests : Follows(p)
    BY <1>3, ReturnFollows DEF IInv
  <2>2. shared' \in [Users -> SUBSET Users] /\ overwrote' \in BOOLEAN /\ amount' \in Nat
    BY <1>1 DEF IInv, TypeOK
  <2>3. QED
    BY <1>1, <1>3, <2>1, <2>2, QuietStepKeeps
<1>4. CASE /\ bounty' \in {bounty, [bounty EXCEPT ![o] = "captured"]}
           /\ distributed' \cup unpaid' = distributed \cup unpaid \cup {o}
           /\ bounty'[o] = "captured"
           /\ \/ PayWinners(q, o)
              \/ /\ UNCHANGED <<bounty, paid, distributed>> /\ unpaid' = unpaid \cup {o}
           /\ Return(q) \/ Goto(q, "save")
  <2>1. /\ req' \in [Requests -> Request]
        /\ \A p \in Requests \ {q} : req'[p] = req[p]
        /\ \/ req'[q] = Idle
           \/ /\ req'[q].pc = "save" /\ req'[q].doc = req[q].doc
              /\ req'[q].op = req[q].op
    <3>1. "save" \in Pcs
      BY DEF Pcs
    <3>2. CASE Return(q)
      BY <3>2, IdleFits DEF Return, IInv, TypeOK, Request
    <3>3. CASE Goto(q, "save")
      BY <3>1, <3>3 DEF Goto, IInv, TypeOK, Request
    <3>4. QED
      BY <1>4, <3>2, <3>3
  <2>2. o \in Orders
    BY <1>1 DEF IInv, AllEarned, ToPay
  <2>3. /\ bounty' \in [Orders -> {"none", "reserved", "captured"}]
        /\ \A p \in Orders : p # o => bounty'[p] = bounty[p]
        /\ bounty["own"] = "none" => bounty'["own"] = "none" \/ o = "own"
    BY <1>4, <2>2 DEF IInv, TypeOK, Orders
  <2>4. paid' \in [Orders -> [Validators -> Nat]]
    BY <1>2, <1>4, <2>2 DEF IInv, TypeOK, PayWinners, Documents
  <2>5. distributed' \subseteq Orders /\ unpaid' \subseteq Orders
    BY <1>4, <2>2 DEF IInv, TypeOK, PayWinners
  <2>6. TypeOK'
    BY <1>1, <2>1, <2>3, <2>4, <2>5 DEF IInv, TypeOK, Request
  <2>7. AllEarned'
    <3>1. WinnersEarnedIt'
      BY <1>1, <1>4, <2>2 DEF IInv, TypeOK, AllEarned, ToPay, WinnersEarnedIt, PayWinners
    <3>2. \A p \in Requests : req'[p].doc \in {req[p].doc, PlainDoc}
      BY <2>1, IdleFits
    <3>3. \A p \in Requests : Earned(req[p].doc)'
      BY <1>1, <3>2, PlainDocFits DEF IInv, AllEarned, Earned
    <3>4. \A p \in Requests : req'[p].pc = "distribute" => ToPay(req[p].doc)'
      BY <1>1, <2>1, IdleFits DEF IInv, AllEarned, ToPay
    <3>5. QED
      BY <1>1, <3>1, <3>3, <3>4 DEF IInv, AllEarned, Earned
  <2>8. OneCreator'
    <3>1. \A p \in Requests : req'[p].pc = "reserve" => req[p].pc = "reserve"
      BY <2>1, IdleFits
    <3>2. bounty["own"] = "none" => bounty'["own"] = "none"
      BY <1>4, <2>3, <2>2 DEF PayWinners, Payable
    <3>3. begun' = 0 => \A p \in Requests : req'[p].pc = "idle"
      BY <1>1 DEF IInv, OneCreator
    <3>4. QED
      BY <3>1, <3>2, <3>3 DEF IInv, OneCreator
  <2>9. AllFinalizedArePaid'
    BY <1>4, <2>2, <2>3 DEF IInv, TypeOK, AllFinalizedArePaid, Final, Answered
  <2>10. AllPayoutsMatch'
    <3>1. CASE PayWinners(q, o)
      <4>1. /\ o \notin distributed /\ distributed' = distributed \cup {o} /\ unpaid' = unpaid
            /\ \A p \in distributed : paid'[p] = paid[p]
            /\ paid'[o] = req[q].doc.payout
        BY <2>2, <3>1 DEF IInv, TypeOK, AllFinalizedArePaid, PayWinners, Payable
      <4>2. SUFFICES ASSUME ~claimed', unpaid' = {}
                     PROVE  /\ Matches(doc)'
                            /\ \A p \in Requests : req'[p].pc # "distribute" => Matches(req[p].doc)'
        BY DEF AllPayoutsMatch
      <4>3. Matches(doc) /\ \A p \in Requests : req[p].pc # "distribute" => Matches(req[p].doc)
        BY <1>1, <4>1, <4>2 DEF IInv, AllPayoutsMatch
      <4>4. Matches(doc)' /\ \A p \in Requests \ {q} : req'[p].pc # "distribute" => Matches(req[p].doc)'
        BY <1>1, <2>1, <4>1, <4>3 DEF Matches
      <4>5. Matches(req[q].doc)'
        BY <2>1, <4>1, IdleFits, PlainDocFits DEF Matches
      <4>6. QED
        BY <4>4, <4>5
    <3>2. CASE unpaid' = unpaid \cup {o}
      BY <3>2 DEF AllPayoutsMatch
    <3>3. QED
      BY <1>4, <3>1, <3>2
  <2>11. QED
    BY <2>6, <2>7, <2>8, <2>9, <2>10 DEF IInv
<1>5. CASE PayWinners(q, o) /\ (Return(q) \/ Goto(q, "save"))
  <2>1. bounty' = [bounty EXCEPT ![o] = "captured"] /\ bounty[o] = "reserved"
    BY <1>5 DEF PayWinners, Payable
  <2>2. o \in Orders
    BY <1>1 DEF IInv, AllEarned, ToPay
  <2>3. bounty'[o] = "captured"
    BY <2>1, <2>2 DEF IInv, TypeOK
  <2>4. distributed' \cup unpaid' = distributed \cup unpaid \cup {o}
    BY <1>5 DEF PayWinners
  <2>5. QED
    BY <1>4, <1>5, <2>1, <2>3, <2>4
<1>6. CASE /\ bounty[o] = "captured" /\ unpaid' = unpaid \cup {o}
           /\ UNCHANGED <<bounty, paid, distributed>> /\ Goto(q, "save")
  BY <1>4, <1>6
<1>7. QED
  BY <1>3, <1>5, <1>6 DEF Distribute

\* The document of any request may replace the one that is there.
LEMMA SaveKeeps ==
  ASSUME IInv, NEW q \in Requests, Save(q)
  PROVE  IInv'
<1> USE DEF serviceVars, answers
<1>1. /\ req[q].pc = "save" /\ exists' = exists /\ doc' = req[q].doc
      /\ amount' \in {amount, req[q].amount}
      /\ ReturnOvertaking(q)
      /\ UNCHANGED <<bounty, paid, shared, begun, faults, chosen, uploaded, distributed,
                     unpaid, claimed>>
  BY DEF Save
<1>2. status' \in {status, "open", "completed"}
      /\ (status' = "completed" => status = "completed" \/ req[q].op = "finalize")
  BY DEF Save
<1>3. req' \in [Requests -> Request] /\ \A p \in Requests : Follows(p)
  BY <1>1, OvertakingFollows DEF IInv
<1>4. overwrote' \in BOOLEAN
  BY Zenon DEF Save
<1>5. req[q].doc \in Documents /\ amount' \in Nat
  BY <1>1 DEF IInv, TypeOK
<1>6. TypeOK'
  BY <1>1, <1>2, <1>3, <1>4, <1>5 DEF IInv, TypeOK, Request
<1>7. AllEarned'
  BY <1>1, <1>3, RequestsKept DEF IInv, AllEarned, Earned, WinnersEarnedIt
<1>8. AllFinalizedArePaid'
  BY <1>1, <1>2, <1>3, RequestsKept DEF IInv, AllFinalizedArePaid, Final, Answered
<1>9. AllPayoutsMatch'
  BY <1>1, <1>3, RequestsKept DEF IInv, AllPayoutsMatch, Matches
<1>10. QED
  BY <1>1, <1>3, <1>6, <1>7, <1>8, <1>9, RequestsKept DEF IInv

LEMMA SaveBountyKeeps ==
  ASSUME IInv, NEW q \in Requests, SaveBounty(q)
  PROVE  IInv'
<1>1. /\ amount' = req[q].amount /\ Return(q)
      /\ UNCHANGED <<exists, status, doc, serviceVars, begun, faults, history>>
  BY DEF SaveBounty
<1>2. amount' \in Nat /\ faults' \in Nat
  BY <1>1 DEF IInv, TypeOK
<1>3. shared' \in [Users -> SUBSET Users] /\ overwrote' \in BOOLEAN
  BY <1>1 DEF IInv, TypeOK, serviceVars, history
<1>4. req' \in [Requests -> Request] /\ \A p \in Requests : Follows(p)
  BY <1>1, ReturnFollows DEF IInv
<1>5. QED
  BY <1>1, <1>2, <1>3, <1>4, QuietStepKeeps DEF serviceVars, history

LEMMA SaveFailsKeeps ==
  ASSUME IInv, NEW q \in Requests, SaveFails(q)
  PROVE  IInv'
<1>1. Return(q) \/ (Goto(q, "discard") /\ req[q].pc = "save")
  BY DEF SaveFails
<1>2. req' \in [Requests -> Request] /\ \A p \in Requests : Follows(p)
  BY <1>1, ReturnFollows, GotoFollows DEF IInv
<1>3. faults' \in Nat
  BY FaultFits DEF SaveFails, IInv, TypeOK
<1>4. UNCHANGED <<caseVars, serviceVars, begun, history>>
  BY DEF SaveFails
<1>5. shared' \in [Users -> SUBSET Users] /\ overwrote' \in BOOLEAN /\ amount' \in Nat
  BY <1>4 DEF IInv, TypeOK, caseVars, serviceVars, history
<1>6. QED
  BY <1>2, <1>3, <1>4, <1>5, QuietStepKeeps DEF caseVars, serviceVars, history

LEMMA DiscardKeeps ==
  ASSUME IInv, NEW q \in Requests, Discard(q)
  PROVE  IInv'
<1>1. CASE /\ exists' = FALSE /\ status' = "none" /\ doc' = PlainDoc
           /\ ReturnOvertaking(q) /\ UNCHANGED <<amount, serviceVars, begun, faults, history>>
  BY <1>1, OvertakingFollows, DeletionKeeps DEF IInv
<1>2. CASE UNCHANGED <<caseVars, serviceVars, begun, history>> /\ Return(q) /\ Fault
  <2>1. shared' \in [Users -> SUBSET Users] /\ overwrote' \in BOOLEAN /\ amount' \in Nat
    BY <1>2 DEF IInv, TypeOK, caseVars, serviceVars, history
  <2>2. req' \in [Requests -> Request] /\ (\A p \in Requests : Follows(p)) /\ faults' \in Nat
    BY <1>2, ReturnFollows, FaultFits DEF IInv
  <2>3. QED
    BY <1>2, <2>1, <2>2, QuietStepKeeps DEF caseVars, serviceVars, history
<1>3. QED
  BY <1>1, <1>2 DEF Discard

LEMMA CrashKeeps ==
  ASSUME IInv, NEW q \in Requests, Crash(q)
  PROVE  IInv'
<1>1. UNCHANGED <<caseVars, serviceVars, begun, history>>
  BY DEF Crash
<1>2. shared' \in [Users -> SUBSET Users] /\ overwrote' \in BOOLEAN /\ amount' \in Nat
  BY <1>1 DEF IInv, TypeOK, caseVars, serviceVars, history
<1>3. req' \in [Requests -> Request] /\ (\A p \in Requests : Follows(p)) /\ faults' \in Nat
  BY ReturnFollows, FaultFits DEF IInv, Crash
<1>4. QED
  BY <1>1, <1>2, <1>3, QuietStepKeeps DEF caseVars, serviceVars, history

-----------------------------------------------------------------------------

LEMMA NextInv == IInv /\ [Next]_vars => IInv'
<1> SUFFICES ASSUME IInv, [Next]_vars PROVE IInv'
  OBVIOUS
<1>1. CASE DeleteValidationCase
  BY <1>1, DeleteKeeps
<1>2. ASSUME NEW q \in Requests, Handle(q) PROVE IInv'
  <2>1. ASSUME NEW order \in Orders \cup {"none"}, NEW bootstrap \in {0, 1},
               CreateValidationCase(q, order, bootstrap)
        PROVE  IInv'
    BY <2>1, CreateKeeps DEF OrderNames
  <2>2. QED
    BY <1>2, <2>1, UpdateKeeps, UpdateBountyKeeps, AttachKeeps, PublishKeeps, ApplyKeeps,
       AssignKeeps, VoteKeeps, FinalizeKeeps, ReserveKeeps, ShareKeeps, DistributeKeeps,
       SaveKeeps, SaveBountyKeeps, SaveFailsKeeps, DiscardKeeps, CrashKeeps DEF Handle
<1>3. CASE UNCHANGED vars
  <2>1. TypeOK'
    BY <1>3 DEF vars, IInv, TypeOK
  <2>2. AllEarned' /\ OneCreator'
    BY <1>3 DEF vars, IInv, AllEarned, Earned, ToPay, WinnersEarnedIt, OneCreator
  <2>3. AllFinalizedArePaid' /\ AllPayoutsMatch'
    BY <1>3 DEF vars, IInv, AllFinalizedArePaid, Final, Answered, AllPayoutsMatch, Matches
  <2>4. QED
    BY <2>1, <2>2, <2>3 DEF IInv
<1>4. QED
  BY <1>1, <1>2, <1>3, UseOrderKeeps DEF Next

\* The invariant holds of every reachable state: any set of validators, any
\* number of requests in flight, failed calls and deaths, and whatever documents
\* the owner's client sends.
THEOREM Invariance == Spec => []IInv
<1>1. QED
  BY InitInv, NextInv, PTL DEF Spec

\* A case is completed, or finalised but by its owner's word, only when a
\* distribution was answered (FinalizeRepoCase) and the order of it is used up,
\* although every handler overwrites the document whole.
THEOREM FinalizedMeansPaid == Spec => []FinalizedIsPaid
<1>1. IInv => FinalizedIsPaid
  BY DEF IInv, AllFinalizedArePaid, FinalizedIsPaid, Final, Answered
<1>2. QED
  BY <1>1, Invariance, PTL

\* Only validators the owner named are paid, with an output they attached or the
\* owner listed (activeValidatorOutputCounts, Winners).
THEOREM OnlyEarnersPaid == Spec => []WinnersEarnedIt
<1>1. IInv => WinnersEarnedIt
  BY DEF IInv, AllEarned
<1>2. QED
  BY <1>1, Invariance, PTL

\* Until the feature service answers a distribution that pays nothing, or the
\* owner claims one, a payout the document records is one that was paid.
THEOREM RecordIsPayment == Spec => []RecordedPayoutIsPaid
<1>1. IInv => RecordedPayoutIsPaid
  BY DEF IInv, AllPayoutsMatch, Matches, RecordedPayoutIsPaid
<1>2. QED
  BY <1>1, Invariance, PTL

-----------------------------------------------------------------------------
(* The readers of the owner's file.                                        *)

\* A request begins with a copy of the document.
LEMMA CopyReadable ==
  ASSUME IInv, AllCanRead, NEW q \in Requests, NEW op \in Ops, NEW who, NEW pc, NEW d,
         NEW a, Begin(q, op, who, pc, d, a), UNCHANGED <<doc, shared>>,
         overwrote => overwrote',
         pc = "share" => op \in {"attach", "assign"},
         op \in {"attach", "assign"} => pc \in {"share", "save"},
         op = "attach" => d.assigned = doc.assigned,
         op = "assign" => doc.assigned \subseteq d.assigned /\ who = Owner,
         op \notin {"attach", "assign"} /\ ~overwrote' => d.assigned \subseteq doc.assigned,
         Readable(doc) /\ ~overwrote' => Readable(d) \/ (pc = "share" /\ who = Owner)
  PROVE  AllCanRead'
<1> DEFINE r == [pc |-> pc, op |-> op, doc |-> d, who |-> who, amount |-> a, overtaken |-> FALSE]
<1>1. r.pc = pc /\ r.op = op /\ r.doc = d /\ r.who = who
  OBVIOUS
<1>2. req' = [req EXCEPT ![q] = r]
  BY DEF Begin
<1> HIDE DEF r
<1>3. req'[q] = r /\ \A p \in Requests : p # q => req'[p] = req[p]
  BY <1>2 DEF IInv, TypeOK
<1>4. ASSUME ~overwrote' PROVE Readable(doc)' /\ \A p \in Requests : Loaded(p)'
  <2>1. Readable(doc) /\ \A p \in Requests : Loaded(p)
    BY <1>4 DEF AllCanRead
  <2>2. ASSUME NEW p \in Requests, p # q PROVE Loaded(p)'
    BY <1>3, <2>1, <2>2 DEF Loaded, Readable
  <2>3. Loaded(q)'
    BY <1>1, <1>3, <1>4, <2>1 DEF Loaded, Readable
  <2> QED
    BY <2>1, <2>2, <2>3 DEF Readable
<1> QED
  BY <1>4 DEF AllCanRead

\* A request whose copy has the assigned validators and the files of the
\* document, and that shares nothing.
LEMMA SameReaders ==
  ASSUME IInv, AllCanRead, NEW q \in Requests, NEW op \in Ops \ {"attach", "assign"}, NEW who,
         NEW pc \in {"save", "distribute"}, NEW d, NEW a,
         Begin(q, op, who, pc, d, a), UNCHANGED <<caseVars, serviceVars, overwrote>>,
         d.assigned = doc.assigned, d.files = doc.files
  PROVE  AllCanRead'
<1>1. Readable(doc) => Readable(d)
  BY DEF Readable
<1> QED
  BY <1>1, CopyReadable DEF caseVars, serviceVars

LEMMA BeginReadable ==
  ASSUME IInv, AllCanRead, NEW q \in Requests,
         \/ \E meta \in ClientMetas, a \in BountyEdits \cup {0} : UpdateValidationCase(q, meta, a)
         \/ \E a \in BountyEdits : UpdateBounty(q, a)
         \/ \E u \in Users : AttachRepoFile(q, u)
         \/ PublishRepoCase(q)
         \/ \E v \in Validators : ApplyForRepoValidation(q, v)
         \/ \E filtered \in SUBSET Validators : AssignRepoValidators(q, filtered)
         \/ \E voter \in Users, v \in Validators : VoteRepoValidatorConfidence(q, voter, v)
         \/ FinalizeRepoCase(q)
  PROVE  AllCanRead'
<1>0. doc \in Documents /\ doc.files \in [Users -> Nat]
  BY DEF IInv, TypeOK, Documents
<1>1. ASSUME NEW meta \in ClientMetas, NEW a \in BountyEdits \cup {0}, UpdateValidationCase(q, meta, a)
      PROVE  AllCanRead'
  <2>1. /\ Begin(q, "update", Owner, "save", meta, a) /\ UNCHANGED <<doc, shared>>
        /\ overwrote' = (overwrote \/ NamesReaders(meta))
    BY <1>1 DEF UpdateValidationCase, caseVars, serviceVars
  <2>2. ~overwrote' => ~NamesReaders(meta)
    BY <2>1
  <2>3. ~overwrote' => meta.assigned \subseteq doc.assigned
                       /\ (meta.files[Owner] > 0 => doc.files[Owner] > 0)
    BY <1>0, <2>2, OwnerApart DEF NamesReaders
  <2>4. Readable(doc) /\ ~overwrote' => Readable(meta)
    BY <2>3 DEF Readable
  <2> QED
    BY <2>1, <2>3, <2>4, CopyReadable DEF Ops
<1>8. ASSUME NEW a \in BountyEdits, UpdateBounty(q, a) PROVE AllCanRead'
  <2>1. Begin(q, "bounty", Owner, "save", doc, a) /\ UNCHANGED <<caseVars, serviceVars, overwrote>>
    BY <1>8 DEF UpdateBounty, history
  <2> QED
    BY <2>1, SameReaders DEF Ops
<1>2. ASSUME NEW u \in Users, AttachRepoFile(q, u) PROVE AllCanRead'
  <2> DEFINE d == [doc EXCEPT !.files[u] = @ + 1]
  <2>1. Begin(q, "attach", u, "share", d, 0) /\ UNCHANGED <<doc, shared, overwrote>>
    BY <1>2 DEF AttachRepoFile, caseVars, serviceVars
  <2>2. d.assigned = doc.assigned /\ (u # Owner => d.files[Owner] = doc.files[Owner])
    BY <1>0, OwnerApart DEF Documents
  <2> HIDE DEF d
  <2>3. Readable(doc) => Readable(d) \/ u = Owner
    BY <2>2 DEF Readable
  <2> QED
    BY <2>1, <2>2, <2>3, CopyReadable DEF Ops
<1>3. ASSUME PublishRepoCase(q) PROVE AllCanRead'
  <2> DEFINE d == [doc EXCEPT !.stage = "ready"]
  <2>1. Begin(q, "publish", Owner, "save", d, 0) /\ UNCHANGED <<caseVars, serviceVars, overwrote>>
    BY <1>3 DEF PublishRepoCase, history
  <2>2. d.assigned = doc.assigned /\ d.files = doc.files
    BY <1>0 DEF Documents
  <2> HIDE DEF d
  <2> QED
    BY <2>1, <2>2, SameReaders DEF Ops
<1>4. ASSUME NEW v \in Validators, ApplyForRepoValidation(q, v) PROVE AllCanRead'
  <2> DEFINE d == [doc EXCEPT !.applicants = @ \cup {v}]
  <2>1. Begin(q, "apply", Owner, "save", d, 0) /\ UNCHANGED <<caseVars, serviceVars, overwrote>>
    BY <1>4 DEF ApplyForRepoValidation, history
  <2>2. d.assigned = doc.assigned /\ d.files = doc.files
    BY <1>0 DEF Documents
  <2> HIDE DEF d
  <2> QED
    BY <2>1, <2>2, SameReaders DEF Ops
<1>5. ASSUME NEW filtered \in SUBSET Validators, AssignRepoValidators(q, filtered) PROVE AllCanRead'
  <2> DEFINE assigned == doc.assigned \cup filtered
             d == [doc EXCEPT !.assigned = assigned, !.stage = "in_review",
                              !.votes = NormalizeVotes(@, assigned),
                              !.applicants = @ \ assigned]
             pc == IF doc.files[Owner] > 0 THEN "share" ELSE "save"
  <2>1. Begin(q, "assign", Owner, pc, d, 0) /\ UNCHANGED <<doc, shared, overwrote>>
    BY <1>5 DEF AssignRepoValidators, caseVars, serviceVars
  <2>2. d.assigned = assigned /\ d.files = doc.files
    BY <1>0 DEF Documents
  <2> HIDE DEF d
  <2>3. doc.assigned \subseteq d.assigned /\ pc \in {"share", "save"} /\ (Readable(d) \/ pc = "share")
    BY <2>2 DEF Readable
  <2> HIDE DEF pc
  <2> QED
    BY <2>1, <2>2, <2>3, CopyReadable DEF Ops
<1>6. ASSUME NEW voter \in Users, NEW v \in Validators, VoteRepoValidatorConfidence(q, voter, v) PROVE AllCanRead'
  <2> DEFINE d == [doc EXCEPT !.votes = [NormalizeVotes(@, doc.assigned) EXCEPT ![voter] = v]]
  <2>1. Begin(q, "vote", Owner, "save", d, 0) /\ UNCHANGED <<caseVars, serviceVars, overwrote>>
    BY <1>6 DEF VoteRepoValidatorConfidence, history
  <2>2. d.assigned = doc.assigned /\ d.files = doc.files
    BY <1>0 DEF Documents
  <2> HIDE DEF d
  <2> QED
    BY <2>1, <2>2, SameReaders DEF Ops
<1>7. ASSUME FinalizeRepoCase(q) PROVE AllCanRead'
  <2> DEFINE d == [doc EXCEPT !.stage = "finalized", !.payout = SplitAmountEvenly(amount, Winners(doc))]
  <2>1. Begin(q, "finalize", Owner, "distribute", d, amount) /\ UNCHANGED <<caseVars, serviceVars, overwrote>>
    BY <1>7 DEF FinalizeRepoCase, history
  <2>2. d.assigned = doc.assigned /\ d.files = doc.files
    BY <1>0 DEF Documents
  <2> HIDE DEF d
  <2> QED
    BY <2>1, <2>2, SameReaders DEF Ops
<1> QED
  BY <1>1, <1>2, <1>3, <1>4, <1>5, <1>6, <1>7, <1>8

\* A step after which no copy of the document is current.
LEMMA ReplacedReadable ==
  ASSUME ~overwrote' => Readable(doc)', \A p \in Requests : req'[p].pc = "idle" \/ req'[p].overtaken
  PROVE  AllCanRead'
BY DEF AllCanRead, Loaded

\* The case is created when nothing is in flight.
LEMMA CreateReadable ==
  ASSUME IInv, AllCanRead, NEW q \in Requests, NEW order \in OrderNames, NEW bootstrap \in {0, 1},
         CreateValidationCase(q, order, bootstrap)
  PROVE  AllCanRead'
<1> DEFINE d == CreatedDoc(order, bootstrap)
           r == [pc |-> "reserve", op |-> "create", doc |-> d, who |-> Owner, amount |-> 0,
                 overtaken |-> FALSE]
<1>1. d.assigned = {}
  BY PlainDocFits DEF CreatedDoc, PlainDoc, Documents
<1>2. doc' = d /\ req' = [req EXCEPT ![q] = r] /\ begun = 0
  BY DEF CreateValidationCase, Begin
<1>3. r.pc = "reserve" /\ r.op = "create" /\ r.doc = d
  OBVIOUS
<1> HIDE DEF d, r
<1>4. req'[q] = r /\ \A p \in Requests : p # q => req'[p].pc = "idle"
  BY <1>2 DEF IInv, TypeOK, OneCreator
<1>5. Readable(doc)'
  BY <1>1, <1>2 DEF Readable
<1>6. \A p \in Requests : Loaded(p)'
  BY <1>1, <1>2, <1>3, <1>4 DEF Loaded, Readable
<1> QED
  BY <1>5, <1>6 DEF AllCanRead

LEMMA AllOvertaken ==
  ASSUME IInv, NEW q \in Requests, ReturnOvertaking(q)
  PROVE  \A p \in Requests : req'[p].pc = "idle" \/ req'[p].overtaken
BY IdleFits DEF ReturnOvertaking, IInv, TypeOK

\* The steps that replace the document, and delete it.
LEMMA SaveReadable ==
  ASSUME IInv, AllCanRead, NEW q \in Requests, Save(q)
  PROVE  AllCanRead'
<1>1. /\ req[q].pc = "save" /\ doc' = req[q].doc /\ shared' = shared
      /\ ReturnOvertaking(q) /\ overwrote' = (overwrote \/ Conflicts(q))
  BY DEF Save, serviceVars
<1>2. \A p \in Requests : req'[p].pc = "idle" \/ req'[p].overtaken
  BY <1>1, AllOvertaken
<1>3. ASSUME ~overwrote' PROVE Readable(doc)'
  <2>1. ~overwrote /\ ~req[q].overtaken
    BY <1>1, <1>3 DEF Conflicts
  <2>2. Loaded(q)
    BY <2>1 DEF AllCanRead
  <2>3. Readable(req[q].doc)
    BY <1>1, <2>1, <2>2 DEF Loaded
  <2> QED
    BY <1>1, <2>3 DEF Readable
<1> QED
  BY <1>2, <1>3, ReplacedReadable

LEMMA DeleteReadable ==
  ASSUME IInv, doc' = PlainDoc, DeleteValidationCase \/ \E q \in Requests : ReturnOvertaking(q)
  PROVE  AllCanRead'
<1>1. PlainDoc.assigned = {}
  BY DEF PlainDoc
<1>2. Readable(doc)'
  BY <1>1 DEF Readable
<1>3. \A p \in Requests : req'[p].pc = "idle" \/ req'[p].overtaken
  <2>1. CASE DeleteValidationCase
    BY <2>1 DEF DeleteValidationCase, IInv, TypeOK
  <2>2. ASSUME NEW q \in Requests, ReturnOvertaking(q) PROVE \A p \in Requests : req'[p].pc = "idle" \/ req'[p].overtaken
    BY <2>2, AllOvertaken
  <2> QED
    BY <2>1, <2>2
<1> QED
  BY <1>2, <1>3, ReplacedReadable

\* A request ends, or goes on without having shared anything.
LEMMA OnwardReadable ==
  ASSUME IInv, AllCanRead, NEW q \in Requests, UNCHANGED <<doc, shared, overwrote>>,
         \/ Return(q)
         \/ /\ \E pc \in {"save", "discard"} : Goto(q, pc)
            /\ req[q].pc \in {"reserve", "distribute"} \/ (req[q].pc = "save" /\ req[q].op = "create")
  PROVE  AllCanRead'
<1>1. \A p \in Requests : p # q => req'[p] = req[p]
  BY DEF Return, Goto, IInv, TypeOK
<1>2. \/ req'[q].pc = "idle"
      \/ /\ req'[q].op = req[q].op /\ req'[q].doc = req[q].doc /\ req'[q].who = req[q].who
         /\ req'[q].overtaken = req[q].overtaken /\ req'[q].pc \in {"save", "discard"}
         /\ req[q].pc \in {"reserve", "distribute"} \/ (req[q].pc = "save" /\ req[q].op = "create")
  BY IdleFits DEF Return, Goto, IInv, TypeOK
<1>3. ASSUME ~overwrote' PROVE Readable(doc)' /\ \A p \in Requests : Loaded(p)'
  <2>1. Readable(doc) /\ \A p \in Requests : Loaded(p)
    BY <1>3 DEF AllCanRead
  <2>2. ASSUME NEW p \in Requests, p # q PROVE Loaded(p)'
    BY <1>1, <2>1, <2>2 DEF Loaded, Readable
  <2>3. Loaded(q)'
    BY <1>2, <2>1 DEF Loaded, Readable
  <2> QED
    BY <2>1, <2>2, <2>3 DEF Readable
<1> QED
  BY <1>3 DEF AllCanRead


\* The owner's file is shared with everyone the copy in hand needs; unless that
\* copy is overtaken, they include everyone the document needs.
LEMMA ShareReadable ==
  ASSUME IInv, AllCanRead, NEW q \in Requests, Share(q)
  PROVE  AllCanRead'
<1> DEFINE r == req[q]
           targets == [shared EXCEPT ![r.who] = ShareTargets(r.doc, r.who)]
<1>0. /\ r.pc = "share" /\ doc' = doc /\ overwrote' = (overwrote \/ Conflicts(q))
      /\ \/ shared' = targets /\ Goto(q, "save")
         \/ shared' \in {shared, targets} /\ Return(q)
  BY DEF Share, caseVars
<1>1. r.doc \in Documents /\ r.who \in Users /\ shared \in [Users -> SUBSET Users]
  BY DEF IInv, TypeOK
<1>2. /\ \A p \in Requests : p # q => req'[p] = req[p]
      /\ \/ req'[q].pc = "idle"
         \/ /\ shared' = targets /\ req'[q].pc = "save" /\ req'[q].op = r.op /\ req'[q].doc = r.doc
            /\ req'[q].overtaken = r.overtaken /\ req'[q].who = r.who
  BY <1>0, IdleFits DEF Return, Goto, IInv, TypeOK
<1>3. r.who # Owner => targets[Owner] = shared[Owner]
  BY <1>1, OwnerApart
<1>4. r.who = Owner => targets[Owner] = r.doc.assigned
  <2>1. Owner \notin r.doc.assigned
    BY <1>1, OwnerApart DEF Documents
  <2> QED
    BY <1>1, <2>1, OwnerApart DEF ShareTargets
<1>5. ASSUME ~overwrote' PROVE Readable(doc)' /\ \A p \in Requests : Loaded(p)'
  <2>1. ~overwrote /\ ~Conflicts(q)
    BY <1>0, <1>5
  <2>2. Readable(doc) /\ \A p \in Requests : Loaded(p)
    BY <2>1 DEF AllCanRead
  <2>3. ~r.overtaken /\ \A p \in Requests : p # q /\ req[p].pc = "save" => req[p].op \notin {"attach", "assign"}
    BY <2>1 DEF Conflicts
  <2>4. /\ r.op \in {"attach", "assign"}
        /\ doc.assigned \subseteq r.doc.assigned
        /\ r.who # Owner => Readable(r.doc)
    BY <1>0, <2>2, <2>3 DEF Loaded
  <2>5. shared'[Owner] = shared[Owner] \/ doc.assigned \subseteq shared'[Owner]
    BY <1>0, <1>3, <1>4, <2>4
  <2>6. Readable(doc)'
    BY <1>0, <2>2, <2>5 DEF Readable
  <2>7. ASSUME NEW p \in Requests, p # q PROVE Loaded(p)'
    <3>1. Loaded(p) /\ req'[p] = req[p]
      BY <1>2, <2>2, <2>7
    <3>2. ASSUME req[p].pc # "idle", ~req[p].overtaken
          PROVE  Readable(req[p].doc)' \/ (req[p].pc = "share" /\ req[p].who = Owner)
      <4>1. CASE shared'[Owner] = shared[Owner]
        BY <3>1, <3>2, <4>1 DEF Loaded, Readable
      <4>2. CASE doc.assigned \subseteq shared'[Owner]
        <5>1. CASE req[p].op = "assign"
          BY <2>3, <2>7, <3>1, <3>2, <5>1 DEF Loaded
        <5>2. CASE req[p].op # "assign"
          <6>1. req[p].doc.assigned \subseteq doc.assigned
            BY <3>1, <3>2, <5>2 DEF Loaded
          <6> QED
            BY <3>1, <4>2, <6>1 DEF Readable
        <5> QED
          BY <5>1, <5>2
      <4> QED
        BY <2>5, <4>1, <4>2
    <3> QED
      BY <1>0, <3>1, <3>2 DEF Loaded, Readable
  <2>8. Loaded(q)'
    <3>1. CASE req'[q].pc = "idle"
      BY <3>1 DEF Loaded
    <3>2. CASE req'[q].pc # "idle"
      <4>1. shared' = targets /\ req'[q].pc = "save" /\ req'[q].op = r.op /\ req'[q].doc = r.doc
            /\ req'[q].overtaken = r.overtaken /\ req'[q].who = r.who
        BY <1>2, <3>2
      <4>2. r.doc.files[Owner] > 0 => r.doc.assigned \subseteq shared'[Owner]
        BY <1>3, <1>4, <2>4, <4>1 DEF Readable
      <4>3. Readable(req[q].doc)'
        BY <4>1, <4>2 DEF Readable
      <4>4. Loaded(q)
        BY <2>2
      <4> QED
        BY <1>0, <2>3, <2>4, <4>1, <4>3, <4>4 DEF Loaded
    <3> QED
      BY <3>1, <3>2
  <2> QED
    BY <2>6, <2>7, <2>8
<1> QED
  BY <1>5 DEF AllCanRead

LEMMA ReadersStep == IInv /\ AllCanRead /\ [Next]_vars => AllCanRead'
<1> SUFFICES ASSUME IInv, AllCanRead, [Next]_vars PROVE AllCanRead'
  OBVIOUS
<1>1. ASSUME NEW q \in Requests, Handle(q) PROVE AllCanRead'
  <2>1. ASSUME NEW order \in Orders \cup {"none"}, NEW bootstrap \in {0, 1},
               CreateValidationCase(q, order, bootstrap)
        PROVE  AllCanRead'
    BY <2>1, CreateReadable DEF OrderNames
  <2>2. CASE Reserve(q) \/ Distribute(q) \/ SaveBounty(q) \/ SaveFails(q) \/ Crash(q)
    <3>1. UNCHANGED <<doc, shared, overwrote>>
      BY <2>2 DEF Reserve, Distribute, SaveBounty, SaveFails, Crash, caseVars, serviceVars, history
    <3>2. \/ Return(q)
          \/ /\ \E pc \in {"save", "discard"} : Goto(q, pc)
             /\ req[q].pc \in {"reserve", "distribute"} \/ (req[q].pc = "save" /\ req[q].op = "create")
      BY <2>2 DEF Reserve, Distribute, SaveBounty, SaveFails, Crash
    <3> QED
      BY <3>1, <3>2, OnwardReadable
  <2>3. CASE Discard(q)
    <3>1. CASE doc' = PlainDoc /\ ReturnOvertaking(q)
      BY <3>1, DeleteReadable
    <3>2. CASE UNCHANGED caseVars /\ Return(q)
      BY <2>3, <3>2, OnwardReadable DEF Discard, caseVars, serviceVars, history
    <3> QED
      BY <2>3, <3>1, <3>2 DEF Discard
  <2> QED
    BY <1>1, <2>1, <2>2, <2>3, BeginReadable, ShareReadable, SaveReadable DEF Handle
<1>2. CASE DeleteValidationCase
  BY <1>2, DeleteReadable DEF DeleteValidationCase
<1>3. CASE UNCHANGED vars \/ \E o \in Orders : UseOrder(o)
  <2>1. UNCHANGED <<doc, shared, req, overwrote>>
    BY <1>3 DEF vars, UseOrder, caseVars, history
  <2> QED
    BY <2>1 DEF AllCanRead, Loaded, Readable
<1> QED
  BY <1>1, <1>2, <1>3 DEF Next

\* As long as no request wrote over another's change, and no meta of the owner
\* named readers or files by itself, every assigned validator can read the
\* owner's file (AssignedCanRead): AssignRepoValidators and AttachRepoFile share
\* before they save, and a failed call saves nothing.
THEOREM AssignedAlwaysRead == Spec => []AssignedCanRead
<1>1. Init => AllCanRead
  BY IdleFits DEF Init, AllCanRead, Loaded, Readable, PlainDoc
<1>2. AllCanRead => AssignedCanRead
  BY DEF AllCanRead, Readable, AssignedCanRead
<1> QED
  BY <1>1, <1>2, ReadersStep, Invariance, PTL DEF Spec


=============================================================================
