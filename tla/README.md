# Formal model of the services of AIValid

AIValid is a platform on which users pay for validation work, hold money in
escrow, and buy from a market.  Money moves through two processes: an ASP.NET
service on MongoDB and Redis (`src/feature-service`), and a Go backend on
PostgreSQL that calls it over HTTP (`src/backend`).  No handler that moves money
is atomic: each is a chain of awaited calls (claim a status, credit a wallet,
roll the status back), another handler may run between any two of them, any of
them may throw, and the process may die after any of them.  That is what this
project models, what TLC checks on small instances, and what TLAPS proves for all
instances.  Beside the money services it models the workflow of a validation case,
which decides who is paid, and the sessions of a user.

## 1. Inventory

### Components, their state and their operations

| component | state | operations that change it |
|---|---|---|
| Escrow transfers (`TransferService*.cs`) | `transfers`: status, hold, case lock key | create, release, cancel, reject, auto-release |
| Auto-release worker (`TransferAutoReleaseHostedService.cs`) | none | periodic sweep of expired `Pending` transfers |
| Disputes (`DisputeService.cs`) | `disputes`: status, one per transfer | create, cancel, continue, mutual refund, resolve, update status; messages, evidence |
| Wallet balances (`WalletService.cs`) | `wallets`, `transactions`, `ledger` | debit, credit, audit; PIN set and verify |
| Ledger backfill (`LedgerBackfillService.cs`) | `ledger` | post the transactions that have no entry |
| Idempotency (`RedisIdempotencyService.cs`, `Secure*Service.cs`) | Redis lock and stored result per key | acquire, store, release, around seven handlers |
| Withdrawals (`WithdrawalService.cs`) | `withdrawals`: status | create, cancel, process (approve, reject) |
| Deposits (`DepositService.cs`) | `deposit_requests`: status | create, approve, reject |
| Market reservations (`MarketPurchaseWalletService.cs`) | `market_purchase_reservations`: status | reserve, capture, release, distribute |
| Market orders (`lzt_market_handler.go`) | `market_purchase_orders`: status | create, the goroutine `processOrderAsync` |
| Profile guarantee (`GuaranteeService.cs`, `user_handler.go`) | `guarantee_locks`: status; a copy of the amount in `users` | set, release, synchronise |
| Case repository workflow (`validation_case_repo_workflow_service.go`, `validation_case_service_ent.go`) | one JSON document per case, readers of documents, the bounty | create, update, delete, attach, publish, apply, assign, vote, finalise |
| Case consultation workflow (`validation_case_workflow_service_ent.go`, `owner_response_sla_worker.go`) | consultation requests, offers, artifact, status and links of the case | request, approve, reject, offer, accept, confirm the lock, submit, confirm the release, attach a dispute; two calls of the feature service; the worker |
| Sessions (`session_service_ent.go`) | `sessions`: used, revoked, expiry, token family | log in, refresh, rotate, travel check, revoke one or all |
| Circuit breaker, e-mail queue (`circuit_breaker.go`, `email_queue.go`) | counters, channel | call, enqueue, work |
| Audit trail, signatures, PIN, moderation, reports, documents, market client, exchange rates, generated code, frontend | various | see section 8 |

`PROJECT.json` lists every component with its sources and status.

### How they interact

* Every money handler calls `WalletService.DeductBalanceAsync` or
  `AddBalanceAsync`.  The wallet is therefore modelled once in detail
  (`WalletService`); the other modules take a credit or a debit as one step that
  happens or throws.
* `TransferService` and `DisputeService` write the same `transfers` documents,
  and the hosted service sweeps them meanwhile.  Their only concurrency control
  is the filter of each `UpdateOneAsync` / `FindOneAndUpdateAsync`, and the unique
  indexes.
* `SecureTransferService` and `SecureWithdrawalService` wrap the handlers in the
  idempotency lock.
* The Go backend calls `MarketPurchasesController` with a 12 s client, from a
  goroutine with a 300 s context.  The controllers take no cancellation token, so a
  call whose client has gone runs on.
* The consultation workflow reads a transfer of the feature service before it
  writes its case; the feature service tells it of auto-releases and settled
  disputes by calls it makes once and does not repeat.
* `GuaranteeService` copies the amount of a guarantee to the Go backend, which asks
  for it in `RequestConsultation`; the release of a guarantee asks the Go backend
  for the cases the validator is engaged in.
* `FinalizeRepoCase` and `CreateValidationCase` reserve and distribute the bounty
  through the market reservations.

### What is hard here

Interleavings of handlers between read and write; stale reads used after an
await; compensations that can themselves fail or be refused by a unique index;
a process that dies between claim and credit; locks that expire under their
holder; answers that arrive after the client gave up; and, for the sweep and the
order workflow, that something must happen in the end.  `PROJECT.json` ("hazards")
lists them at the line where they bite, with the properties that would catch
them.

### What makes each component correct

* Escrow: a transfer pays out at most its amount, to the parties the rules name,
  and pays out in the end.
* Wallet: balance, transactions and ledger agree, but for the calls that overtake an
  audit; no overdraft.
* Idempotency: an operation runs once per key.
* Withdrawals: one active per user, each debit returned at most once, nothing
  lost.
* Deposits: a payment is credited once, and stays approved.
* Reservations: one debit per order, one outcome (captured, refunded or
  distributed).
* Orders: the item and the payment, or neither; every order is decided.
* Case workspace: a case is shown finalised when its order was paid, to those whom the
  owner named and who delivered, unless the owner's client wrote otherwise itself.
* Consultation workflow: status, accepted offer, escrow, artifact and dispute of a
  case agree with each other and with the transfer.
* Guarantee: it stands while its validator is engaged; no money comes of it.
* Sessions: one live session per chain of rotations, at most five, none after a
  log-out of all.

## 2. Modules and how they correspond to the code

| module | models | composed of |
|---|---|---|
| `EscrowState` | the documents, handlers in flight, `Begin`/`Claim`/pay steps | |
| `TransferService` | handlers of `TransferService.Transfers.cs`, the sweep | extends `EscrowState` |
| `DisputeService` | handlers of `DisputeService.cs` | extends `EscrowState` |
| `EscrowContract` | what the escrow promises about the money of a transfer | |
| `Escrow` | both on one set of documents, with crashes; properties | extends both, instances `EscrowContract` |
| `WalletContract` | what a wallet promises: one atomic update per call | |
| `WalletService` | debit, credit, audit, backfill, with and without transactions | instances `WalletContract` |
| `Idempotency` | Redis service and the wrapped handlers | |
| `Withdrawal`, `Deposit`, `MarketReservation` | the three services | |
| `MarketOrder` | the Go workflow, the provider, the network | extends `MarketReservation` |
| `CaseWorkspace` | the repository workflow of a case and its calls of the feature service | |
| `CaseWorkflow` | the consultation workflow of a case; its transfers and disputes with the claim and the credit as two steps | |
| `Guarantee` | the guarantee service composed with the workflow | extends `CaseWorkflow` |
| `Sessions` | the sessions of a user | |
| `MC*` | instances for TLC | |
| `*Proofs` | inductive invariants, theorems and proofs | extend the component |
| `Sums` | lemmas about sums over finite sets | |

Conventions shared by all modules:

* **A step is one awaited call.**  What a handler has read before an await is
  kept in its record (`job`, `call`, `audit`), because the code keeps it in a local
  variable.  `pc` names the call the handler is about to make.
* **A handler whose guard is false returns without effect**, so it is simply not
  begun.  A guard that is tested a second time at the write is a second step.
* **A claim** is a conditional write (`status = new` where `status = old`): an
  `IF` on the current status in one step.
* **Faults.**  Each call may throw, at most `MaxFaults` times; the `catch` blocks of
  the code are the next step.  A write that throws has no effect, in all modules but
  `WalletContract`, which also allows the commit whose answer is lost.
* **Crashes.**  `Crash` stops every handler in flight, at most `MaxCrashes` times;
  documents survive.  In `MarketOrder` the feature service and the Go process die
  independently.
* **Unique indexes** (case lock, dispute per transfer, active withdrawal per user,
  payment reference, order id) are conditions of the write.  The code creates
  them at start-up and only logs a failure; the models assume they are there.
* **History variables** (`payout`, `returned`, `credits`, `refunds`, `payouts`,
  `debited`, `overlapped`, `lost`, `chosen`, `claimed`, `peeked` and others, marked in
  their declarations) record what has been paid, read or said.  No guard reads them.

Per module:

* `Escrow`: `status`, `dispute`, `balance` are the three collections, `expired`
  the passing of `HoldUntil`, `issued` the ids drawn so far.  Amounts are integers; the
  fee and the split of a dispute are computed with the code's truncation
  (`EscrowState!Fee`, `ClaimResolve`).
* `WalletService`: `Transactional` chooses between the MongoDB transaction (one
  atomic step) and the fallback for a standalone server (balance, Transaction and
  ledger entry one after the other, with compensation).  `balance`, `recorded`,
  `ledger`/`posted` are the three collections.  An audit is three steps: it reads the
  sum of the entries, reads the balance, and writes the sum over it.  `overtaken`
  collects the calls committed since an audit read its sum, and `lost` those that had
  overtaken the audit which wrote a balance last.
* `Idempotency`: `TryAcquireAsync` is a read, then `SET NX`; `StoreResultAsync` a
  Redis transaction that stores the result and deletes the lock; `ReleaseAsync`
  deletes the lock whoever holds it.  The operation is a step that succeeds or
  throws without effect.
* `Withdrawal`: create is active check, daily limit, debit, insert, refund; cancel is
  claim, refund, undo; process is approve, or refund then write.
* `Deposit`: create is a look-up then an insert; approve is claim, credit, undo.
* `MarketReservation`: see the table of steps at the head of the module.  `Ops`
  says which calls clients make for an order: market orders are reserved, captured
  and released, bounties of cases are reserved, released and distributed.
* `MarketOrder`: `flow[o]` is where `processOrderAsync` stands, `sold` is the
  provider.  One goroutine serves an order, so it has one call at a time and the
  service's slot for it is the order itself.  `goFaults` counts the failed writes of the
  Go database, `faults` those of the feature service.
* `CaseWorkspace`: `doc` is the column `meta` as `loadRepoMetaState` reads it, `amount`
  the column `bounty_amount`.  A request carries the document it loaded and changed
  (`req[q].doc`) through its calls of the feature service to `Save`, which replaces the
  whole column, as `UpdateOneID(id).SetMeta(meta)` does.  The owner's update
  (`UpdateValidationCase`) brings a document of its own: any member of `Metas`, which
  the theorems leave arbitrary, or the current document with any order.  An order is
  the one reserved for this case (`own`) or any other (`other`); `bounty`, `paid` and
  `shared` are the feature service, by what `MarketReservation` shows of it: a
  distribution pays an order reserved for the same total, answers success without
  paying when it was captured before, and is refused otherwise.  `UseOrder` is what
  else may become of an order.  A call that fails may have taken effect.  What the
  owner's metas said is kept apart in history variables: `chosen` are the validators
  the owner assigned or wrote into a meta as assigned, `uploaded` those with an output
  they attached or a meta listed, `claimed` that a meta brought a finalised stage or a
  payout, `overwrote` that a request wrote over another's change or a meta named
  readers or files nothing was shared for.
* `CaseWorkflow`: `kase` is the row, `consult` and `offer` the rows per validator and
  cycle.  A handler is a read with its checks, perhaps a call (`fetch`), and an update
  by id; only `ClaimAcceptance` is conditional, as in the code.  `raced` records that
  a handler overwrote a row another had changed since it was read.  `notices` are the
  calls of the feature service under way.  A transfer is released or cancelled in two
  steps, as in `TransferService` and `MutualRefundAsync`: the claim writes the final
  status (`EndTransfer`, `AutoRelease`, `MutualRefund`) and leaves the handler with a
  credit to make (`owing`); then `EndCredit` makes it and reports it, or `UndoClaim`
  puts the status back to `Pending` or `Disputed`.  `peeked` records the transfers the
  owner's confirmation found released while the credit was outstanding.
* `Guarantee`: `secured` records the validators who became engaged with a guarantee
  in place and no release under way; `misled` those of them for whom a release looked
  the escrow up while a credit was outstanding; `doubtful` a credit that threw and took
  effect.
* `Sessions`: `row` is the table, `age` the distance to `expires_at`.  `loose` records
  overlapping requests and failed evictions, `closed` a revocation of everything with
  nothing under way that makes a session.

## 3. Runs

Run one with `tlc -workers 2 -config <cfg> <module>` in this directory.  Deadlock
checking is off in every run but `sessions` because the instances come to rest: all
requests handled, nothing left to start.

| run | instance | properties | shows |
|---|---|---|---|
| `escrow` | one transfer, two request slots, one sweep, 2 faults, 1 crash; amount 10051 so that fee and split truncate; splits of 0, 33, 100 % | `NoDoubleSettlement EscrowBacked SettledInFull MoneyConserved ExpiredIsSettled PaidIsFinal` | any two handlers and the sweep on one transfer pay it once; with no trouble it is paid in full; a transfer past its hold is paid or disputed in the end although a call failed |
| `escrow_locks` | two transfers of one validation case, two slots, 1 fault | `ImplementsEscrowContract` | the service refines `EscrowContract`: the loser of the case lock gets its debit back, and only a failing call or a dying process loses money |
| `wallet_transactions` | two wallets, five calls, two audits of one wallet, 2 faults, 1 crash | `OnlyOvertakenCallsLost ImplementsContract` | with transactions a balance differs from its ledger by the calls that overtook its last audit and by nothing else; at the wallets nobody audits the service implements `WalletContract`, which overdraws none |
| `wallet_fallback` | the same calls on a standalone server, a backfill, 2 faults, 1 crash | `QuietBooks PostedIsRecorded` | one failed write is compensated; no entry without its Transaction, whatever fails |
| `idempotency` | three requests of one key, 2 faults, 1 crash, 1 expiry | `MutualExclusion SerialRetriesRunOnce` | the operation runs twice at once only after the lock was lost; a client that waits for answers runs it once |
| `withdrawal` | three withdrawals of one user, two cancellations, one administrator, 2 faults, 1 crash | `OneActive UserRefundsOnce BooksBalance` | create and cancel return a debit once; a user never has more than at first, and exactly that at every step while nothing fails |
| `deposit` | three reports of two payments, three administrators, 2 faults, 1 crash | `PaymentCreditedOnce CreditedIsApproved ApprovedIsCredited` | a payment is credited once; one failed call loses nothing |
| `market` | a market order and a bounty, three call slots, 2 faults, 1 crash, a recipient who spends | `RefundedOnce QuietOrderIsSettled OneOutcome` | one refund per order; while nothing fails, the status of a bounty at rest says where the money went; with one failed call nobody is paid twice |
| `order` | two orders of one buyer for one item, 1 each of: fault of the service, fault of the Go database, crash, lost call, expired context, Go restart, amount spent elsewhere | `AllOrNothing FulfilledIsPaid CapturedIsSold OrderIsSettled OrderEnds` | nothing is delivered unpaid or captured unsold; an order is paid once, and while its service lives the reservation says where its money is, which may stay held for a failed order; every order is decided unless the Go process dies |
| `case_workspace` | an owner and two validators, two requests at once of five, 1 failing call or death; a bounty of 3 that two winners cannot halve, or 4; four metas of the owner: plain, of another family, with forged assignments and outputs, finalised and paid by its own word | `FinalizedIsPaid WinnersEarnedIt RecordedPayoutIsPaid AssignedCanRead` | whatever document overwrites which, and up to what the owner's metas said themselves: a finalised case had its order used up, nobody is paid whom the owner did not name or who has no output, a recorded payout was paid, and assigned validators can read the owner's file |
| `case_guarantee` | two validators, two cycles, two transfers, a dispute, two requests, a credit that fails after the transfer was marked; guarantee calls of one validator (four budgets, `MCBudgets`) | `LinksAgree CompletedIsReleased OneAcceptedPerCycle GuaranteeStands GuaranteeMoneyKept` | the links of a case agree with each other and with the escrow, however late or lost the calls between the services; a case completes only for an escrow released for good or seen released; an engaged validator's guarantee stands but for a release that was shown a status which is taken back |
| `sessions` | four sessions, two requests, a limit of two | `OneLivePerFamily SessionLimit LoggedOutStaysOut` | rotation leaves one live session; the limit and the log-out hold under the stated conditions |

The comment above each property in its module states it in full, with the
conditions under which the code keeps it.

### Bounds and why they are enough

* `MaxFaults = 2` where a property speaks of one failure: the first failure
  enters a compensation, the second hits the compensation itself.  Properties
  that hold only up to one failure say so in their premise, and hold
  unconditionally of faults otherwise.
* `MaxCrashes = 1`: a crash empties every slot; a second one would start from a
  state that requests alone can also reach.
* Two request slots and one sweep for the escrow: every handler claims by one
  conditional write, and the races found need two handlers.  Withdrawals,
  deposits, reservations and idempotency have three contenders, since an expired
  or deleted lock needs a third request to matter.
* `case_workspace`: five requests take a case from its creation through application,
  assignment and upload to a payment; a meta of the owner that names validators and
  outputs shortens this to three, so that two more (a vote, another meta, a second
  finalisation) overlap any of them.  `MinUploads` is 1 where the code has 3: with
  three validators the state space is out of reach, and the theorems have it
  arbitrary, as they have `Metas`.  The assumption `SplitIsComplete` of the MC module
  checks `splitAmountEvenly` for all bounties up to its bound: the shares add up to
  the bounty.
* `case_guarantee`: two cycles are needed for what survives an owner refund, one overlap
  for every race of two handlers.  A budget has an overlap or a second transfer, not
  both: a handler of one transfer that writes after one of another is what `raced`
  stands for, and the properties end there.  What the workflow and the guarantee
  service do to each other needs one call, one transfer and one credit; two calls of
  the guarantee service race only over the guarantee, so that budget needs no transfer.
* `sessions`: four rows are two log-ins and two rotations, or one eviction and a
  rotation beside it.
* One user or two: wallets interact only through one document's status.
* The theorems of section 5 remove the bounds for the properties they state.

### Mutants

For every property of a passing run the project keeps one mutated definition,
placed before the definition it mutates and commented `Mutant:`: a dropped status
filter, a compensation left out, a claim after the payment, a best-effort call.
Used in place of the original, each breaks its property under the run's
configuration (`PROJECT.json`, "mutants").

## 4. Fairness

* `Escrow!FairSpec`: weak fairness of each handler's steps (`Proceed`), since the
  runtime resumes an awaited call, and of `BeginAutoRelease`, since the hosted
  service sweeps at start-up and then at a fixed interval (10 to 3600 s) for as
  long as the process lives, and catches exceptions of a sweep.  No fairness of
  requests, of `Expire`, or of the ability of a call to succeed: faults are bounded
  instead, which says that calls do not fail for ever.
* `MarketOrder!FairMarketSpec`: weak fairness of the goroutine (`Workflow`) and
  of the service (`Serve`).  A wait for an answer ends because the client gives up
  after 12 s and the context after 300 s.  A restart of the Go process is not
  followed by a resumption of its orders, because the code has none; `OrderEnds`
  excludes that case.

## 5. Proofs

`tlapm <module>` checks each of the eight proof modules: one for the escrow, the
wallet, the market (reservations and orders) and the case workspace each;
`WithdrawalProofs` holds the proofs about `Idempotency` too, `GuaranteeProofs`
those about `CaseWorkflow`, `DepositSessionProofs` those about `Deposit` and
`Sessions`, and `Sums` the lemmas three of them share.  The inductive invariants are
defined at the head of the proof modules.  All constants are arbitrary (any number of
users, documents, slots, faults, crashes), subject only to the named `ASSUME` of the
module that declares them: types of the constants, null values outside their sets,
and finitely many users and documents where money is summed over them.

| theorem | states |
|---|---|
| `EscrowProofs!TypeCorrect` | balances stay natural numbers, handlers well formed |
| `EscrowProofs!NeverPaidTwice` | `NoDoubleSettlement` |
| `EscrowProofs!EscrowIsBacked` | `EscrowBacked` |
| `EscrowProofs!PaidStatusIsFinal` | `PaidIsFinal`, an action property |
| `EscrowProofs!SettlementIsFull` | `SettledInFull` |
| `EscrowProofs!MoneyIsConserved` | `MoneyConserved` |
| `EscrowProofs!EscrowKeepsContract` | `ImplementsEscrowContract`: the handlers together refine `EscrowContract` |
| `WalletProofs!AuditsLoseOnlyOvertaken` | `OnlyOvertakenCallsLost`, given `Transactional` |
| `WalletProofs!NoOverdraft` | `NeverOverdrawn`, which no run checks (the contract implies it), given `Transactional` |
| `WalletProofs!TransactionalImplements` | `ImplementsContract`: the service refines `WalletContract`, given `Transactional` |
| `WalletProofs!PostingIsRecorded` | `PostedIsRecorded`, with and without transactions |
| `WalletProofs!BooksAtRest` | `QuietBooks`, with and without transactions |
| `WithdrawalProofs!LockExcludes`, `SerialClientRunsOnce` | `MutualExclusion`, `SerialRetriesRunOnce` |
| `WithdrawalProofs!OneActiveAlways`, `CancelRefundsOnce`, `NoOverdraft` | `OneActive`, `UserRefundsOnce`, and `NeverOverdrawn`, which no run checks |
| `WithdrawalProofs!BooksAlwaysBalance` | `BooksBalance` |
| `DepositSessionProofs!CreditOnce`, `CreditKeepsApproval`, `ApprovalIsCredited` | `PaymentCreditedOnce`, `CreditedIsApproved`, `ApprovedIsCredited` |
| `MarketProofs!RefundOnce`, `OneOutcomeOnly` | `RefundedOnce`, `OneOutcome` of the reservations |
| `MarketProofs!QuietSettled` | `QuietOrderIsSettled`: while no call has failed and no process died, the status of an order without calls under way says where its money is; nothing is said of orders that may be captured |
| `MarketProofs!WalletsSolvent` | no wallet is overdrawn, which no run checks |
| `MarketProofs!FulfilledPaid`, `CapturedSold`, `AllOrNothingAlways` | `FulfilledIsPaid`, `CapturedIsSold`, `AllOrNothing` of the order workflow |
| `MarketProofs!OrdersUseReservations` | the order workflow implements `MarketReservation`; hence `OrderRefundedOnce`, `RefundedOnce` of its orders |
| `MarketProofs!OrderSettled` | `OrderIsSettled` |
| `CaseWorkspaceProofs!FinalizedMeansPaid`, `OnlyEarnersPaid`, `RecordIsPayment`, `AssignedAlwaysRead` | `FinalizedIsPaid`, `WinnersEarnedIt`, `RecordedPayoutIsPaid`, `AssignedCanRead` |
| `GuaranteeProofs!LinksAlwaysAgree`, `CompletedReleased`, `OneAccepted` | `LinksAgree`, `CompletedIsReleased`, `OneAcceptedPerCycle` of the workflow composed with the guarantee |
| `GuaranteeProofs!GuaranteeAlwaysStands`, `MoneyAlwaysKept` | `GuaranteeStands`, `GuaranteeMoneyKept` |
| `DepositSessionProofs!OneLiveAlways`, `LimitKept`, `LoggedOut` | `OneLivePerFamily`, `SessionLimit`, `LoggedOutStaysOut` |
| `DepositSessionProofs!ExchangedOnce` | `TokenExchangedOnce`: no token has two successors |

Each follows the same plan: the inductive invariant holds initially, every action
preserves it (one lemma per action, or per group of actions that change the same
variables), it implies the property, and `PTL` combines the three.  The type
invariant is a conjunct of each inductive invariant and is not a property of its own
in the runs.

* **Escrow** (`IInv`).  `NoDoubleSettlement` is not inductive: nothing in
  it forbids two handlers that both owe the money.  `OneOwner` says that a transfer
  has at most one handler between claim and payment, and that it holds the transfer
  in a final status, which no other claim accepts; `OwnerOwes` that what it still
  owes fits into what is left, and that a handler that may still roll back has paid
  nothing; `OneCreator` and `HasTransfer` keep creation apart from settlement.
  `SettledInFull` speaks of transfers nobody works on; `OwedInFull` adds those that
  have an owner: what was paid and what the owner still owes are together the whole
  amount.  A credit moves a sum from one to the other, and a claim takes on exactly
  what the fee and the split leave (`SplitInFull`: nothing released means all of it
  refunded, because the truncated fee of a positive rest is less than the rest).
* **Money of the escrow** (`RefundsExplained`, beside `IInv`).  Every step does one of
  three things (`MoneyStep`): nothing to the money (`Same`), an amount from a transfer
  to a wallet or back (`Moves`), or a deduction nobody holds any more (`Drops`), which
  takes a crash or a failure that `NoLoss` excludes.  `RefundsExplained` says when a
  handler has only one attempt to refund: after a failure, or for the loser of a case
  lock.  The lemmas of `Sums` carry each step to the sum over all users and transfers.
* **Contract of the escrow**.  `Escrow!Stage` maps the documents and the handlers in flight
  to the stages of `EscrowContract`: a transfer is open until its creator has deducted,
  taken until the document exists or the deduction is back, then held; `left` is
  `InEscrow`.  A handler may still pay out of a transfer in a final status, and a rollback
  makes it `Pending` again, without a change of stage.  Most steps change no stage
  (`Passes`): each of them either stutters, or pays one party of one transfer and no
  more than is left, which takes `OwnerOwes`; that the stages of all other transfers
  stand takes `OneCreator`.
* **Sums** (`Sums`).  The induction theorems of the library take an operator and cannot
  be instantiated by the installed provers.  Each induction is therefore on a smallest
  counterexample: strict inclusion is well-founded on the subsets of a finite set
  (`FS_StrictSubsetOrderingWellFounded`), so a set of counterexamples that is not empty
  has a smallest member (`Smallest`), which one of the unfoldings of the sum refutes.
  `SumIs` reduces the recursion of the library's fold to two equations; the rest says
  what one element more, one term changed, or smaller terms do to a sum.
* **Wallet** (`TxInv`).  Balance and ledger agree; a call is recorded and posted
  exactly when it has committed (`Progress`), so a backfill finds nothing to post;
  and an open transaction owns its wallet's document, so the balance it tested is
  the balance it changes (`OpenOwns`).  The refinement maps the committed balance
  to the contract's and projects onto the wallets nobody
  audits: an audit overwrites a balance with a sum it read earlier, which the
  contract does not allow.  `UndisturbedAgrees` extends the agreement to an audited
  wallet until its only audit has written; with two audits of one user it is false,
  since the second repairs what the first overwrote with a stale sum.
  `PostedIsRecorded` needs no transactions: `RecordedFirst` says that whoever is about
  to post an entry, the call or a backfill, found the Transaction written.
  `QuietBooks` speaks of a service at rest; `RunningBooks` is its form in mid-flight: the
  balance is the sum of the calls recorded and of those that have still to record or to
  take back (`Standing`).  `RecordsInOrder` says that a recorded call never compensates,
  and that a compensation follows a fault, so that with one fault no compensation fails.
* **Idempotency** (`LockInv`, `SerialInv`).  A request that runs the operation owns
  the lock unless the lock was lost; for a client whose requests do not overlap,
  a success leaves the stored result in place.
* **Withdrawal** (`IInv`).  `ClaimedOnce` relates the status, the cancellation that
  has claimed a withdrawal and the refunds made: a withdrawal has at most one
  claimant, and while it is claimed or once a cancellation has refunded it, it is not
  `Pending`, which a new claim would need.  `NotYetThere` and `OnExisting` keep the
  refund of a creation, made only when no document was inserted, apart.  Nothing is needed of
  the administrator, whose refunds are not bounded by this invariant.  `BooksBalance`
  adds what each withdrawal holds (`Held`): a step changes the wallet of one user and the
  term of one withdrawal (`Sums`), by opposite amounts or to the user's loss, and
  `RejectsExist` says that no refund of an administrator is for a document that
  does not exist.
* **Deposit** (`IInv`).  `OneOwner`: an approved, uncredited deposit has at most one
  approval in flight; `OneDepositPerPayment` is the unique index.  `NothingLost` adds
  that an approval keeps its handler until it is credited, unless two calls have failed
  or the process died.
* **Market reservation** (`IInv`).  `OneOwner`: at most one release or distribution is
  between its claim and its end; until it has credited the buyer nothing was
  refunded, and an order that is still `reserved` never was.  `CaptureAsync` may
  overwrite the claimed status, so the owner is tracked by its step and not by the
  status alone.
  `QuietOrderIsSettled` and `OneOutcome` follow from what each step of a call implies
  about its order (`OutcomeInv` and its parts): a distribution has paid
  exactly the recipients it remembers.  `OneOutcome` is stated for orders whose
  recipients buy nothing themselves (`PaysOthers`): a recipient who reserves an order
  of its own may spend a share before it is taken back.
* **Market order** (`MarketInv`).  `Journey` says for each place of `processOrderAsync` what
  the order, its reservation and the provider look like there, including a call the
  client has given up on and the service still runs.  `MarketSpec` implements the
  specification of the reservations (`OrdersUseReservations`, from `MarketStep`, which
  says what each step of the workflow is for the service), so theorems about
  reservations hold of orders.  `OrderIsSettled` says more than `QuietOrderIsSettled`, which
  is silent about orders that may be captured: since the goroutine of an order makes one
  call at a time and ends with a capture or a release, its slot alone explains the books
  (`BooksFit`), with the answer heard or not.
* **Case workspace** (`IInv`).  Any document in flight may be saved over any other, so
  no invariant of the saved document alone is inductive: what is claimed of it has to
  hold of every copy a request carries, those the owner's client sent included.
  `AllEarned` says so for assignments, outputs and shares; `AllFinalizedArePaid` and
  `AllPayoutsMatch` except only the copy of a request that is about to pay, which is
  ahead of the payment until `Distribute` makes it true, and what the owner's metas
  brought (`claimed`).  A distribution that is answered without paying, because the
  order was used before, finalises a case as well (`Answered`).  `OneCreator` keeps a
  late `Reserve` from reopening a paid order.  `AllCanRead` relates the assignments a
  request carries to those saved: an assignment is shared before it is saved, a file
  before it is attached, and `Loaded` says which of the two a request has still to do.
* **Consultation workflow and guarantee** (`WorkflowInv`, `GuaranteeInv`).  `Claimed`, the
  accepted offer, is made by one conditional transaction and holds without
  condition, as does `TransfersSound`: a credit is outstanding only for a transfer in a
  final status, and whoever is told of a release is told after its credit.  The rest
  holds until a handler overwrites what it has not read (`raced`): until then every
  request under way has a fresh view of what it will write (`Fresh`), and links, cycle
  and transfers fit (`Linked`, `Cycled`).  What a request knows of a released transfer
  has to survive the rollback of its status; `SeenReleased` does, because it asks for
  the credit, or that the request was shown the status before it.  For the
  guarantee, `Stands` says that a release of a secured validator's guarantee that is
  under way has asked about the case's own escrow and will be refused; a transfer that
  is shown as settled while its credit is outstanding makes the validator `misled` at
  that step.  The attempts to prove it without `~raced` and without `misled` failed for a
  reason each: a second overlapping `ConfirmLockFunds` gives the case another escrow
  than the one the release asked about, and section 6 tells of the other.  `MoneyKept`
  counts balance, guarantee and calls in flight of one validator, with the
  cardinalities of `FiniteSetTheorems`.
* **Sessions** (`SessionsInv`).  `OneLivePerFamily` is not inductive, because `Rotate` does not
  ask whether the session it replaces was revoked: `OneUnusedPerFamily` drops the
  revocations, and `RowsFit` says that a used session is revoked.  For the limit,
  `HasRoom` counts the session a request will replace as if it were still active,
  since it may expire or be revoked before its successor is inserted; the
  cardinalities are those of `FiniteSetTheorems`.

Only model-checked: the liveness properties `ExpiredIsSettled` and `OrderEnds`,
because liveness under fairness is beyond the prover.  Every other property of the
runs is stated by a theorem.

## 6. Where the code does less than it says

Places where a comment or a message promises more than the code keeps.  No run states
the broken promise; the properties state what does hold.

1. `CreateDisputeAsync` looks for an existing dispute before it claims the
   transfer, "Update transfer status to Disputed first (acts as a concurrency lock)"
   (`DisputeService.cs:79`).  A second request that read before the first inserted can
   claim again after the first dispute was closed and the transfer thawed; the
   duplicate key is reported as success, and the transfer stays `Disputed` with nobody
   able to decide it.  `EscrowBacked` holds: its money is still there.
2. `TryAcquireAsync` reads the result and sets the lock in two commands
   (`RedisIdempotencyService.cs:57`); `IIdempotencyService.cs:4` says the service
   ensures a transaction is not executed twice.  A request that read before the first
   stored, and locks after it released, runs the operation again.
   `SerialRetriesRunOnce` says for whom it does run once.
3. `ProcessWithdrawalAsync` refunds before it writes, and writes by id alone, so a
   rejection and a cancellation both refund (`WithdrawalService.cs:408`), where
   `CancelWithdrawalAsync` updates the "status first to prevent double-refund"
   (`:288`).  No endpoint calls it at this commit.  `UserRefundsOnce` bounds the refunds
   of creation and cancellation.
4. `RecalculateBalanceFromLedgerAsync` writes the sum it has read over whatever was
   committed since (`WalletService.cs:286`), while its comment says "Update wallet balance
   if different (fix discrepancy)" (`:273`).  A wallet in order is put out of order by its
   own audit: a credit committed in between is gone from the balance, a debit is given
   back, until the next audit.  `OnlyOvertakenCallsLost` says that nothing else is lost.
5. `ReleaseTransferAsync` writes `Released` before the credit and takes it back when
   the credit throws (`TransferService.Transfers.cs:59`, `:84`); a mutual refund does the
   same with `Cancelled` and `Disputed` (`DisputeService.cs:697`, `:726`).
   `MarkEscrowReleased` asks for the status alone (`validation_case_workflow_service_ent.go:1936`).
   A confirmation in between completes the case, of which its page then says "Dana
   escrow telah dirilis." (`ValidationCaseDetailClient.jsx:163`), with the funds back in
   escrow.  `CompletedIsReleased` names this read (`peeked`) as the only way to it.
6. The release of a guarantee looks at the same status (`GuaranteeService.cs:297`), while
   its message promises to refuse as long as there is an unsettled escrow ("masih ada
   escrow/dispute Validation Case yang belum selesai", `:306`).  A look in between lets
   the guarantee of an engaged validator go.  `GuaranteeStands` names these validators
   (`misled`) as the only ones.
7. `CreateValidationCase` persists the order of the bounty by `mergeRepoMeta`
   (`validation_case_repo_workflow_service.go:297`), which writes other keys than
   `loadRepoMetaState` reads (`:95`), although a failure to save them is an error
   ("Failed to persist validation case reserve metadata",
   `validation_case_service_ent.go:361`).  `FinalizeRepoCase` refuses such a case ("reserve
   bounty belum aktif", `:1758`) until a meta of the owner names an order.  In the model
   the created document therefore has the order its client sent, or none.

## 7. Observations

Facts met while modelling that the properties take into account, as the
conditions in their premises.

Escrow
* A crash between claim and credit leaves a transfer final and unpaid, and nothing
  repairs it (`TransferService.Transfers.cs:413`): settlement is at most once.
* `ResolveDisputeAsync` does not roll back when a credit throws
  (`DisputeService.cs:426`, `:463`).
* `UpdateStatusAsync` of a dispute writes by id alone (`DisputeService.cs:578`).
* The unique index on the case lock can refuse the rollback to `Pending`
  (`TransferService.Transfers.cs:450`); a case transfer then stays `Released` and
  unpaid.
* Rejecting a `Disputed` transfer leaves its dispute open.

Wallet
* On a standalone server: the compensation of a credit can make a balance negative
  (`:559`), a crash can separate the balance from its Transaction (`:381`), and a
  backfill beside a running call can post an entry twice
  (`LedgerBackfillService.cs:105`).
* Concurrent transactions on one wallet conflict, and the conflict is not retried,
  so the failed credits of the other modules can be caused by load alone.

Idempotency
* The stored result is written in camel case and read in Pascal case
  (`RedisIdempotencyService.cs:112`, `SecureWithdrawalService.cs:465`,
  `SecureTransferService.cs:547`), so a replay is refused as a duplicate and not
  answered with the stored result.

Withdrawals and deposits
* The daily limit is tested before the debit (`WithdrawalService.cs:112`); only the
  index on active withdrawals limits the race.
* A crash between debit and insert (`:157`) or an insert whose answer is lost
  (`:194`) separates money from the document; a rollback of a cancellation that the
  index refuses (`:325`) leaves it cancelled and not refunded.
* An approval that dies between claim and credit leaves the deposit approved and
  uncredited (`DepositService.cs:371`, `:384`).

Market
* `CaptureAsync` writes over whatever the order has become since it was read
  (`MarketPurchaseWalletService.cs:178`).
* `DistributeAsync` ignores a compensation that is refused because the recipient has
  spent the money (`:450`).
* `ReserveAsync` keeps the debit when the insert fails with anything but a duplicate
  key (`:111`).
* An order that fails because the answer to its reserve was late leaves the money
  held (`lzt_market_handler.go:2112`); a purchase whose answer is lost is refunded
  though sold (`:2242`); the release of an order whose context is over is not sent
  (`:2250`); the price refreshed after the reserve may differ from the captured
  amount (`:2207`).

Case workspace (`validation_case_repo_workflow_service.go`)
* Requests overwrite each other's document (`:1684`): votes, files, applications and
  assignments are lost, and a late save puts a finalised case back in review, with
  its status `completed`.
* `UpdateValidationCase` stores any meta of the owner (`validation_case_service_ent.go:461`;
  `sanitizeCaseMeta` removes one contact field), and `loadRepoMetaState` reads stage,
  assignments, files, votes, payout and order back from it.  By its own word a case is
  finalised and paid, and its validators are assigned or have delivered; the properties
  say what holds up to that word.
* The order of a case is any its owner names: one reserved for another case, or one that
  is captured already, for which `DistributeAsync` answers success and pays nothing.
* A second `FinalizeRepoCase` (after a failed save, or overlapping) is answered success
  for the paid order and records its own winners, who may be others than those paid.
* A bounty the owner changes after the reservation makes the distribution fail, since
  the totals differ.
* `DeleteValidationCase` does not release the bounty, and a reserve whose answer is
  lost leaves it held for a case that is then discarded.

Consultation workflow (`validation_case_workflow_service_ent.go`)
* Approve and reject check the status before and not at the write (`:902`, `:963`): the
  last one wins.  Every update by id may put back what another handler changed
  (`:1788`, `:1863`, `:1946`, `:2000`, `:2173`), for example an escrow linked to a case
  that an owner refund has just opened.
* The artifact row is unique per case and never removed, so in a second cycle
  `SubmitArtifact` always fails at the insert (`:1855`) and the case can complete only
  through a dispute released to the validator.
* `AttachDispute` asks for no status of the case or the dispute (`:2139`); an artifact
  submitted during a dispute overwrites `disputed`.  A release by dispute completes the
  case without certifying its artifact (`:2114`).  A split resolution is not
  reported at all (`DisputeService.cs:538`).
* `ProcessOwnerResponseSLA` normalises first and then looks for requests that
  normalisation has just approved, so its reminders and time-outs are reached by no
  request of a current cycle.

Guarantee (`GuaranteeService.cs`)
* An approval between the check and the claim of a release (`:145`, `:159`) is not
  seen; a pending request does not lock, and `ApproveConsultationRequest` does not ask
  for the stake again.
* A validator who was approved and not chosen cannot release once another's
  escrow is linked, until the cycle ends (`:291`).
* The copies of the amount may arrive out of order or not at all (`:403`); a read of
  the guarantee repairs them.
* A credit that throws after taking effect is rolled back (`:182`) and can be taken a
  second time.

Sessions (`session_service_ent.go`)
* The branch for a used token (`:159`), with grace period, `RevokeTokenFamily` and
  `LockAccount`, is never reached: used and revoked are set in one transaction and
  revoked sessions are refused before it.  `CleanupExpiredSessions` has no caller.
* A refresh whose travel check revokes every session goes on and, near expiry, makes a
  live successor (`:244`, `:346`); so does one that races a log-out of all.
* Overlapping log-ins exceed the limit (`:44`).  A log-in by passkey does not ask whether
  the user is locked.

## 8. What is left out

Within the modelled parts: the PIN (handlers start after a valid one), argument
validation, DTO mapping, queries, notifications, messages and evidence of
disputes.  The statuses `Expired` of a transfer and `Processing` of a withdrawal are
declared in the code and never assigned, so the models do not have the first and
never reach the second.  The daily limit is modelled for one day.  The shares of a
distribution add up to the reserved amount, as its caller computes them
(`MCCaseWorkspace!SplitIsComplete`).  An
administrator's substituted deposit amount is not modelled.  Of the case workflows:
texts, tags, the case log, matching scores, the administrator's change of a case's
owner (`AdminMoveValidationCase`), and, in `CaseWorkflow`, the deletion of the case; a case
is in one of the two workflows.  The guarantee's locks by workspace assignments
(`ListConsultationGuaranteeLocksForValidator`, second half) are left out, since
`Guarantee` is composed with `CaseWorkflow` only.  Amounts are far from the
width of `long`.

Of the document of a case (`CaseWorkspace`): a user has one file, and a document listed
by a meta belongs to the user it is listed for; a meta names validators the model has,
and not the owner as one of them; votes are one per user, as `normalizeConfidenceVotes`
leaves them; the panel, the verdict and the vesting fields of earlier versions are not
read by a handler that writes.  A distribution to a recipient without a share (a bounty
smaller than the number of winners) is not modelled.  Of the transfers of
`CaseWorkflow`: a resolved dispute is one step, since
`ResolveDisputeAsync` does not roll back, and a transfer whose process died before the
credit stays in its final status with the credit outstanding.

Not modelled: cryptography (PIN hashing, signatures, the hash chain of the audit
trail); input and output (market client, exchange rates, geolocation); create,
read, update and delete of single documents (moderation, reports, documents);
generated persistence code, which is most of the lines of the Go backend and is not
mapped; the frontend; credentials, passkeys, one-time codes and sudo sessions; the
circuit breaker, the e-mail queue and its rate limiter, which are counters and a
channel behind one mutex each.

## 9. Plan

Done: the escrow with disputes and sweep, the wallet with its contract, idempotency,
withdrawals, deposits, reservations, the market order workflow, both workflows of a
validation case, the guarantee, the sessions, and the proofs of section 5.

Next:

1. That `bounty` and `paid` of `CaseWorkspace` are an abstraction of `MarketReservation`.
2. A contract for deposits and withdrawals like `EscrowContract`, so that one abstract
   specification of the money covers all services.
3. Dispute messages and evidence, if they gain state that another handler reads; the
   circuit breaker, whose half-open state is left only by an answer of the probe.
