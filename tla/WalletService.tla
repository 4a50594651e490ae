---------------------------- MODULE WalletService ----------------------------
(***************************************************************************)
(* Services/WalletService.cs (the money operations) and                    *)
(* Services/LedgerBackfillService.cs.                                      *)
(*                                                                         *)
(* DeductBalanceAsync and AddBalanceAsync write three documents: the       *)
(* wallet's balance, a Transaction and a TransactionLedger entry.  Against *)
(* a replica set they do so in one MongoDB transaction; against a          *)
(* standalone server they fall back to three separate writes, the ledger's *)
(* one "best effort", with a compensation when the Transaction cannot be   *)
(* written.  RecalculateBalanceFromLedgerAsync and BackfillAsync repair    *)
(* one of the three from another, without a transaction.                   *)
(***************************************************************************)
EXTENDS Integers, FiniteSets, Functions

CONSTANTS
    Users,
    Calls,           \* calls of DeductBalanceAsync and AddBalanceAsync
    User,            \* [Calls -> Users]
    Delta,           \* [Calls -> Int \ {0}]: negative for a debit
    Audits,          \* calls of RecalculateBalanceFromLedgerAsync
    AuditUser,       \* [Audits -> Users]
    Backfills,       \* slots in which BackfillAsync runs
    Transactional,   \* the server is a replica set: it supports transactions
    NoCall,
    MaxFaults,       \* bound: database calls that throw
    MaxCrashes       \* bound: deaths of the service process

ASSUME WalletAssumption ==
    /\ IsFiniteSet(Calls)
    /\ User \in [Calls -> Users]
    /\ Delta \in [Calls -> Int] /\ \A c \in Calls : Delta[c] # 0
    /\ AuditUser \in [Audits -> Users]
    /\ Transactional \in BOOLEAN
    /\ NoCall \notin Calls
    /\ MaxFaults \in Nat /\ MaxCrashes \in Nat

VARIABLES
    exists,     \* users that have a wallet document
    balance,    \* UserWallet.Balance, as committed
    recorded,   \* calls whose Transaction document exists
    posted,     \* number of ledger entries that carry the call's transaction id
    ledger,     \* per user, the sum of those entries
    pc,         \* where each call stands
    answer,     \* what its caller has been told
    audit,      \* the audits in flight and the sum each has read
    backfill,   \* per slot, the transaction found without a ledger entry
    faults,
    crashes,
    overtaken,  \* history: per audit, the calls committed since it read its sum
    lost        \* history: per user, the calls that had overtaken the audit
                \* that wrote the balance last

hist == <<overtaken, lost>>

vars == <<exists, balance, recorded, posted, ledger, pc, answer, audit,
          backfill, faults, crashes, hist>>

(***************************************************************************)
(* idle        not made yet                                                *)
(* update      the wallet exists, about to change its balance              *)
(* open        transactional: balance changed inside an open transaction   *)
(* record      fallback: balance changed, about to insert the Transaction  *)
(* post        fallback: Transaction inserted, about to insert the ledger  *)
(*             entry                                                       *)
(* compensate  fallback: the insert threw, about to undo the change        *)
(* done        returned or thrown                                          *)
(***************************************************************************)
Pcs == {"idle", "update", "open", "record", "post", "compensate", "done"}

TypeOK ==
    /\ exists \subseteq Users
    /\ balance \in [Users -> Int]
    /\ recorded \subseteq Calls
    /\ posted \in [Calls -> Nat]
    /\ ledger \in [Users -> Int]
    /\ pc \in [Calls -> Pcs]
    /\ answer \in [Calls -> {"none", "ok", "refused", "threw"}]
    /\ audit \in [Audits -> [pc : {"idle", "compare", "write", "done"}, sum : Int]]
    /\ backfill \in [Backfills -> Calls \cup {NoCall}]
    /\ faults \in Nat /\ crashes \in Nat
    /\ overtaken \in [Audits -> SUBSET Calls]
    /\ lost \in [Users -> SUBSET Calls]

Init ==
    /\ exists = {}
    /\ balance = [u \in Users |-> 0]
    /\ recorded = {}
    /\ posted = [c \in Calls |-> 0]
    /\ ledger = [u \in Users |-> 0]
    /\ pc = [c \in Calls |-> "idle"]
    /\ answer = [c \in Calls |-> "none"]
    /\ audit = [a \in Audits |-> [pc |-> "idle", sum |-> 0]]
    /\ backfill = [b \in Backfills |-> NoCall]
    /\ faults = 0
    /\ crashes = 0
    /\ overtaken = [a \in Audits |-> {}]
    /\ lost = [u \in Users |-> {}]

-----------------------------------------------------------------------------
(* Helpers.                                                                *)

Fault == faults < MaxFaults /\ faults' = faults + 1

\* The balance after the call would not be negative.
Covered(c) == balance[User[c]] + Delta[c] >= 0

\* Another call's open transaction has an uncommitted write to the wallet.
\* A second transaction that writes the document gets a WriteConflict error;
\* a write outside any transaction waits.
Locked(u) == \E c \in Calls : pc[c] = "open" /\ User[c] = u

Change(c) == balance' = [balance EXCEPT ![User[c]] = @ + Delta[c]]

Goto(c, p) == pc' = [pc EXCEPT ![c] = p]

Return(c, a) ==
    /\ pc' = [pc EXCEPT ![c] = "done"]
    /\ answer' = [answer EXCEPT ![c] = a]

\* A ledger entry with the call's transaction id is inserted.
Post(c) ==
    /\ posted' = [posted EXCEPT ![c] = @ + 1]
    /\ ledger' = [ledger EXCEPT ![User[c]] = @ + Delta[c]]

\* The audit has read a sum and not yet written, or not found it unnecessary.
Auditing(a) == audit[a].pc \in {"compare", "write"}

\* The commit of c overtakes the audits of its user.
Overtake(c) ==
    overtaken' = [a \in Audits |->
                     IF AuditUser[a] = User[c] /\ Auditing(a)
                     THEN overtaken[a] \cup {c} ELSE overtaken[a]]

-----------------------------------------------------------------------------
(* DeductBalanceAsync and AddBalanceAsync.                                 *)

\* GetOrCreateWalletAsync: the unique index on userId makes the insert of a
\* second creator fail, and that creator reads the winner's document.
GetOrCreateWallet(c) ==
    /\ pc[c] = "idle"
    /\ exists' = exists \cup {User[c]}
    /\ Goto(c, "update")
    /\ UNCHANGED <<balance, recorded, posted, ledger, answer, audit, backfill,
                   faults, crashes, hist>>

\* A debit whose filter (balance at least the amount) matches nothing.
RefuseDebit(c) ==
    /\ pc[c] = "update"
    /\ Delta[c] < 0 /\ ~Covered(c)
    /\ Return(c, "refused")
    /\ UNCHANGED <<exists, balance, recorded, posted, ledger, audit, backfill,
                   faults, crashes, hist>>

\* Mutant: the balance is tested by an earlier read and not by the filter.
UpdateUnchecked(c) ==
    /\ Transactional /\ pc[c] = "update"
    /\ IF Locked(User[c])
       THEN Return(c, "threw")
       ELSE Goto(c, "open") /\ UNCHANGED answer
    /\ UNCHANGED <<exists, balance, recorded, posted, ledger, audit, backfill,
                   faults, crashes, hist>>

\* FindOneAndUpdate inside the transaction; the Transaction and the ledger
\* entry that follow are new documents, seen by nobody before the commit.
UpdateInTransaction(c) ==
    /\ Transactional /\ pc[c] = "update"
    /\ Delta[c] < 0 => Covered(c)
    /\ IF Locked(User[c])
       THEN Return(c, "threw")
       ELSE Goto(c, "open") /\ UNCHANGED answer
    /\ UNCHANGED <<exists, balance, recorded, posted, ledger, audit, backfill,
                   faults, crashes, hist>>

\* CommitTransactionAsync.  When the answer to the commit is lost the caller
\* gets an exception although all three documents are written.
Commit(c) ==
    /\ pc[c] = "open"
    /\ Change(c)
    /\ recorded' = recorded \cup {c}
    /\ Post(c)
    /\ \/ Return(c, "ok") /\ UNCHANGED faults
       \/ Fault /\ Return(c, "threw")
    /\ Overtake(c)
    /\ UNCHANGED <<exists, audit, backfill, crashes, lost>>

\* An exception inside the transaction, or from the update of the fallback.
CallThrows(c) ==
    /\ pc[c] \in {"update", "open"}
    /\ Fault
    /\ Return(c, "threw")
    /\ UNCHANGED <<exists, balance, recorded, posted, ledger, audit, backfill, crashes, hist>>

UpdateBalance(c) ==
    /\ ~Transactional /\ pc[c] = "update"
    /\ Delta[c] < 0 => Covered(c)
    /\ Change(c)
    /\ Goto(c, "record")
    /\ UNCHANGED <<exists, recorded, posted, ledger, answer, audit, backfill,
                   faults, crashes, hist>>

\* Mutant: the ledger entry is written before the Transaction.
RecordLate(c) ==
    /\ pc[c] = "record"
    /\ Post(c)
    /\ \/ recorded' = recorded \cup {c} /\ Goto(c, "post") /\ UNCHANGED faults
       \/ Fault /\ Goto(c, "compensate") /\ UNCHANGED recorded
    /\ UNCHANGED <<exists, balance, answer, audit, backfill, crashes, hist>>

InsertTransaction(c) ==
    /\ pc[c] = "record"
    /\ \/ recorded' = recorded \cup {c} /\ Goto(c, "post") /\ UNCHANGED faults
       \/ Fault /\ Goto(c, "compensate") /\ UNCHANGED recorded
    /\ UNCHANGED <<exists, balance, posted, ledger, answer, audit, backfill, crashes, hist>>

\* InsertLedgerEntryAsync with bestEffort: a failure is logged only.
InsertLedgerEntry(c) ==
    /\ pc[c] = "post"
    /\ \/ Post(c) /\ UNCHANGED faults
       \/ Fault /\ UNCHANGED <<posted, ledger>>
    /\ Return(c, "ok")
    /\ UNCHANGED <<exists, balance, recorded, audit, backfill, crashes, hist>>

\* Mutant: the failed call is not compensated.
CompensateNothing(c) ==
    /\ pc[c] = "compensate"
    /\ Return(c, "threw")
    /\ UNCHANGED <<exists, balance, recorded, posted, ledger, audit, backfill,
                   faults, crashes, hist>>

\* The inverse $inc, whatever the balance is now; then the exception goes on.
Compensate(c) ==
    /\ pc[c] = "compensate"
    /\ \/ /\ balance' = [balance EXCEPT ![User[c]] = @ - Delta[c]]
          /\ UNCHANGED faults
       \/ Fault /\ UNCHANGED balance
    /\ Return(c, "threw")
    /\ UNCHANGED <<exists, recorded, posted, ledger, audit, backfill, crashes, hist>>

-----------------------------------------------------------------------------
(* RecalculateBalanceFromLedgerAsync.                                      *)

ReadLedger(a) ==
    /\ audit[a].pc = "idle"
    /\ audit' = [audit EXCEPT ![a] = [pc |-> "compare", sum |-> ledger[AuditUser[a]]]]
    /\ UNCHANGED <<exists, balance, recorded, posted, ledger, pc, answer, backfill,
                   faults, crashes, hist>>

\* Reads (or creates) the wallet and stops when it agrees with the sum.
CompareBalance(a) ==
    /\ audit[a].pc = "compare"
    /\ exists' = exists \cup {AuditUser[a]}
    /\ audit' = [audit EXCEPT ![a].pc =
                    IF balance[AuditUser[a]] = audit[a].sum THEN "done" ELSE "write"]
    /\ UNCHANGED <<balance, recorded, posted, ledger, pc, answer, backfill,
                   faults, crashes, hist>>

\* Mutant: the sum is added to the balance ($inc for $set).
OverwriteAdds(a) ==
    /\ audit[a].pc = "write"
    /\ ~Locked(AuditUser[a])
    /\ balance' = [balance EXCEPT ![AuditUser[a]] = @ + audit[a].sum]
    /\ audit' = [audit EXCEPT ![a].pc = "done"]
    /\ lost' = [lost EXCEPT ![AuditUser[a]] = overtaken[a]]
    /\ UNCHANGED <<exists, recorded, posted, ledger, pc, answer, backfill,
                   faults, crashes, overtaken>>

\* Writes the sum read before, whatever the balance has become; the write is
\* outside any transaction and waits for an open one.
OverwriteBalance(a) ==
    /\ audit[a].pc = "write"
    /\ ~Locked(AuditUser[a])
    /\ balance' = [balance EXCEPT ![AuditUser[a]] = audit[a].sum]
    /\ audit' = [audit EXCEPT ![a].pc = "done"]
    /\ lost' = [lost EXCEPT ![AuditUser[a]] = overtaken[a]]
    /\ UNCHANGED <<exists, recorded, posted, ledger, pc, answer, backfill,
                   faults, crashes, overtaken>>

-----------------------------------------------------------------------------
(* BackfillAsync, one transaction of its cursor at a time.                 *)

FindUnposted(b, c) ==
    /\ backfill[b] = NoCall
    /\ c \in recorded /\ posted[c] = 0
    /\ backfill' = [backfill EXCEPT ![b] = c]
    /\ UNCHANGED <<exists, balance, recorded, posted, ledger, pc, answer, audit,
                   faults, crashes, hist>>

InsertBackfill(b) ==
    /\ backfill[b] # NoCall
    /\ Post(backfill[b])
    /\ backfill' = [backfill EXCEPT ![b] = NoCall]
    /\ UNCHANGED <<exists, balance, recorded, pc, answer, audit, faults, crashes, hist>>

-----------------------------------------------------------------------------

InFlight == {c \in Calls : pc[c] \notin {"idle", "done"}}

\* The process dies: open transactions are rolled back by the server, calls
\* of the fallback stay where they are.
Crash ==
    /\ crashes < MaxCrashes
    /\ crashes' = crashes + 1
    /\ pc' = [c \in Calls |-> IF c \in InFlight THEN "done" ELSE pc[c]]
    /\ answer' = [c \in Calls |-> IF c \in InFlight THEN "threw" ELSE answer[c]]
    /\ audit' = [a \in Audits |-> IF audit[a].pc = "idle" THEN audit[a]
                                  ELSE [audit[a] EXCEPT !.pc = "done"]]
    /\ backfill' = [b \in Backfills |-> NoCall]
    /\ UNCHANGED <<exists, balance, recorded, posted, ledger, faults, hist>>

CallStep(c) ==
    \/ GetOrCreateWallet(c) \/ RefuseDebit(c) \/ CallThrows(c)
    \/ UpdateInTransaction(c) \/ Commit(c)
    \/ UpdateBalance(c) \/ InsertTransaction(c) \/ InsertLedgerEntry(c)
    \/ Compensate(c)

AuditStep(a) == ReadLedger(a) \/ CompareBalance(a) \/ OverwriteBalance(a)

BackfillStep(b) == InsertBackfill(b) \/ \E c \in Calls : FindUnposted(b, c)

Next ==
    \/ \E c \in Calls : CallStep(c)
    \/ \E a \in Audits : AuditStep(a)
    \/ \E b \in Backfills : BackfillStep(b)
    \/ Crash

Spec == Init /\ [][Next]_vars

-----------------------------------------------------------------------------
(* Properties.                                                             *)

\* The users whose wallet nobody recalculates: an audit may overwrite a
\* balance with a sum that a commit has made stale.
Unaudited == {u \in Users : \A a \in Audits : AuditUser[a] # u}

\* Against a replica set, what an audit can do wrong and no more: every wallet,
\* audited or not, shows the sum of its ledger entries but for the calls that
\* were committed while the audit that wrote its balance last was between its
\* read of the ledger and its write (RecalculateBalanceFromLedgerAsync). An
\* audit that no call overtakes undoes the losses of those before it, and two
\* audits that overlap lose no call twice.
OnlyOvertakenCallsLost ==
    Transactional =>
        \A u \in Users : balance[u] + SumFunctionOnSet(Delta, lost[u]) = ledger[u]

\* A debit never spends money that is not there (the filter of
\* DeductBalanceInternalAsync): no balance is ever negative.
NeverOverdrawn == \A u \in Unaudited : balance[u] >= 0

\* No ledger entry without its Transaction, whoever wrote the entry: the call
\* (DeductBalanceInternalAsync, AddBalanceInternalAsync) or BackfillAsync.
PostedIsRecorded == \A c \in Calls : posted[c] > 0 => c \in recorded

\* One failed database call never separates a balance from the Transaction
\* documents, with transactions or without: while no process has died, once no
\* call is in flight the balance is the sum of the calls recorded (the
\* compensations of DeductBalanceInternalAsync and AddBalanceInternalAsync).
QuietBooks ==
    InFlight = {} /\ faults <= 1 /\ crashes = 0 =>
        \A u \in Unaudited :
            balance[u] = SumFunctionOnSet(Delta, {c \in recorded : User[c] = u})

\* The calls whose change of the balance has happened and stands.
Applied ==
    recorded \cup {c \in Calls : pc[c] \in {"record", "post"}}

\* The calls on wallets that nobody audits.
Plain == {c \in Calls : User[c] \in Unaudited}

Contract == INSTANCE WalletContract WITH
    Users <- Unaudited, Calls <- Plain, User <- [c \in Plain |-> User[c]],
    Delta <- [c \in Plain |-> Delta[c]],
    balance <- [u \in Unaudited |-> balance[u]],
    applied <- Applied \cap Plain,
    answer <- [c \in Plain |-> answer[c]]

\* With transactions the service keeps the contract its callers rely on, for
\* every wallet that nobody audits.
ImplementsContract == Contract!Spec

=============================================================================
