---------------------------- MODULE WalletProofs ----------------------------
(***************************************************************************)
(* For any wallets, calls and audits, on a server with transactions: every *)
(* balance is the sum of its ledger but for the calls that overtook the    *)
(* last audit, a balance nobody audits is never negative, and the service  *)
(* implements WalletContract for it. On a standalone server one failed     *)
(* write is compensated, and whatever is posted is recorded.               *)
(***************************************************************************)
EXTENDS WalletService, Sums, TLAPS

-----------------------------------------------------------------------------
(* The inductive invariant behind OnlyOvertakenCallsLost and               *)
(* NeverOverdrawn, for a server that supports transactions.                *)

\* What the steps of a call have in common with its answer.
Progress ==
    \A c \in Calls :
        /\ pc[c] \in {"idle", "update", "open", "done"}
        /\ answer[c] = "none" <=> pc[c] # "done"
        /\ c \in recorded => pc[c] = "done"
        /\ posted[c] = IF c \in recorded THEN 1 ELSE 0

\* An open transaction owns its wallet's document, so the balance it tested
\* is the balance it will change.
OpenOwns ==
    /\ \A c, d \in Calls :
           pc[c] = "open" /\ pc[d] = "open" /\ User[c] = User[d] => c = d
    /\ \A c \in Plain : pc[c] = "open" => Covered(c)

\* The sum an audit has read, with the calls that have overtaken it since, is
\* the sum of the ledger; overtaking and lost calls are committed ones.
AuditsAccount ==
    /\ \A a \in Audits :
           Auditing(a) => audit[a].sum + SumFunctionOnSet(Delta, overtaken[a])
                            = ledger[AuditUser[a]]
    /\ \A a \in Audits : overtaken[a] \subseteq recorded
    /\ \A a \in Audits : audit[a].pc = "idle" => overtaken[a] = {}

TxInv ==
    /\ TypeOK
    /\ AuditsAccount
    /\ OnlyOvertakenCallsLost
    /\ NeverOverdrawn
    /\ Progress
    /\ OpenOwns
    /\ \A b \in Backfills : backfill[b] = NoCall

\* With or without transactions: an entry is about to be posted, by its call
\* or by a backfill, only for a call whose Transaction exists.
RecordedFirst ==
    /\ pc \in [Calls -> Pcs]
    /\ posted \in [Calls -> Nat]
    /\ backfill \in [Backfills -> Calls \cup {NoCall}]
    /\ PostedIsRecorded
    /\ \A c \in Calls : pc[c] = "post" => c \in recorded
    /\ \A b \in Backfills : backfill[b] # NoCall => backfill[b] \in recorded

\* The calls of u whose change is in the balance: those recorded, and those of
\* the fallback that have still to record it or to take it back.
Standing(u) ==
    {c \in Calls : User[c] = u /\ (c \in recorded \/ pc[c] \in {"record", "compensate"})}

\* A call is recorded before it posts or returns, and compensates after a fault.
RecordsInOrder ==
    /\ \A c \in Calls : c \in recorded => pc[c] \in {"post", "done"}
    /\ \A c \in Calls : pc[c] = "compensate" => faults > 0

\* What QuietBooks rests on at every step.
RunningBooks ==
    faults <= 1 /\ crashes = 0 =>
        \A u \in Unaudited : balance[u] = SumFunctionOnSet(Delta, Standing(u))

-----------------------------------------------------------------------------
\* The initial state satisfies the invariant.
LEMMA InitInv == Init => TxInv
<1> SUFFICES ASSUME Init PROVE TxInv
  OBVIOUS
<1>1. AuditsAccount /\ OnlyOvertakenCallsLost
  BY SumEmpty DEF Init, AuditsAccount, Auditing, OnlyOvertakenCallsLost
<1> QED
  BY <1>1, WalletAssumption
  DEF Init, TxInv, TypeOK, NeverOverdrawn, Progress, OpenOwns, Pcs, Unaudited, Plain

\* The documents of WalletService and its calls keep their types.
LEMMA TypeKept == ASSUME TypeOK, [Next]_vars PROVE TypeOK'
<1> USE WalletAssumption DEF TypeOK, hist
<1>1. ASSUME NEW c \in Calls, CallStep(c) PROVE TypeOK'
  <2> USE DEF Return, Goto, Fault, Pcs
  <2>1. CASE GetOrCreateWallet(c) \/ RefuseDebit(c) \/ CallThrows(c) \/ UpdateInTransaction(c)
    <3>1. pc' \in [Calls -> Pcs] /\ answer' \in [Calls -> {"none", "ok", "refused", "threw"}]
      BY <2>1 DEF GetOrCreateWallet, RefuseDebit, CallThrows, UpdateInTransaction
    <3>2. exists' \subseteq Users /\ faults' \in Nat
      BY <2>1 DEF GetOrCreateWallet, RefuseDebit, CallThrows, UpdateInTransaction
    <3> QED
      BY <2>1, <3>1, <3>2 DEF GetOrCreateWallet, RefuseDebit, CallThrows, UpdateInTransaction
  <2>2. CASE Commit(c)
    <3>1. overtaken' \in [Audits -> SUBSET Calls]
      BY <2>2 DEF Commit, Overtake
    <3>2. pc' \in [Calls -> Pcs] /\ answer' \in [Calls -> {"none", "ok", "refused", "threw"}]
      BY <2>2 DEF Commit
    <3>3. /\ balance' \in [Users -> Int] /\ ledger' \in [Users -> Int]
          /\ posted' \in [Calls -> Nat]
      BY <2>2 DEF Commit, Change, Post
    <3> QED
      BY <2>2, <3>1, <3>2, <3>3 DEF Commit
  <2>3. CASE UpdateBalance(c) \/ InsertTransaction(c)
    <3>1. balance' \in [Users -> Int]
      BY <2>3 DEF UpdateBalance, InsertTransaction, Change
    <3>2. pc' \in [Calls -> Pcs] /\ recorded' \subseteq Calls /\ faults' \in Nat
      <4>1. \E p \in Pcs : pc' = [pc EXCEPT ![c] = p]
        BY <2>3 DEF UpdateBalance, InsertTransaction
      <4>2. recorded' \subseteq Calls /\ faults' \in Nat
        BY <2>3 DEF UpdateBalance, InsertTransaction
      <4> QED
        BY <4>1, <4>2
    <3>3. UNCHANGED <<exists, posted, ledger, answer, audit, backfill, crashes, overtaken, lost>>
      BY <2>3 DEF UpdateBalance, InsertTransaction
    <3> QED
      BY <3>1, <3>2, <3>3
  <2>4. CASE InsertLedgerEntry(c)
    BY <2>4 DEF InsertLedgerEntry, Post
  <2>5. CASE Compensate(c)
    BY <2>5 DEF Compensate
  <2> QED
    BY <1>1, <2>1, <2>2, <2>3, <2>4, <2>5 DEF CallStep
<1>2. ASSUME NEW a \in Audits, AuditStep(a) PROVE TypeOK'
  <2>1. CASE ReadLedger(a)
    BY <2>1 DEF ReadLedger
  <2>2. CASE CompareBalance(a)
    <3>1. audit' \in [Audits -> [pc : {"idle", "compare", "write", "done"}, sum : Int]]
      BY <2>2 DEF CompareBalance
    <3> QED
      BY <2>2, <3>1 DEF CompareBalance
  <2>3. CASE OverwriteBalance(a)
    <3>1. audit' \in [Audits -> [pc : {"idle", "compare", "write", "done"}, sum : Int]]
      BY <2>3 DEF OverwriteBalance
    <3>2. balance' \in [Users -> Int]
      BY <2>3 DEF OverwriteBalance
    <3> QED
      BY <2>3, <3>1, <3>2 DEF OverwriteBalance
  <2> QED
    BY <1>2, <2>1, <2>2, <2>3 DEF AuditStep
<1>3. ASSUME NEW b \in Backfills, BackfillStep(b) PROVE TypeOK'
  BY <1>3 DEF BackfillStep, InsertBackfill, FindUnposted, Post
<1>4. CASE Crash
  <2>1. audit' \in [Audits -> [pc : {"idle", "compare", "write", "done"}, sum : Int]]
    BY <1>4 DEF Crash
  <2> QED
    BY <1>4, <2>1 DEF Crash, InFlight, Pcs
<1>5. CASE UNCHANGED vars
  BY <1>5 DEF vars
<1> QED
  BY <1>1, <1>2, <1>3, <1>4, <1>5 DEF Next

\* A step that touches neither the money nor the audits leaves the accounts.
LEMMA AccountsSame ==
  ASSUME TxInv, UNCHANGED <<balance, ledger, audit, recorded, hist>>
  PROVE  AuditsAccount' /\ OnlyOvertakenCallsLost'
BY DEF TxInv, AuditsAccount, Auditing, OnlyOvertakenCallsLost, hist

\* A sum of committed calls, and of one more.
LEMMA CommittedSum ==
  ASSUME NEW S \in SUBSET Calls
  PROVE  /\ SumFunctionOnSet(Delta, S) \in Int
         /\ \A c \in Calls \ S : SumFunctionOnSet(Delta, S \cup {c})
                                    = SumFunctionOnSet(Delta, S) + Delta[c]
<1>1. IsFiniteSet(S) /\ \A c \in S : Delta[c] \in Int
  BY WalletAssumption, FS_Subset
<1> QED
  BY <1>1, SumInt, SumAdd, WalletAssumption

\* A commit: what it adds to the ledger it adds to the balance, and to what has
\* overtaken each audit of the wallet.
LEMMA CommitAccounts ==
  ASSUME Transactional, TxInv, NEW c \in Calls, Commit(c)
  PROVE  AuditsAccount' /\ OnlyOvertakenCallsLost'
<1> USE WalletAssumption DEF hist
<1>1. /\ balance' = [balance EXCEPT ![User[c]] = @ + Delta[c]]
      /\ ledger' = [ledger EXCEPT ![User[c]] = @ + Delta[c]]
      /\ recorded' = recorded \cup {c}
      /\ UNCHANGED <<audit, lost>>
      /\ pc[c] = "open" /\ c \notin recorded
  BY DEF TxInv, Progress, Commit, Change, Post
<1>2. ASSUME NEW a \in Audits
      PROVE  /\ Auditing(a)' => audit'[a].sum + SumFunctionOnSet(Delta, overtaken'[a])
                                    = ledger'[AuditUser[a]]
             /\ overtaken'[a] \subseteq recorded'
             /\ audit'[a].pc = "idle" => overtaken'[a] = {}
  <2>1. overtaken[a] \in SUBSET Calls /\ c \notin overtaken[a] /\ AuditUser[a] \in Users
    BY <1>1 DEF TxInv, TypeOK, AuditsAccount
  <2>2. CASE AuditUser[a] = User[c] /\ Auditing(a)
    <3>1. overtaken'[a] = overtaken[a] \cup {c} /\ audit[a].pc # "idle"
      BY <2>2 DEF Commit, Overtake, Auditing
    <3>2. SumFunctionOnSet(Delta, overtaken'[a])
            = SumFunctionOnSet(Delta, overtaken[a]) + Delta[c]
      BY <2>1, <3>1, CommittedSum
    <3>3. audit[a].sum + SumFunctionOnSet(Delta, overtaken[a]) = ledger[AuditUser[a]]
      BY <2>2 DEF TxInv, AuditsAccount
    <3>4. /\ audit[a].sum \in Int /\ SumFunctionOnSet(Delta, overtaken[a]) \in Int
          /\ Delta[c] \in Int
      BY <2>1, CommittedSum DEF TxInv, TypeOK
    <3>5. ledger'[AuditUser[a]] = ledger[AuditUser[a]] + Delta[c]
      BY <1>1, <2>1, <2>2 DEF TxInv, TypeOK
    <3>6. audit'[a].sum + SumFunctionOnSet(Delta, overtaken'[a]) = ledger'[AuditUser[a]]
      BY <1>1, <3>2, <3>3, <3>4, <3>5
    <3> QED
      BY <1>1, <3>1, <3>6 DEF TxInv, AuditsAccount
  <2>3. CASE ~(AuditUser[a] = User[c] /\ Auditing(a))
    <3>1. overtaken'[a] = overtaken[a]
      BY <2>3 DEF Commit, Overtake
    <3>2. Auditing(a)' => Auditing(a) /\ ledger'[AuditUser[a]] = ledger[AuditUser[a]]
      BY <1>1, <2>1, <2>3 DEF TxInv, TypeOK, Auditing
    <3> QED
      BY <1>1, <3>1, <3>2 DEF TxInv, AuditsAccount
  <2> QED
    BY <2>2, <2>3
<1>3. AuditsAccount'
  BY <1>2 DEF AuditsAccount
<1>4. ASSUME NEW u \in Users
      PROVE  balance'[u] + SumFunctionOnSet(Delta, lost'[u]) = ledger'[u]
  <2>1. balance[u] + SumFunctionOnSet(Delta, lost[u]) = ledger[u]
    BY DEF TxInv, OnlyOvertakenCallsLost
  <2>2. SumFunctionOnSet(Delta, lost[u]) \in Int
    BY CommittedSum DEF TxInv, TypeOK
  <2>3. balance[u] \in Int /\ ledger[u] \in Int /\ Delta[c] \in Int
    BY DEF TxInv, TypeOK
  <2>4. \/ balance'[u] = balance[u] /\ ledger'[u] = ledger[u]
        \/ balance'[u] = balance[u] + Delta[c] /\ ledger'[u] = ledger[u] + Delta[c]
    BY <1>1 DEF TxInv, TypeOK
  <2>5. lost'[u] = lost[u]
    BY <1>1
  <2> QED
    BY <2>1, <2>2, <2>3, <2>4, <2>5
<1> QED
  BY <1>3, <1>4 DEF OnlyOvertakenCallsLost

\* An audit reads a sum nothing has overtaken, and with its write its calls are
\* the ones that are lost.
LEMMA AuditAccounts ==
  ASSUME Transactional, TxInv, NEW a \in Audits, AuditStep(a)
  PROVE  AuditsAccount' /\ OnlyOvertakenCallsLost'
<1> USE WalletAssumption DEF hist
<1>1. CASE ReadLedger(a)
  <2>1. /\ audit' = [audit EXCEPT ![a] = [pc |-> "compare", sum |-> ledger[AuditUser[a]]]]
        /\ UNCHANGED <<balance, ledger, recorded, overtaken, lost>>
        /\ overtaken[a] = {}
    BY <1>1 DEF TxInv, AuditsAccount, ReadLedger, hist
  <2>2. ledger[AuditUser[a]] + SumFunctionOnSet(Delta, {}) = ledger[AuditUser[a]]
    BY SumEmpty DEF TxInv, TypeOK
  <2>3. AuditsAccount'
    BY <2>1, <2>2 DEF TxInv, TypeOK, AuditsAccount, Auditing
  <2> QED
    BY <2>1, <2>3 DEF TxInv, OnlyOvertakenCallsLost
<1>2. CASE CompareBalance(a)
  <2>1. /\ \E p \in {"done", "write"} : audit' = [audit EXCEPT ![a].pc = p]
        /\ audit[a].pc = "compare"
        /\ UNCHANGED <<balance, ledger, recorded, overtaken, lost>>
    BY <1>2 DEF CompareBalance, hist
  <2>2. AuditsAccount'
    BY <2>1 DEF TxInv, TypeOK, AuditsAccount, Auditing
  <2> QED
    BY <2>1, <2>2 DEF TxInv, OnlyOvertakenCallsLost
<1>3. CASE OverwriteBalance(a)
  <2>1. /\ audit' = [audit EXCEPT ![a].pc = "done"]
        /\ audit[a].pc = "write"
        /\ balance' = [balance EXCEPT ![AuditUser[a]] = audit[a].sum]
        /\ lost' = [lost EXCEPT ![AuditUser[a]] = overtaken[a]]
        /\ UNCHANGED <<ledger, recorded, overtaken>>
    BY <1>3 DEF OverwriteBalance
  <2>2. AuditsAccount'
    BY <2>1 DEF TxInv, TypeOK, AuditsAccount, Auditing
  <2>3. audit[a].sum + SumFunctionOnSet(Delta, overtaken[a]) = ledger[AuditUser[a]]
    BY <2>1 DEF TxInv, AuditsAccount, Auditing
  <2>4. ASSUME NEW u \in Users
        PROVE  balance'[u] + SumFunctionOnSet(Delta, lost'[u]) = ledger'[u]
    BY <2>1, <2>3 DEF TxInv, TypeOK, OnlyOvertakenCallsLost
  <2> QED
    BY <2>2, <2>4 DEF OnlyOvertakenCallsLost
<1> QED
  BY <1>1, <1>2, <1>3 DEF AuditStep

\* Every step preserves the invariant; the steps of the fallback and of the
\* backfill cannot happen.
LEMMA NextInv ==
  ASSUME Transactional, TxInv, [Next]_vars
  PROVE  TxInv'
<1> USE WalletAssumption DEF hist
<1>1. ASSUME NEW c \in Calls, GetOrCreateWallet(c)
      PROVE  TxInv'
  <2>1. TypeOK'
    BY TypeKept DEF TxInv
  <2>2. Progress'
    BY <1>1 DEF TxInv, TypeOK, Progress, GetOrCreateWallet, Goto
  <2>3. OpenOwns'
    BY <1>1 DEF TxInv, TypeOK, OpenOwns, Covered, GetOrCreateWallet, Goto
  <2>4. AuditsAccount' /\ OnlyOvertakenCallsLost'
    BY <1>1, AccountsSame DEF GetOrCreateWallet
  <2> QED
    BY <1>1, <2>1, <2>2, <2>3, <2>4 DEF TxInv, NeverOverdrawn, GetOrCreateWallet
<1>2. ASSUME NEW c \in Calls, RefuseDebit(c)
      PROVE  TxInv'
  <2>1. TypeOK'
    BY TypeKept DEF TxInv
  <2>2. Progress'
    BY <1>2 DEF TxInv, TypeOK, Progress, RefuseDebit, Return
  <2>3. OpenOwns'
    BY <1>2 DEF TxInv, TypeOK, OpenOwns, Covered, RefuseDebit, Return
  <2>4. AuditsAccount' /\ OnlyOvertakenCallsLost'
    BY <1>2, AccountsSame DEF RefuseDebit
  <2> QED
    BY <1>2, <2>1, <2>2, <2>3, <2>4 DEF TxInv, NeverOverdrawn, RefuseDebit
<1>3. ASSUME NEW c \in Calls, CallThrows(c)
      PROVE  TxInv'
  <2>1. TypeOK'
    BY TypeKept DEF TxInv
  <2>2. Progress'
    BY <1>3 DEF TxInv, TypeOK, Progress, CallThrows, Return
  <2>3. OpenOwns'
    BY <1>3 DEF TxInv, TypeOK, OpenOwns, Covered, CallThrows, Return
  <2>4. AuditsAccount' /\ OnlyOvertakenCallsLost'
    BY <1>3, AccountsSame DEF CallThrows
  <2> QED
    BY <1>3, <2>1, <2>2, <2>3, <2>4 DEF TxInv, NeverOverdrawn, CallThrows
<1>4. ASSUME NEW c \in Calls, UpdateInTransaction(c)
      PROVE  TxInv'
  <2>1. TypeOK'
    BY TypeKept DEF TxInv
  <2>2. Progress'
    BY <1>4 DEF TxInv, TypeOK, Progress, UpdateInTransaction, Return, Goto
  <2>3. OpenOwns'
    <3>1. CASE Locked(User[c])
      <4>1. pc' = [pc EXCEPT ![c] = "done"] /\ UNCHANGED balance
        BY <1>4, <3>1 DEF UpdateInTransaction, Return
      <4> QED
        BY <4>1 DEF TxInv, TypeOK, OpenOwns, Covered
    <3>2. CASE ~Locked(User[c])
      <4>1. \A d \in Calls : pc[d] = "open" => User[d] # User[c]
        BY <3>2 DEF Locked
      <4>2. c \in Plain => Covered(c)
        <5>1. CASE Delta[c] < 0
          BY <1>4, <5>1 DEF UpdateInTransaction
        <5>2. CASE ~(Delta[c] < 0)
          BY <5>2 DEF TxInv, TypeOK, NeverOverdrawn, Covered, Plain, Unaudited
        <5> QED BY <5>1, <5>2
      <4>3. pc' = [pc EXCEPT ![c] = "open"] /\ UNCHANGED balance
        BY <1>4, <3>2 DEF UpdateInTransaction, Goto
      <4> QED
        BY <4>1, <4>2, <4>3 DEF TxInv, TypeOK, OpenOwns, Covered, Plain
    <3> QED BY <3>1, <3>2
  <2>4. AuditsAccount' /\ OnlyOvertakenCallsLost'
    BY <1>4, AccountsSame DEF UpdateInTransaction
  <2> QED
    BY <1>4, <2>1, <2>2, <2>3, <2>4 DEF TxInv, NeverOverdrawn, UpdateInTransaction
<1>5. ASSUME NEW c \in Calls, Commit(c)
      PROVE  TxInv'
  <2>1. /\ balance' = [balance EXCEPT ![User[c]] = @ + Delta[c]]
        /\ ledger' = [ledger EXCEPT ![User[c]] = @ + Delta[c]]
        /\ posted' = [posted EXCEPT ![c] = @ + 1]
        /\ recorded' = recorded \cup {c}
        /\ pc' = [pc EXCEPT ![c] = "done"]
        /\ \E a \in {"ok", "threw"} : answer' = [answer EXCEPT ![c] = a]
        /\ faults' \in Nat
        /\ UNCHANGED <<exists, audit, backfill, crashes, lost>>
        /\ overtaken' \in [Audits -> SUBSET Calls]
        /\ pc[c] = "open"
    <3>1. overtaken' \in [Audits -> SUBSET Calls]
      BY <1>5 DEF TxInv, TypeOK, Commit, Overtake
    <3> QED
      BY <1>5, <3>1 DEF TxInv, TypeOK, Commit, Change, Post, Return, Fault
  <2>2. TypeOK'
    BY TypeKept DEF TxInv
  <2>3. Progress'
    BY <2>1 DEF TxInv, TypeOK, Progress
  <2>4. OpenOwns'
    BY <2>1 DEF TxInv, TypeOK, OpenOwns, Covered, Plain
  <2>5. AuditsAccount' /\ OnlyOvertakenCallsLost'
    BY <1>5, CommitAccounts
  <2>6. NeverOverdrawn'
    BY <2>1 DEF TxInv, TypeOK, OpenOwns, Covered, NeverOverdrawn, Plain, Unaudited
  <2> QED BY <2>1, <2>2, <2>3, <2>4, <2>5, <2>6 DEF TxInv
<1>6. ASSUME NEW c \in Calls,
             UpdateBalance(c) \/ InsertTransaction(c) \/ InsertLedgerEntry(c) \/ Compensate(c)
      PROVE  FALSE
  BY <1>6 DEF TxInv, Progress, UpdateBalance, InsertTransaction, InsertLedgerEntry, Compensate
<1>7. ASSUME NEW b \in Backfills, BackfillStep(b)
      PROVE  FALSE
  <2>1. ~InsertBackfill(b)
    BY DEF TxInv, InsertBackfill
  <2>2. ASSUME NEW c \in Calls, FindUnposted(b, c) PROVE FALSE
    BY <2>2 DEF TxInv, Progress, FindUnposted
  <2> QED BY <1>7, <2>1, <2>2 DEF BackfillStep
<1>8. ASSUME Crash PROVE TxInv'
  <2>1. TypeOK'
    BY TypeKept DEF TxInv
  <2>2. Progress'
    BY <1>8 DEF TxInv, TypeOK, Progress, Crash, InFlight
  <2>3. OpenOwns'
    BY <1>8 DEF TxInv, TypeOK, OpenOwns, Covered, Crash, InFlight, Plain
  <2>4. OnlyOvertakenCallsLost'
    BY <1>8 DEF TxInv, OnlyOvertakenCallsLost, Crash, hist
  <2>5. AuditsAccount'
    BY <1>8 DEF TxInv, TypeOK, AuditsAccount, Auditing, Crash, hist
  <2> QED
    BY <1>8, <2>1, <2>2, <2>3, <2>4, <2>5 DEF TxInv, NeverOverdrawn, Crash
<1>9. ASSUME NEW a \in Audits, AuditStep(a) PROVE TxInv'
  <2>1. TypeOK'
    BY TypeKept DEF TxInv
  <2>2. Progress'
    BY <1>9 DEF TxInv, TypeOK, Progress, AuditStep, ReadLedger, CompareBalance, OverwriteBalance
  <2>3. UNCHANGED <<ledger, pc, backfill>> /\ \A u \in Unaudited : balance'[u] = balance[u]
    BY <1>9 DEF TxInv, TypeOK, Unaudited, AuditStep, ReadLedger, CompareBalance, OverwriteBalance
  <2>4. OpenOwns'
    BY <2>3 DEF TxInv, TypeOK, OpenOwns, Covered, Plain
  <2> QED
    BY <1>9, <2>1, <2>2, <2>3, <2>4, AuditAccounts DEF TxInv, NeverOverdrawn
<1>10. CASE UNCHANGED vars
  <2>1. AuditsAccount' /\ OnlyOvertakenCallsLost'
    BY <1>10, AccountsSame DEF vars
  <2> QED
    BY <1>10, <2>1 DEF vars, hist, TxInv, TypeOK, NeverOverdrawn, Progress, OpenOwns, Covered
<1> QED
  BY <1>1, <1>2, <1>3, <1>4, <1>5, <1>6, <1>7, <1>8, <1>9, <1>10 DEF Next, CallStep

\* TxInv is an invariant of the transactional service.
THEOREM TxInvariant ==
  ASSUME Transactional
  PROVE  Spec => []TxInv
BY InitInv, NextInv, PTL DEF Spec

\* RecalculateBalanceFromLedgerAsync, whatever commits between its read and its
\* write and however many audits overlap, loses the calls that overtook the last
\* of them and nothing else.
THEOREM AuditsLoseOnlyOvertaken ==
  ASSUME Transactional
  PROVE  Spec => []OnlyOvertakenCallsLost
<1>1. TxInv => OnlyOvertakenCallsLost
  BY DEF TxInv
<1> QED BY <1>1, TxInvariant, PTL

\* No sequence of concurrent debits overdraws a wallet: the filter of
\* DeductBalanceInternalAsync and the write conflict of a second transaction.
THEOREM NoOverdraft ==
  ASSUME Transactional
  PROVE  Spec => []NeverOverdrawn
<1>1. TxInv => NeverOverdrawn
  BY DEF TxInv
<1> QED BY <1>1, TxInvariant, PTL

-----------------------------------------------------------------------------
(* Refinement: each step is a step of the contract or leaves its variables *)
(* unchanged.  Inside transactions a change stands when it is recorded.    *)

\* What an audited wallet's call does is outside the contract's view.
LEMMA Outside ==
  ASSUME TxInv, TxInv', NEW c \in Calls, c \notin Plain,
         \A d \in Calls \ {c} : answer'[d] = answer[d],
         \A u \in Unaudited : balance'[u] = balance[u],
         recorded' \ {c} = recorded \ {c}
  PROVE  UNCHANGED Contract!cvars
<1>1. Applied = recorded /\ Applied' = recorded'
  BY DEF TxInv, Progress, Applied
<1>2. recorded' \cap Plain = recorded \cap Plain
  OBVIOUS
<1>3. \A d \in Plain : answer'[d] = answer[d]
  BY DEF Plain
<1> QED BY <1>1, <1>2, <1>3 DEF Contract!cvars

\* A call of a plain wallet that is told of an exception.
LEMMA Thrown ==
  ASSUME TxInv, TxInv', NEW S \in SUBSET Calls,
         \A c \in S : answer[c] = "none",
         \A c \in Calls : answer'[c] = IF c \in S THEN "threw" ELSE answer[c],
         UNCHANGED <<balance, recorded>>
  PROVE  Contract!Next
<1> DEFINE T == S \cap Plain
<1>1. Applied = recorded /\ Applied' = recorded'
  BY DEF TxInv, Progress, Applied
<1>2. \A c \in T : [d \in Plain |-> answer[d]][c] = "none"
  OBVIOUS
<1>3. [d \in Plain |-> answer'[d]]
        = [d \in Plain |-> IF d \in T THEN "threw" ELSE [e \in Plain |-> answer[e]][d]]
  BY DEF Plain
<1>4. Contract!Throw(T)
  BY <1>1, <1>2, <1>3 DEF Contract!Throw
<1> QED BY <1>4 DEF Contract!Next

\* Every step of the service is a step of WalletContract or a stutter.
LEMMA StepImplements ==
  ASSUME Transactional, TxInv, TxInv', [Next]_vars
  PROVE  [Contract!Next]_(Contract!cvars)
<1> USE WalletAssumption DEF hist
<1>0. Applied = recorded /\ Applied' = recorded'
  BY DEF TxInv, Progress, Applied
<1>1. ASSUME NEW c \in Calls, GetOrCreateWallet(c)
      PROVE  UNCHANGED Contract!cvars
  BY <1>0, <1>1 DEF GetOrCreateWallet, Contract!cvars
<1>2. ASSUME NEW c \in Calls, RefuseDebit(c)
      PROVE  Contract!Next \/ UNCHANGED Contract!cvars
  <2>1. /\ answer[c] = "none" /\ c \notin recorded
        /\ answer' = [answer EXCEPT ![c] = "refused"] /\ UNCHANGED <<balance, recorded>>
        /\ Delta[c] < 0 /\ ~(balance[User[c]] + Delta[c] >= 0)
    BY <1>2 DEF TxInv, Progress, RefuseDebit, Return, Covered
  <2>2. CASE c \in Plain
    <3>1. User[c] \in Unaudited
      BY <2>2 DEF Plain
    <3>2. [d \in Plain |-> answer'[d]]
            = [[d \in Plain |-> answer[d]] EXCEPT ![c] = "refused"]
      BY <2>1, <2>2 DEF TxInv, TypeOK, Plain
    <3>3. Contract!Refuse(c)
      BY <1>0, <2>1, <2>2, <3>1, <3>2 DEF Contract!Refuse, Contract!Covered
    <3> QED BY <2>2, <3>3 DEF Contract!Next
  <2>3. CASE c \notin Plain
    BY <2>1, <2>3, Outside DEF TxInv, TypeOK
  <2> QED BY <2>2, <2>3
<1>3. ASSUME NEW c \in Calls, pc[c] \in {"update", "open"}, Return(c, "threw"),
             UNCHANGED <<balance, recorded>>
      PROVE  Contract!Next
  <2>1. \A d \in {c} : answer[d] = "none"
    BY <1>3 DEF TxInv, Progress
  <2>2. \A d \in Calls : answer'[d] = IF d \in {c} THEN "threw" ELSE answer[d]
    BY <1>3 DEF TxInv, TypeOK, Return
  <2> QED BY <1>3, <2>1, <2>2, Thrown
<1>4. ASSUME NEW c \in Calls, CallThrows(c)
      PROVE  Contract!Next
  BY <1>3, <1>4 DEF CallThrows
<1>5. ASSUME NEW c \in Calls, UpdateInTransaction(c)
      PROVE  Contract!Next \/ UNCHANGED Contract!cvars
  <2>1. CASE Locked(User[c])
    BY <1>3, <1>5, <2>1 DEF UpdateInTransaction
  <2>2. CASE ~Locked(User[c])
    BY <1>0, <1>5, <2>2 DEF UpdateInTransaction, Contract!cvars
  <2> QED BY <2>1, <2>2
<1>6. ASSUME NEW c \in Calls, Commit(c)
      PROVE  Contract!Next \/ UNCHANGED Contract!cvars
  <2>1. PICK a \in {"ok", "threw"} : answer' = [answer EXCEPT ![c] = a]
    BY <1>6 DEF Commit, Return
  <2>2. /\ answer[c] = "none" /\ c \notin recorded /\ recorded' = recorded \cup {c}
        /\ balance' = [balance EXCEPT ![User[c]] = @ + Delta[c]]
        /\ c \in Plain => balance[User[c]] + Delta[c] >= 0
    BY <1>6 DEF TxInv, Progress, OpenOwns, Covered, Commit, Change
  <2>3. CASE c \in Plain
    <3>1. User[c] \in Unaudited
      BY <2>3 DEF Plain
    <3>2. [d \in Plain |-> answer'[d]] = [[d \in Plain |-> answer[d]] EXCEPT ![c] = a]
      BY <2>1, <2>3 DEF TxInv, TypeOK, Plain
    <3>3. [u \in Unaudited |-> balance'[u]]
            = [[u \in Unaudited |-> balance[u]] EXCEPT ![User[c]] = @ + Delta[c]]
      BY <2>2, <3>1 DEF TxInv, TypeOK, Unaudited
    <3>4. recorded' \cap Plain = (recorded \cap Plain) \cup {c}
      BY <2>2, <2>3
    <3>5. Contract!Apply(c, a)
      BY <1>0, <2>2, <2>3, <3>1, <3>2, <3>3, <3>4 DEF Contract!Apply, Contract!Covered
    <3> QED BY <2>1, <2>3, <3>5 DEF Contract!Next
  <2>4. CASE c \notin Plain
    <3>1. User[c] \notin Unaudited
      BY <2>4 DEF Plain
    <3>2. \A u \in Unaudited : balance'[u] = balance[u]
      BY <2>2, <3>1 DEF TxInv, TypeOK, Unaudited
    <3>3. \A d \in Calls \ {c} : answer'[d] = answer[d]
      BY <2>1 DEF TxInv, TypeOK
    <3> QED BY <2>2, <2>4, <3>2, <3>3, Outside
  <2> QED BY <2>3, <2>4
<1>7. ASSUME Crash PROVE Contract!Next
  <2>1. InFlight \in SUBSET Calls /\ \A c \in InFlight : answer[c] = "none"
    BY DEF TxInv, Progress, InFlight
  <2>2. \A c \in Calls : answer'[c] = IF c \in InFlight THEN "threw" ELSE answer[c]
    BY <1>7 DEF Crash
  <2>3. UNCHANGED <<balance, recorded>>
    BY <1>7 DEF Crash
  <2> QED BY <2>1, <2>2, <2>3, Thrown
<1>8. ASSUME NEW c \in Calls,
             UpdateBalance(c) \/ InsertTransaction(c) \/ InsertLedgerEntry(c) \/ Compensate(c)
      PROVE  FALSE
  BY <1>8 DEF TxInv, Progress, UpdateBalance, InsertTransaction, InsertLedgerEntry, Compensate
<1>9. ASSUME NEW b \in Backfills, BackfillStep(b)
      PROVE  UNCHANGED Contract!cvars
  BY <1>0, <1>9 DEF BackfillStep, InsertBackfill, FindUnposted, Contract!cvars
<1>10. ASSUME NEW a \in Audits, AuditStep(a)
       PROVE  UNCHANGED Contract!cvars
  <2>1. UNCHANGED <<answer, recorded>> /\ \A u \in Unaudited : balance'[u] = balance[u]
    BY <1>10 DEF TxInv, TypeOK, Unaudited, AuditStep, ReadLedger, CompareBalance, OverwriteBalance
  <2> QED BY <1>0, <2>1 DEF Contract!cvars
<1>11. CASE UNCHANGED vars
  BY <1>0, <1>11 DEF vars, Contract!cvars
<1> QED
  BY <1>1, <1>2, <1>4, <1>5, <1>6, <1>7, <1>8, <1>9, <1>10, <1>11 DEF Next, CallStep

\* The service keeps the contract its callers rely on: a call changes the
\* balance once, in one step, by its amount, or not at all; "success" is only
\* answered to a call that was applied, a refusal only to a debit the balance
\* did not cover.
THEOREM TransactionalImplements ==
  ASSUME Transactional
  PROVE  Spec => ImplementsContract
<1>1. Init => Contract!Init
  BY DEF Init, Applied, Contract!Init, Plain, Unaudited
<1>2. TxInv /\ TxInv' /\ [Next]_vars => [Contract!Next]_(Contract!cvars)
  BY StepImplements
<1> QED BY <1>1, <1>2, TxInvariant, PTL DEF Spec, ImplementsContract, Contract!Spec

-----------------------------------------------------------------------------
(* No ledger entry without its Transaction, with or without transactions.  *)

\* Every step of a call, of an audit and of the backfill keeps the order.
LEMMA RecordedFirstNext ==
  ASSUME RecordedFirst, [Next]_vars
  PROVE  RecordedFirst'
<1> USE WalletAssumption DEF hist, RecordedFirst, PostedIsRecorded
<1>1. ASSUME NEW c \in Calls,
             \/ GetOrCreateWallet(c) \/ RefuseDebit(c) \/ CallThrows(c)
             \/ UpdateInTransaction(c) \/ UpdateBalance(c) \/ Compensate(c)
      PROVE  RecordedFirst'
  <2>1. /\ UNCHANGED <<recorded, posted, backfill>>
        /\ \E p \in Pcs \ {"post"} : pc' = [pc EXCEPT ![c] = p]
    BY <1>1 DEF GetOrCreateWallet, RefuseDebit, CallThrows, UpdateInTransaction,
                UpdateBalance, Compensate, Goto, Return, Pcs
  <2> QED BY <2>1
<1>2. ASSUME NEW c \in Calls, Commit(c) \/ InsertTransaction(c) \/ InsertLedgerEntry(c)
      PROVE  RecordedFirst'
  <2>1. /\ recorded \subseteq recorded' /\ UNCHANGED backfill
        /\ \E p \in Pcs : pc' = [pc EXCEPT ![c] = p] /\ (p = "post" => c \in recorded')
        /\ posted' = posted \/ (posted' = [posted EXCEPT ![c] = @ + 1] /\ c \in recorded')
    BY <1>2 DEF Commit, InsertTransaction, InsertLedgerEntry, Goto, Return, Post, Pcs
  <2> QED BY <2>1
<1>3. ASSUME NEW a \in Audits, AuditStep(a)
      PROVE  RecordedFirst'
  BY <1>3 DEF AuditStep, ReadLedger, CompareBalance, OverwriteBalance
<1>4. ASSUME NEW b \in Backfills, BackfillStep(b)
      PROVE  RecordedFirst'
  <2>1. CASE InsertBackfill(b)
    <3>1. backfill[b] \in Calls /\ backfill[b] \in recorded
      BY <2>1 DEF InsertBackfill
    <3> QED BY <2>1, <3>1 DEF InsertBackfill, Post
  <2>2. ASSUME NEW c \in Calls, FindUnposted(b, c) PROVE RecordedFirst'
    BY <2>2 DEF FindUnposted
  <2> QED BY <1>4, <2>1, <2>2 DEF BackfillStep
<1>5. ASSUME Crash PROVE RecordedFirst'
  BY <1>5 DEF Crash, InFlight, Pcs
<1>6. CASE UNCHANGED vars
  BY <1>6 DEF vars
<1> QED
  BY <1>1, <1>2, <1>3, <1>4, <1>5, <1>6 DEF Next, CallStep

\* Whether or not the server supports transactions, and whatever fails between
\* the three writes of DeductBalanceInternalAsync and AddBalanceInternalAsync
\* or between a look and an insert of BackfillAsync, a ledger entry never
\* stands for a Transaction that does not exist.
THEOREM PostingIsRecorded == Spec => []PostedIsRecorded
<1>1. Init => RecordedFirst
  BY WalletAssumption DEF Init, RecordedFirst, PostedIsRecorded, Pcs
<1>2. RecordedFirst /\ [Next]_vars => RecordedFirst'
  BY RecordedFirstNext
<1>3. RecordedFirst => PostedIsRecorded
  BY DEF RecordedFirst
<1> QED BY <1>1, <1>2, <1>3, PTL DEF Spec



-----------------------------------------------------------------------------
(* The books, with and without transactions.                               *)

\* A step of a call changes the balance by what it adds to the standing calls
\* or takes from them; a failed compensation is a second fault.
LEMMA BooksStep ==
  ASSUME TypeOK, RecordsInOrder, NEW c \in Calls, CallStep(c)
  PROVE  \/ /\ balance' = balance
            /\ \A u \in Users : Standing(u)' = Standing(u)
         \/ /\ c \notin Standing(User[c])
            /\ balance' = [balance EXCEPT ![User[c]] = @ + Delta[c]]
            /\ Standing(User[c])' = Standing(User[c]) \cup {c}
            /\ \A u \in Users \ {User[c]} : Standing(u)' = Standing(u)
         \/ /\ c \notin Standing(User[c])'
            /\ balance' = [balance EXCEPT ![User[c]] = @ - Delta[c]]
            /\ Standing(User[c]) = Standing(User[c])' \cup {c}
            /\ \A u \in Users \ {User[c]} : Standing(u)' = Standing(u)
         \/ faults' > 1
<1> USE WalletAssumption DEF TypeOK, hist
<1>1. CASE GetOrCreateWallet(c) \/ RefuseDebit(c) \/ CallThrows(c) \/ UpdateInTransaction(c)
           \/ InsertTransaction(c) \/ InsertLedgerEntry(c)
  <2>1. balance' = balance
    BY <1>1 DEF GetOrCreateWallet, RefuseDebit, CallThrows, UpdateInTransaction, InsertTransaction,
                InsertLedgerEntry
  <2>2. \A d \in Calls : (d \in recorded' \/ pc'[d] \in {"record", "compensate"})
                         <=> (d \in recorded \/ pc[d] \in {"record", "compensate"})
    BY <1>1 DEF GetOrCreateWallet, RefuseDebit, CallThrows, UpdateInTransaction, InsertTransaction,
                InsertLedgerEntry, Return, Goto
  <2> QED
    BY <2>1, <2>2 DEF Standing
<1>2. CASE Commit(c)
  <2>1. c \notin recorded
    BY <1>2 DEF Commit, RecordsInOrder
  <2>2. recorded' = recorded \cup {c} /\ pc' = [pc EXCEPT ![c] = "done"] /\ pc[c] = "open"
    BY <1>2 DEF Commit, Return
  <2>3. c \notin Standing(User[c]) /\ Standing(User[c])' = Standing(User[c]) \cup {c}
        /\ \A u \in Users \ {User[c]} : Standing(u)' = Standing(u)
    BY <2>1, <2>2 DEF Standing
  <2> QED
    BY <1>2, <2>3 DEF Commit, Change
<1>3. CASE UpdateBalance(c)
  <2>1. c \notin recorded
    BY <1>3 DEF UpdateBalance, RecordsInOrder
  <2>2. recorded' = recorded /\ pc' = [pc EXCEPT ![c] = "record"] /\ pc[c] = "update"
    BY <1>3 DEF UpdateBalance, Goto
  <2>3. c \notin Standing(User[c]) /\ Standing(User[c])' = Standing(User[c]) \cup {c}
        /\ \A u \in Users \ {User[c]} : Standing(u)' = Standing(u)
    BY <2>1, <2>2 DEF Standing
  <2> QED
    BY <1>3, <2>3 DEF UpdateBalance, Change
<1>4. CASE Compensate(c)
  <2>1. c \notin recorded /\ faults > 0
    BY <1>4 DEF Compensate, RecordsInOrder
  <2>2. recorded' = recorded /\ pc' = [pc EXCEPT ![c] = "done"] /\ pc[c] = "compensate"
    BY <1>4 DEF Compensate, Return
  <2>3. c \notin Standing(User[c])' /\ Standing(User[c]) = Standing(User[c])' \cup {c}
        /\ \A u \in Users \ {User[c]} : Standing(u)' = Standing(u)
    BY <2>1, <2>2 DEF Standing
  <2> QED
    BY <1>4, <2>1, <2>3 DEF Compensate, Fault
<1> QED
  BY <1>1, <1>2, <1>3, <1>4 DEF CallStep

\* No call records twice, and none compensates without a failed insert.
LEMMA OrderKept == ASSUME TypeOK, RecordsInOrder, [Next]_vars PROVE RecordsInOrder'
<1> USE DEF TypeOK, RecordsInOrder
<1>1. ASSUME NEW c \in Calls, CallStep(c) PROVE RecordsInOrder'
  <2>1. /\ faults' \in {faults, faults + 1}
        /\ \E p \in Pcs : /\ pc' = [pc EXCEPT ![c] = p]
                          /\ c \in recorded' => p \in {"post", "done"}
                          /\ p = "compensate" => faults' = faults + 1
        /\ recorded' \subseteq recorded \cup {c}
    BY <1>1 DEF CallStep, GetOrCreateWallet, RefuseDebit, CallThrows, UpdateInTransaction, Commit,
                UpdateBalance, InsertTransaction, InsertLedgerEntry, Compensate, Return, Goto,
                Fault, Pcs
  <2> QED
    BY <2>1
<1>2. ASSUME NEW a \in Audits, AuditStep(a) PROVE RecordsInOrder'
  BY <1>2 DEF AuditStep, ReadLedger, CompareBalance, OverwriteBalance
<1>3. ASSUME NEW b \in Backfills, BackfillStep(b) PROVE RecordsInOrder'
  BY <1>3 DEF BackfillStep, InsertBackfill, FindUnposted
<1>4. CASE Crash
  BY <1>4 DEF Crash, InFlight
<1>5. CASE UNCHANGED vars
  BY <1>5 DEF vars
<1> QED
  BY <1>1, <1>2, <1>3, <1>4, <1>5 DEF Next

\* The standing calls of a user are finitely many, with integer changes.
LEMMA StandingFinite ==
  ASSUME NEW u
  PROVE  /\ IsFiniteSet(Standing(u)) /\ IsFiniteSet(Standing(u)')
         /\ \A c \in Standing(u) \cup Standing(u)' : Delta[c] \in Int
<1>1. Standing(u) \subseteq Calls /\ Standing(u)' \subseteq Calls
  BY DEF Standing
<1> QED
  BY <1>1, WalletAssumption, FS_Subset

\* The balance follows the sum of the standing calls.
LEMMA RunningBooksKept ==
  ASSUME TypeOK, TypeOK', RecordsInOrder, RunningBooks, [Next]_vars
  PROVE  RunningBooks'
<1> SUFFICES ASSUME faults' <= 1, crashes' = 0, NEW u \in Unaudited
             PROVE  balance'[u] = SumFunctionOnSet(Delta, Standing(u)')
  BY DEF RunningBooks, Unaudited
<1>0. u \in Users /\ \A a \in Audits : AuditUser[a] # u
  BY DEF Unaudited
<1>1. faults <= 1 /\ crashes = 0
  BY DEF TypeOK, Next, CallStep, GetOrCreateWallet, RefuseDebit, CallThrows, UpdateInTransaction,
         Commit, UpdateBalance, InsertTransaction, InsertLedgerEntry, Compensate, AuditStep,
         ReadLedger, CompareBalance, OverwriteBalance, BackfillStep, InsertBackfill, FindUnposted,
         Crash, Fault, vars
<1>2. balance[u] = SumFunctionOnSet(Delta, Standing(u))
  BY <1>1 DEF RunningBooks
<1>3. ASSUME balance'[u] = balance[u], Standing(u)' = Standing(u)
      PROVE  balance'[u] = SumFunctionOnSet(Delta, Standing(u)')
  BY <1>2, <1>3
<1>4. ASSUME NEW c \in Calls, CallStep(c)
      PROVE  balance'[u] = SumFunctionOnSet(Delta, Standing(u)')
  <2> DEFINE S == Standing(u)
             T == Standing(u)'
  <2>1. CASE User[c] = u /\ c \notin S /\ T = S \cup {c}
             /\ balance' = [balance EXCEPT ![u] = @ + Delta[c]]
    <3>1. SumFunctionOnSet(Delta, S \cup {c}) = SumFunctionOnSet(Delta, S) + Delta[c]
      <4> HIDE DEF S, T
      <4> QED
        BY <2>1, StandingFinite, SumAdd DEF S, T
    <3> QED
      BY <1>0, <1>2, <2>1, <3>1 DEF TypeOK
  <2>2. CASE User[c] = u /\ c \notin T /\ S = T \cup {c}
             /\ balance' = [balance EXCEPT ![u] = @ - Delta[c]]
    <3>1. SumFunctionOnSet(Delta, T \cup {c}) = SumFunctionOnSet(Delta, T) + Delta[c]
      BY <2>2, StandingFinite, SumAdd
    <3>2. SumFunctionOnSet(Delta, T) \in Int /\ Delta[c] \in Int
      BY StandingFinite, SumInt, WalletAssumption
    <3>3. balance'[u] = balance[u] - Delta[c]
      BY <1>0, <2>2 DEF TypeOK
    <3> QED
      BY <1>2, <2>2, <3>1, <3>2, <3>3
  <2>3. CASE balance'[u] = balance[u] /\ T = S
    BY <1>3, <2>3
  <2>4. \/ balance' = balance /\ T = S
        \/ c \notin Standing(User[c]) /\ balance' = [balance EXCEPT ![User[c]] = @ + Delta[c]]
           /\ Standing(User[c])' = Standing(User[c]) \cup {c} /\ (u # User[c] => T = S)
        \/ c \notin Standing(User[c])' /\ balance' = [balance EXCEPT ![User[c]] = @ - Delta[c]]
           /\ Standing(User[c]) = Standing(User[c])' \cup {c} /\ (u # User[c] => T = S)
    <3>1. ~(faults' > 1)
      BY DEF TypeOK
    <3> QED
      BY <1>0, <1>4, <3>1, BooksStep
  <2>5. CASE User[c] # u
    <3>1. balance'[u] = balance[u] /\ T = S
      BY <1>0, <2>4, <2>5 DEF TypeOK
    <3> QED
      BY <2>3, <3>1
  <2>6. CASE User[c] = u
    BY <2>1, <2>2, <2>3, <2>4, <2>6
  <2> QED
    BY <2>5, <2>6
<1>5. ASSUME NEW a \in Audits, AuditStep(a)
      PROVE  balance'[u] = SumFunctionOnSet(Delta, Standing(u)')
  <2>1. balance'[u] = balance[u]
    BY <1>0, <1>5 DEF AuditStep, ReadLedger, CompareBalance, OverwriteBalance, TypeOK
  <2>2. Standing(u)' = Standing(u)
    BY <1>5 DEF AuditStep, ReadLedger, CompareBalance, OverwriteBalance, Standing
  <2> QED
    BY <1>3, <2>1, <2>2
<1>6. ASSUME NEW b \in Backfills, BackfillStep(b)
      PROVE  balance'[u] = SumFunctionOnSet(Delta, Standing(u)')
  BY <1>3, <1>6 DEF BackfillStep, InsertBackfill, FindUnposted, Standing
<1>7. ~Crash
  BY DEF Crash, TypeOK
<1>8. CASE UNCHANGED vars
  BY <1>3, <1>8 DEF vars, Standing
<1> QED
  BY <1>4, <1>5, <1>6, <1>7, <1>8 DEF Next

\* While no process has died, one failed call of DeductBalanceAsync or
\* AddBalanceAsync does not separate a wallet nobody audits from its
\* Transaction documents (QuietBooks), with transactions or without.
THEOREM BooksAtRest == Spec => []QuietBooks
<1>1. Init => TypeOK /\ RecordsInOrder /\ RunningBooks
  <2> SUFFICES ASSUME Init PROVE TypeOK /\ RecordsInOrder /\ RunningBooks
    OBVIOUS
  <2>1. TypeOK /\ RecordsInOrder
    BY WalletAssumption DEF Init, TypeOK, RecordsInOrder, Pcs
  <2>2. \A u \in Users : Standing(u) = {}
    BY DEF Init, Standing
  <2> QED
    BY <2>1, <2>2, SumEmpty DEF Init, RunningBooks, Unaudited
<1>2. /\ TypeOK /\ RecordsInOrder /\ RunningBooks /\ [Next]_vars
      => TypeOK' /\ RecordsInOrder' /\ RunningBooks'
  BY TypeKept, OrderKept, RunningBooksKept
<1>3. TypeOK /\ RecordsInOrder /\ RunningBooks => QuietBooks
  <2> SUFFICES ASSUME TypeOK, RunningBooks, InFlight = {}, faults <= 1, crashes = 0,
                      NEW u \in Unaudited
               PROVE  balance[u] = SumFunctionOnSet(Delta, {c \in recorded : User[c] = u})
    BY DEF QuietBooks
  <2>1. Standing(u) = {c \in recorded : User[c] = u}
    BY DEF Standing, InFlight, TypeOK
  <2> QED
    BY <2>1 DEF RunningBooks
<1> QED
  BY <1>1, <1>2, <1>3, PTL DEF Spec

=============================================================================
