---------------------------- MODULE Idempotency ----------------------------
(***************************************************************************)
(* Infrastructure/Idempotency/RedisIdempotencyService.cs and the handlers  *)
(* that wrap every transfer and withdrawal in it: SecureTransferService.cs *)
(* and SecureWithdrawalService.cs.                                         *)
(*                                                                         *)
(* A client names each operation with an idempotency key and repeats the   *)
(* key when it retries.  A handler looks for the stored result of its key, *)
(* takes a lock with SET NX, runs the operation, and stores the result and *)
(* deletes the lock in one Redis transaction; an exception deletes the     *)
(* lock.  The lock carries a time to live, and so does the result.         *)
(***************************************************************************)
EXTENDS Naturals

CONSTANTS
    Requests,       \* HTTP requests, a client's retries included
    Keys,           \* idempotency keys, scoped by operation and user
    Key,            \* [Requests -> Keys]
    NoRequest,      \* the holder of a free lock
    NoResult,       \* the stored result of a key that has none
    MaxThrows,      \* bound: calls of Redis or of the audit trail that throw
    MaxDeaths,      \* bound: deaths of the process that serves a request
    MaxExpiries     \* bound: expiries of locks and of results, each

\* A stored result: how its property names are written, and what it says.
Json == [names : {"camelCase", "PascalCase"}, success : {"ok", "refused"}]

ASSUME IdempotencyAssumption ==
    /\ Key \in [Requests -> Keys]
    /\ NoRequest \notin Requests /\ NoResult \notin Json
    /\ MaxThrows \in Nat /\ MaxDeaths \in Nat /\ MaxExpiries \in Nat

VARIABLES
    lock,       \* idempotency:lock:<key>, the request that set it
    result,     \* idempotency:result:<key>, the JSON stored
    pc,         \* where each request stands
    outcome,    \* what its own run of the operation returned
    answer,     \* what its client has been told
    lost,       \* history: keys whose lock went away under its holder
    staleResults, \* history: keys whose result has expired
    overlapped, \* history: keys of which a request came while another was served
    thrown,
    deaths,
    expiries

idempotencyVars == <<lock, result, pc, outcome, answer, lost, staleResults, overlapped,
                     thrown, deaths, expiries>>

(***************************************************************************)
(* new       not sent yet                                                  *)
(* lock      found no result, about to SET NX                              *)
(* run       holds the lock, about to run the operation                    *)
(* store     has run it, about to store the result                         *)
(* confirm   stored, about to write the last audit event                   *)
(* release   in the catch block, about to delete the lock                  *)
(* done      answered, or dead                                             *)
(***************************************************************************)
Pcs == {"new", "lock", "run", "store", "confirm", "release", "done"}

Outcomes == {"none", "ok", "refused", "threw"}

Answers == {"none", "ok", "refused", "threw", "busy", "blocked"}

\* StoreResultAsync writes the property names in camel case.
Serialize(o) == [names |-> "camelCase", success |-> o]

\* The readers look for the property "Success", case included; a result
\* without it is "invalid" and the request is blocked.
Parse(json) == IF json.names = "PascalCase" THEN json.success ELSE "blocked"

IdempotencyTypeOK ==
    /\ lock \in [Keys -> Requests \cup {NoRequest}]
    /\ result \in [Keys -> Json \cup {NoResult}]
    /\ pc \in [Requests -> Pcs]
    /\ outcome \in [Requests -> Outcomes]
    /\ answer \in [Requests -> Answers]
    /\ lost \subseteq Keys /\ staleResults \subseteq Keys /\ overlapped \subseteq Keys
    /\ thrown \in Nat /\ deaths \in Nat /\ expiries \in [{"lock", "result"} -> Nat]

IdempotencyInit ==
    /\ lock = [k \in Keys |-> NoRequest]
    /\ result = [k \in Keys |-> NoResult]
    /\ pc = [r \in Requests |-> "new"]
    /\ outcome = [r \in Requests |-> "none"]
    /\ answer = [r \in Requests |-> "none"]
    /\ lost = {} /\ staleResults = {} /\ overlapped = {}
    /\ thrown = 0
    /\ deaths = 0
    /\ expiries = [x \in {"lock", "result"} |-> 0]

-----------------------------------------------------------------------------

Throws == thrown < MaxThrows /\ thrown' = thrown + 1

UnderWay(r) == pc[r] \notin {"new", "done"}

InFlight(k) == {r \in Requests : Key[r] = k /\ UnderWay(r)}

MoveTo(r, p) == pc' = [pc EXCEPT ![r] = p]

Answer(r, a) ==
    /\ pc' = [pc EXCEPT ![r] = "done"]
    /\ answer' = [answer EXCEPT ![r] = a]

\* The lock's key is deleted, whoever has set it.
DeleteLock(r) ==
    /\ lock' = [lock EXCEPT ![Key[r]] = NoRequest]
    /\ lost' = IF lock[Key[r]] \in {r, NoRequest} THEN lost ELSE lost \cup {Key[r]}

-----------------------------------------------------------------------------
(* TryAcquireAsync: a GET and, separately, a SET NX.  It is called outside *)
(* the try block: an error of Redis ends the request.                      *)

GetResult(r) ==
    /\ pc[r] = "new"
    /\ result[Key[r]] = NoResult
    /\ overlapped' = IF InFlight(Key[r]) = {} THEN overlapped ELSE overlapped \cup {Key[r]}
    /\ \/ MoveTo(r, "lock") /\ UNCHANGED <<answer, thrown>>
       \/ Throws /\ Answer(r, "threw")
    /\ UNCHANGED <<lock, result, outcome, lost, staleResults, deaths, expiries>>

\* A stored result is parsed and returned, after an audit event that may throw.
Replay(r) ==
    /\ pc[r] = "new"
    /\ result[Key[r]] # NoResult
    /\ \/ Answer(r, Parse(result[Key[r]])) /\ UNCHANGED thrown
       \/ Throws /\ Answer(r, "threw")
    /\ UNCHANGED <<lock, result, outcome, lost, staleResults, overlapped, deaths, expiries>>

\* Mutant: a plain SET instead of SET NX.
SetLockAlways(r) ==
    /\ pc[r] = "lock"
    /\ lock' = [lock EXCEPT ![Key[r]] = r]
    /\ MoveTo(r, "run")
    /\ UNCHANGED <<result, outcome, answer, lost, staleResults, overlapped, thrown, deaths, expiries>>

\* When the answer of Redis is lost, the lock may have been set or not.
SetLock(r) ==
    /\ pc[r] = "lock"
    /\ \/ /\ lock[Key[r]] = NoRequest
          /\ lock' = [lock EXCEPT ![Key[r]] = r]
          /\ \/ MoveTo(r, "run") /\ UNCHANGED <<answer, thrown>>
             \/ Throws /\ Answer(r, "threw")
       \/ /\ lock[Key[r]] # NoRequest
          /\ Answer(r, "busy") /\ UNCHANGED <<lock, thrown>>
       \/ Throws /\ Answer(r, "threw") /\ UNCHANGED lock
    /\ UNCHANGED <<result, outcome, lost, staleResults, overlapped, deaths, expiries>>

-----------------------------------------------------------------------------
(* The body of the handlers.                                               *)

\* The operation runs and returns its result, or throws without effect
\* (CreateTransferAsync refuses by an exception); the audit event before it
\* may throw as well.
RunOperation(r) ==
    /\ pc[r] = "run"
    /\ \/ /\ \E o \in {"ok", "refused"} : outcome' = [outcome EXCEPT ![r] = o]
          /\ MoveTo(r, "store")
       \/ /\ outcome' = [outcome EXCEPT ![r] = "threw"]
          /\ MoveTo(r, "release")
    /\ UNCHANGED <<lock, result, answer, lost, staleResults, overlapped, thrown, deaths, expiries>>

\* Mutant: the lock is deleted and the result forgotten.
StoreNothing(r) ==
    /\ pc[r] = "store"
    /\ DeleteLock(r)
    /\ MoveTo(r, "confirm")
    /\ UNCHANGED <<result, outcome, answer, staleResults, overlapped, thrown, deaths, expiries>>

\* MULTI: SET result, DEL lock.  The connection may break before it or after.
StoreResult(r) ==
    /\ pc[r] = "store"
    /\ \/ /\ result' = [result EXCEPT ![Key[r]] = Serialize(outcome[r])]
          /\ DeleteLock(r)
          /\ \/ MoveTo(r, "confirm") /\ UNCHANGED thrown
             \/ Throws /\ MoveTo(r, "release")
       \/ Throws /\ MoveTo(r, "release") /\ UNCHANGED <<result, lock, lost>>
    /\ UNCHANGED <<outcome, answer, staleResults, overlapped, deaths, expiries>>

ConfirmAudit(r) ==
    /\ pc[r] = "confirm"
    /\ \/ Answer(r, outcome[r]) /\ UNCHANGED thrown
       \/ Throws /\ MoveTo(r, "release") /\ UNCHANGED answer
    /\ UNCHANGED <<lock, result, outcome, lost, staleResults, overlapped, deaths, expiries>>

\* The catch block: ReleaseAsync swallows a Redis error, and the audit event
\* CreateTransferAsync writes before it may throw; both leave the lock.
Release(r) ==
    /\ pc[r] = "release"
    /\ \/ DeleteLock(r) /\ UNCHANGED thrown
       \/ Throws /\ UNCHANGED <<lock, lost>>
    /\ Answer(r, "threw")
    /\ UNCHANGED <<result, outcome, staleResults, overlapped, deaths, expiries>>

-----------------------------------------------------------------------------
(* Time and failure.                                                       *)

\* Redis drops the lock after LockDuration, 30 seconds by default.
ExpireLock(k) ==
    /\ lock[k] # NoRequest
    /\ expiries["lock"] < MaxExpiries
    /\ expiries' = [expiries EXCEPT !["lock"] = @ + 1]
    /\ lock' = [lock EXCEPT ![k] = NoRequest]
    /\ lost' = lost \cup {k}
    /\ UNCHANGED <<result, pc, outcome, answer, staleResults, overlapped, thrown, deaths>>

\* Redis drops the result after ResultTtl, 24 hours by default.
ExpireResult(k) ==
    /\ result[k] # NoResult
    /\ expiries["result"] < MaxExpiries
    /\ expiries' = [expiries EXCEPT !["result"] = @ + 1]
    /\ result' = [result EXCEPT ![k] = NoResult]
    /\ staleResults' = staleResults \cup {k}
    /\ UNCHANGED <<lock, pc, outcome, answer, lost, overlapped, thrown, deaths>>

\* The process that serves r dies; its lock stays until it expires.
Die(r) ==
    /\ UnderWay(r)
    /\ deaths < MaxDeaths
    /\ deaths' = deaths + 1
    /\ Answer(r, "threw")
    /\ UNCHANGED <<lock, result, outcome, lost, staleResults, overlapped, thrown, expiries>>

Step(r) ==
    \/ GetResult(r) \/ Replay(r) \/ SetLock(r)
    \/ RunOperation(r) \/ StoreResult(r) \/ ConfirmAudit(r) \/ Release(r)

IdempotencyNext ==
    \/ \E r \in Requests : Step(r) \/ Die(r)
    \/ \E k \in Keys : ExpireLock(k) \/ ExpireResult(k)

IdempotencySpec == IdempotencyInit /\ [][IdempotencyNext]_idempotencyVars

-----------------------------------------------------------------------------
(* Properties.                                                             *)

\* r is between its SET NX and the end of its Redis transaction.
Working(r) == pc[r] \in {"run", "store"}

\* Two requests of one key run the operation at the same time only after the
\* lock of RedisIdempotencyService has gone away under its holder: expired
\* during a long operation, or deleted by another request's catch block.
MutualExclusion ==
    \A r, s \in Requests :
        Working(r) /\ Working(s) /\ Key[r] = Key[s] /\ Key[r] \notin lost => r = s

Executions(k) == {r \in Requests : Key[r] = k /\ outcome[r] \in {"ok", "refused"}}

\* IIdempotencyService promises that a transaction is not executed twice.  The
\* part of the promise the handlers keep: a client that waits for each answer
\* before it retries runs its operation once, unless a call threw, a process
\* died or the stored result has expired; an expired lock is harmless.  (The
\* GET of the result and the SET NX of the lock are two commands, so requests
\* that overlap can both run it.)
SerialRetriesRunOnce ==
    thrown = 0 /\ deaths = 0
    => \A k \in Keys \ (staleResults \cup overlapped) : \A r, s \in Executions(k) : r = s

=============================================================================
