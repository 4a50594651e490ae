------------------------------ MODULE Sessions ------------------------------
(***************************************************************************)
(* backend/services/session_service_ent.go: the sessions of one user and   *)
(* the rotation of their refresh tokens.  RefreshSession runs in one       *)
(* transaction at read committed: it reads the session, and what it writes *)
(* later is atomic, with a condition on is_used only.                      *)
(*                                                                         *)
(* Not here: the branch of RefreshSession for a used session, with its     *)
(* grace period, RevokeTokenFamily and LockAccount.  A session is marked   *)
(* used and revoked in one transaction and a revoked one is refused before *)
(* that branch, which nothing reaches; so no account has a SessionLock.    *)
(* Nothing calls CleanupExpiredSessions.                                   *)
(***************************************************************************)
EXTENDS Naturals, FiniteSets

CONSTANTS
    Sessions,               \* session ids, each with its refresh token
    Requests,               \* slots of concurrent requests
    None,
    MaxConcurrentSessions

ASSUME SessionsAssumption ==
    /\ MaxConcurrentSessions \in Nat \ {0}
    /\ None \notin Sessions
    /\ IsFiniteSet(Sessions)

VARIABLES
    row,         \* row[s]: the session's row
    req,         \* the request each slot runs
    parent,      \* history: the session s was rotated from, or None
    loose,       \* history: requests overlapped, or an eviction failed
    closed       \* history: everything was revoked, with nothing under way that
                 \* makes a session, and no log-in since

sessionVars == <<row, req, parent, loose, closed>>

-----------------------------------------------------------------------------

\* age: more than RefreshTokenRotationWindow before expires_at, less, or past it.
Rows == [exists : BOOLEAN, used : BOOLEAN, revoked : BOOLEAN,
         age : {"fresh", "near", "expired"}, family : Sessions \cup {None}]

NoRow == [exists |-> FALSE, used |-> FALSE, revoked |-> FALSE, age |-> "fresh",
          family |-> None]

(***************************************************************************)
(* evict   about to revoke s, to make room                                 *)
(* insert  about to insert a session                                       *)
(* travel  about to compare the countries of recent sessions               *)
(* write   RefreshSession of s, about to write                             *)
(***************************************************************************)
RequestRecords ==
    [pc : {"idle", "evict", "insert", "travel", "write"},
     op : {"none", "create", "refresh"}, s : Sessions \cup {None}]

NoRequest == [pc |-> "idle", op |-> "none", s |-> None]

SessionsTypeOK ==
    /\ row \in [Sessions -> Rows]
    /\ req \in [Requests -> RequestRecords]
    /\ parent \in [Sessions -> Sessions \cup {None}]
    /\ loose \in BOOLEAN /\ closed \in BOOLEAN

SessionsInit ==
    /\ row = [s \in Sessions |-> NoRow]
    /\ req = [q \in Requests |-> NoRequest]
    /\ parent = [s \in Sessions |-> None]
    /\ loose = FALSE /\ closed = FALSE

Live(s) == row[s].exists /\ ~row[s].revoked

\* GetActiveSessions
Active == {s \in Sessions : Live(s) /\ row[s].age # "expired"}

BeginRequest(q, op, pc, s) ==
    /\ req[q].pc = "idle"
    /\ req' = [req EXCEPT ![q] = [pc |-> pc, op |-> op, s |-> s]]
    /\ loose' = (loose \/ \E p \in Requests : req[p].pc # "idle")

GoOn(q, pc) == req' = [req EXCEPT ![q].pc = pc]

Return(q) == req' = [req EXCEPT ![q] = NoRequest]

\* A request that may still make a session.
Makes(r) == r.op = "refresh" \/ r.pc \in {"evict", "insert"}

-----------------------------------------------------------------------------
(* CreateSession.                                                          *)

\* Mutant: off by one.
CreateSessionPastLimit(q) ==
    /\ IF Cardinality(Active) > MaxConcurrentSessions
       THEN \E s \in Active : BeginRequest(q, "create", "evict", s)
       ELSE BeginRequest(q, "create", "insert", None)
    /\ closed' = FALSE
    /\ UNCHANGED <<row, parent>>

\* A log-in reached CreateSession, which reads the active sessions and picks
\* the least recently used one, here any.  (Log-in by password is refused
\* while the account is locked, by passkey it is not.)
CreateSession(q) ==
    /\ IF Cardinality(Active) >= MaxConcurrentSessions
       THEN \E s \in Active : BeginRequest(q, "create", "evict", s)
       ELSE BeginRequest(q, "create", "insert", None)
    /\ closed' = FALSE
    /\ UNCHANGED <<row, parent>>

\* An error of RevokeSession is ignored, and so is one of GetActiveSessions,
\* which comes to the same.
EvictOldest(q) ==
    /\ req[q].pc = "evict"
    /\ \/ row' = [row EXCEPT ![req[q].s].revoked = TRUE] /\ UNCHANGED loose
       \/ UNCHANGED row /\ loose' = TRUE
    /\ GoOn(q, "insert")
    /\ UNCHANGED <<parent, closed>>

InsertSession(q, s) ==
    /\ req[q].pc = "insert" /\ ~row[s].exists
    /\ row' = [row EXCEPT ![s] = [NoRow EXCEPT !.exists = TRUE, !.family = s]]
    /\ GoOn(q, "travel")
    /\ UNCHANGED <<parent, loose, closed>>

-----------------------------------------------------------------------------
(* checkIPRotationPatternEnt, which writes outside the transaction.        *)

AfterTravel(q) == IF req[q].op = "refresh" THEN GoOn(q, "write") ELSE Return(q)

NoTravel(q) ==
    /\ req[q].pc = "travel"
    /\ AfterTravel(q)
    /\ UNCHANGED <<row, parent, loose, closed>>

\* Every session is revoked; closed when no request makes another.
RevokeRows(requests) ==
    /\ row' = [s \in Sessions |-> [row[s] EXCEPT !.revoked = @ \/ row[s].exists]]
    /\ closed' = (closed \/ \A p \in Requests : ~Makes(requests[p]))

\* Two countries in 30 minutes: the user is locked, which only the log-in by
\* password asks about, and every session revoked, that of this request too.
\* An error leaves them as they are, like NoTravel.
TravelRevoke(q) ==
    /\ req[q].pc = "travel"
    /\ AfterTravel(q)
    /\ RevokeRows(req)
    /\ UNCHANGED <<parent, loose>>

-----------------------------------------------------------------------------
(* RefreshSession.                                                         *)

\* Mutant: only the expiry is checked.
RefreshRevoked(q, s) ==
    /\ row[s].exists /\ row[s].age # "expired"
    /\ \E pc \in {"travel", "write"} : BeginRequest(q, "refresh", pc, s)
    /\ UNCHANGED <<row, parent, closed>>

\* It reads the session; a changed address leads to the travel check.
RefreshSession(q, s) ==
    /\ s \in Active
    /\ \E pc \in {"travel", "write"} : BeginRequest(q, "refresh", pc, s)
    /\ UNCHANGED <<row, parent, closed>>

\* Far from expiry only the access token changes.
KeepToken(q) ==
    /\ req[q].pc = "write" /\ row[req[q].s].age = "fresh"
    /\ Return(q)
    /\ UNCHANGED <<row, parent, loose, closed>>

\* Mutant: the old session is not revoked.
RotateKeepingOld(q, new) ==
    LET s == req[q].s IN
    /\ req[q].pc = "write" /\ row[s].age # "fresh"
    /\ ~row[s].used
    /\ ~row[new].exists
    /\ row' = [row EXCEPT ![s].used = TRUE,
                          ![new] = [NoRow EXCEPT !.exists = TRUE, !.family = row[s].family]]
    /\ parent' = [parent EXCEPT ![new] = s]
    /\ Return(q)
    /\ UNCHANGED <<loose, closed>>

\* The rest of the transaction: is_used is set if it was not, the successor
\* inserted in the same family, the old session revoked.  Whether it has been
\* revoked since it was read is not asked.
Rotate(q, new) ==
    LET s == req[q].s IN
    /\ req[q].pc = "write" /\ row[s].age # "fresh"
    /\ ~row[s].used
    /\ ~row[new].exists
    /\ row' = [row EXCEPT ![s].used = TRUE, ![s].revoked = TRUE,
                          ![new] = [NoRow EXCEPT !.exists = TRUE, !.family = row[s].family]]
    /\ parent' = [parent EXCEPT ![new] = s]
    /\ Return(q)
    /\ UNCHANGED <<loose, closed>>

-----------------------------------------------------------------------------

\* RevokeSession of a user, and RevokeSessionByRefreshToken.
RevokeSession(s) ==
    /\ row[s].exists
    /\ row' = [row EXCEPT ![s].revoked = TRUE]
    /\ UNCHANGED <<req, parent, loose, closed>>

RevokeAllUserSessions ==
    /\ RevokeRows(req)
    /\ UNCHANGED <<req, parent, loose>>

\* The request fails, is refused or dies; its transaction is rolled back.
Abandon(q) ==
    /\ req[q].pc # "idle"
    /\ Return(q)
    /\ UNCHANGED <<row, parent, loose, closed>>

\* Time passes.
Age(s) ==
    /\ row[s].exists /\ row[s].age # "expired"
    /\ row' = [row EXCEPT ![s].age = IF @ = "fresh" THEN "near" ELSE "expired"]
    /\ UNCHANGED <<req, parent, loose, closed>>

SessionsNext ==
    \/ \E q \in Requests :
         \/ CreateSession(q) \/ EvictOldest(q)
         \/ NoTravel(q) \/ TravelRevoke(q)
         \/ KeepToken(q) \/ Abandon(q)
         \/ \E s \in Sessions : InsertSession(q, s) \/ RefreshSession(q, s) \/ Rotate(q, s)
    \/ \E s \in Sessions : RevokeSession(s) \/ Age(s)
    \/ RevokeAllUserSessions

SessionsSpec == SessionsInit /\ [][SessionsNext]_sessionVars

-----------------------------------------------------------------------------
(* Properties.                                                             *)

\* Of the sessions that follow each other by rotation at most one can be used,
\* whatever requests and revocations overlap (the condition on is_used, and
\* the old session revoked in the same transaction).
OneLivePerFamily ==
    \A s, u \in Sessions :
        Live(s) /\ Live(u) /\ row[s].family = row[u].family => s = u

\* No refresh token is exchanged for two others, however many tabs send it.
TokenExchangedOnce ==
    \A s, u \in Sessions : parent[s] = parent[u] /\ parent[s] # None => s = u

\* The limit of CreateSession holds as long as requests do not overlap and the
\* session to make room for was revoked: RefreshSession never adds one, even
\* when its session expires or is revoked under it.
SessionLimit == ~loose => Cardinality(Active) <= MaxConcurrentSessions

\* Once all sessions were revoked with no request under way that makes one,
\* nobody is logged in until the next log-in (RevokeAllUserSessions, and the
\* check RefreshSession makes before it rotates).
LoggedOutStaysOut == closed => \A s \in Sessions : ~Live(s)

=============================================================================
