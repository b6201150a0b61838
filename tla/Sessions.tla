------------------------------ MODULE Sessions ------------------------------
(***************************************************************************)
(* The life of a session: opened by generateTokens(), kept alive by        *)
(* /auth/refresh-token, checked by authMiddleware on every authenticated   *)
(* request, and ended by logout, by the session endpoints, by the deletion *)
(* of its user, or by its expiry date.                                     *)
(*                                                                         *)
(* Handlers run concurrently and each database call is a step.  A session  *)
(* is named by its id; its refresh token, which only it has, is named by   *)
(* the id too.  Of the access tokens of a session only the newest counts:  *)
(* what an older one can do, it can do.                                    *)
(*                                                                         *)
(* Left out: the deletion of all users, which the role of its caller makes *)
(* the database refuse (Rbac); were it not refused, it would end every     *)
(* session in one statement.                                               *)
(***************************************************************************)
EXTENDS Naturals, FiniteSets

CONSTANTS
    Users,
    SessionIds,      \* uuids: each is drawn once
    Requests,        \* requests that can be in flight at once
    None,
    Pinned,          \* users that a UserRole or MfaSecret row refers to
    ShortLife,       \* 7 days
    LongLife,        \* 30 days, with "remember"
    JwtExpiry,       \* life of an access token
    ClockTolerance,  \* of jwt.verify
    MaxTime          \* bound: the clock stops here

ASSUME SessionsAssumption ==
    /\ ShortLife \in Nat /\ LongLife \in Nat
    /\ JwtExpiry \in Nat /\ ClockTolerance \in Nat /\ MaxTime \in Nat
    /\ None \notin SessionIds \cup Users
    /\ Pinned \subseteq Users

VARIABLES
    accounts,      \* User rows
    sessions,      \* Session rows
    owner,         \* their userId; None for an id not drawn yet
    expiresAt,     \* their expiresAt
    accessUntil,   \* exp of the newest access token signed for the session
    now,
    request,       \* the requests in flight
    \* history, read by the properties only
    acknowledged,  \* sessions that a request, answered 200, was to end
    logoutFailed   \* a deletion of a session failed, the database working

table == <<accounts, sessions, owner, expiresAt>>
history == <<acknowledged, logoutFailed>>
vars == <<table, accessUntil, now, request, history>>

----------------------------------------------------------------------------
(* A request is in authMiddleware ("lookup"), in the handler behind it     *)
(* ("serve" to "sweep"), or in refreshToken ("touch", "sign").             *)

Handlers == {"serve", "find", "deleteAll", "deleteUser"}
Admitted == Handlers \cup {"delete", "sweep"}
Labels == {"idle", "lookup", "touch", "sign"} \cup Admitted

\* session: the caller's.  target: the session or the user to delete.  handler: what
\* comes after the middleware.  History: goal, the sessions a 200 tells the
\* caller are over; dead, the session was over when the request came;
\* checked, the middleware has seen its row.
Request == [pc: Labels, session: SessionIds \cup {None},
            target: SessionIds \cup Users \cup {None}, handler: Handlers \cup {"none"},
            goal: SUBSET SessionIds, dead: BOOLEAN, checked: BOOLEAN]

Idle == [pc |-> "idle", session |-> None, target |-> None, handler |-> "none",
         goal |-> {}, dead |-> FALSE, checked |-> FALSE]

Opened == {s \in SessionIds : owner[s] # None}
SessionsOf(u) == {s \in sessions : owner[s] = u}
Expired(s) == expiresAt[s] < now

GoTo(r, label) == request' = [request EXCEPT ![r].pc = label]
Finish(r) == request' = [request EXCEPT ![r] = Idle]

\* The handler answers 200: what the caller asked to end is over.
Succeed(r) ==
    /\ Finish(r)
    /\ acknowledged' = acknowledged \cup request[r].goal
    /\ UNCHANGED logoutFailed

Init ==
    /\ accounts = Users
    /\ sessions = {}
    /\ owner = [s \in SessionIds |-> None]
    /\ expiresAt = [s \in SessionIds |-> 0]
    /\ accessUntil = [s \in SessionIds |-> 0]
    /\ now = 0
    /\ request = [r \in Requests |-> Idle]
    /\ acknowledged = {}
    /\ logoutFailed = FALSE

----------------------------------------------------------------------------
(* Opening: the last step of register, login and verifyMfaLogin.           *)

\* createSession (its foreign key needs the user) and the first access token.
GenerateTokens(u, s, life) ==
    /\ u \in accounts
    /\ owner[s] = None
    /\ owner' = [owner EXCEPT ![s] = u]
    /\ sessions' = sessions \cup {s}
    /\ expiresAt' = [expiresAt EXCEPT ![s] = now + life]
    /\ accessUntil' = [accessUntil EXCEPT ![s] = now + JwtExpiry]
    /\ UNCHANGED <<accounts, now, request, history>>

----------------------------------------------------------------------------
(* POST /auth/refresh-token.                                               *)

\* No row, or an expired one: InvalidRefreshToken.
InvalidRefreshToken(r, s) ==
    /\ request[r].pc = "idle"
    /\ s \in Opened
    /\ s \notin sessions \/ Expired(s)
    /\ UNCHANGED vars

\* getSessionByToken finds a row that has not expired.
GetSessionByToken(r, s) ==
    /\ request[r].pc = "idle"
    /\ s \in sessions
    /\ ~Expired(s)
    /\ request' = [request EXCEPT ![r] =
          [Idle EXCEPT !.pc = "touch", !.session = s]]
    /\ UNCHANGED <<table, accessUntil, now, history>>

\* Mutant: the row is written whether it is there or not.
UpsertLastActive(r) ==
    /\ request[r].pc = "touch"
    /\ sessions' = sessions \cup {request[r].session}
    /\ GoTo(r, "sign")
    /\ UNCHANGED <<accounts, owner, expiresAt, accessUntil, now, history>>

\* updateLastActive; lastActiveAt itself is read only to sort a listing.
UpdateLastActive(r) ==
    /\ request[r].pc = "touch"
    /\ request[r].session \in sessions
    /\ GoTo(r, "sign")
    /\ UNCHANGED <<table, accessUntil, now, history>>

\* The row went after it was read: update throws P2025.
RefreshTooLate(r) ==
    /\ request[r].pc = "touch"
    /\ request[r].session \notin sessions
    /\ Finish(r)
    /\ UNCHANGED <<table, accessUntil, now, history>>

SignAccessToken(r) ==
    /\ request[r].pc = "sign"
    /\ accessUntil' = [accessUntil EXCEPT ![request[r].session] = now + JwtExpiry]
    /\ Finish(r)
    /\ UNCHANGED <<table, now, history>>

----------------------------------------------------------------------------
(* authMiddleware, in front of every authenticated route.                  *)

\* jwt.verify throws TokenExpiredError: 401.
TokenExpired(r, s) ==
    /\ request[r].pc = "idle"
    /\ s \in Opened
    /\ now >= accessUntil[s] + ClockTolerance
    /\ UNCHANGED vars

\* Mutant: the claims are not checked, so that a token that names no session,
\* an MFA challenge for one, goes on to the lookup.
VerifyAnyClaims(r, s, handler, target) ==
    /\ request[r].pc = "idle"
    /\ now < accessUntil[s] + ClockTolerance
    /\ request' = [request EXCEPT ![r] =
          [Idle EXCEPT !.pc = "lookup", !.session = s, !.target = target,
                       !.handler = handler]]
    /\ UNCHANGED <<table, accessUntil, now, history>>

\* jwt.verify accepts the token, and its claims name a user and a session.
VerifyToken(r, s, handler, target) ==
    /\ request[r].pc = "idle"
    /\ s \in Opened
    /\ now < accessUntil[s] + ClockTolerance
    /\ request' = [request EXCEPT ![r] =
          [pc |-> "lookup", session |-> s, target |-> target,
           handler |-> handler,
           goal |-> CASE handler = "find" -> {target}
                      [] handler = "deleteAll" -> SessionsOf(owner[s])
                      [] OTHER -> {},
           dead |-> s \in acknowledged \/ Expired(s),
           checked |-> FALSE]]
    /\ UNCHANGED <<table, accessUntil, now, history>>

\* Mutant: the date of the row is not looked at.
LookupRowOnly(r) ==
    /\ request[r].pc = "lookup"
    /\ request[r].session \in sessions
    /\ request' = [request EXCEPT ![r].pc = request[r].handler,
                                  ![r].checked = TRUE]
    /\ UNCHANGED <<table, accessUntil, now, history>>

\* Mutant: the row is remembered from an earlier request, only its date counts.
LookupCached(r) ==
    /\ request[r].pc = "lookup"
    /\ ~Expired(request[r].session)
    /\ request' = [request EXCEPT ![r].pc = request[r].handler,
                                  ![r].checked = TRUE]
    /\ UNCHANGED <<table, accessUntil, now, history>>

\* findById finds a session that has not expired.
LookupSession(r) ==
    /\ request[r].pc = "lookup"
    /\ request[r].session \in sessions
    /\ ~Expired(request[r].session)
    /\ request' = [request EXCEPT ![r].pc = request[r].handler,
                                  ![r].checked = TRUE]
    /\ UNCHANGED <<table, accessUntil, now, history>>

\* "Session expired or revoked": 401.
LookupRefuses(r) ==
    /\ request[r].pc = "lookup"
    /\ request[r].session \notin sessions \/ Expired(request[r].session)
    /\ Finish(r)
    /\ UNCHANGED <<table, accessUntil, now, history>>

\* findById throws; catch {} discards the error and next() is called.
LookupFails(r) ==
    /\ request[r].pc = "lookup"
    /\ GoTo(r, request[r].handler)
    /\ UNCHANGED <<table, accessUntil, now, history>>

----------------------------------------------------------------------------
(* The handlers behind it.                                                 *)

\* Any handler that changes no session, listSessions among them.
Serve(r) ==
    /\ request[r].pc = "serve"
    /\ Succeed(r)
    /\ UNCHANGED <<table, accessUntil, now>>

\* deleteSession, for logout (its own session) and DELETE /sessions/:id:
\* findById, and nothing to do without a row.
FindTarget(r) ==
    /\ request[r].pc = "find"
    /\ IF request[r].target \in sessions
       THEN GoTo(r, "delete") /\ UNCHANGED history
       ELSE Succeed(r)
    /\ UNCHANGED <<table, accessUntil, now>>

DeleteTarget(r) ==
    /\ request[r].pc = "delete"
    /\ request[r].target \in sessions
    /\ sessions' = sessions \ {request[r].target}
    /\ Succeed(r)
    /\ UNCHANGED <<accounts, owner, expiresAt, accessUntil, now>>

\* The row went after it was found: delete throws P2025.
DeleteTooLate(r) ==
    /\ request[r].pc = "delete"
    /\ request[r].target \notin sessions
    /\ Finish(r)
    /\ logoutFailed' = TRUE
    /\ UNCHANGED <<table, accessUntil, now, acknowledged>>

\* deleteAllSessions is one deleteMany.
DeleteAllSessions(r) ==
    /\ request[r].pc = "deleteAll"
    /\ sessions' = sessions \ SessionsOf(owner[request[r].session])
    /\ Succeed(r)
    /\ UNCHANGED <<accounts, owner, expiresAt, accessUntil, now>>

\* deleteUser, of the caller or, for an administrator, of anyone.  Its first
\* call: user.delete takes the sessions with it.
DeleteUser(r) ==
    LET u == request[r].target
    IN  /\ request[r].pc = "deleteUser"
        /\ u \in accounts \ Pinned
        /\ accounts' = accounts \ {u}
        /\ sessions' = sessions \ SessionsOf(u)
        /\ GoTo(r, "sweep")
        /\ UNCHANGED <<owner, expiresAt, accessUntil, now, history>>

\* P2025 when the user is gone, P2003 when a row without cascade refers to it.
DeleteUserRefused(r) ==
    /\ request[r].pc = "deleteUser"
    /\ request[r].target \notin accounts \ Pinned
    /\ Finish(r)
    /\ UNCHANGED <<table, accessUntil, now, history>>

\* Its second call, deleteAllSessions; a 200 says that no session is left.
SweepSessions(r) ==
    LET u == request[r].target
    IN  /\ request[r].pc = "sweep"
        /\ sessions' = sessions \ SessionsOf(u)
        /\ Finish(r)
        /\ acknowledged' = acknowledged \cup {s \in SessionIds : owner[s] = u}
        /\ UNCHANGED <<accounts, owner, expiresAt, accessUntil, now, logoutFailed>>

\* The database rejects a call: 500, except in the middleware.
Fault(r) ==
    /\ request[r].pc \notin {"idle", "lookup", "sign"}
    /\ Finish(r)
    /\ UNCHANGED <<table, accessUntil, now, history>>

Tick ==
    /\ now < MaxTime
    /\ now' = now + 1
    /\ UNCHANGED <<table, accessUntil, request, history>>

Step(r) ==
    \/ UpdateLastActive(r)
    \/ RefreshTooLate(r)
    \/ SignAccessToken(r)
    \/ LookupSession(r)
    \/ LookupRefuses(r)
    \/ LookupFails(r)
    \/ Serve(r)
    \/ FindTarget(r)
    \/ DeleteTarget(r)
    \/ DeleteTooLate(r)
    \/ DeleteAllSessions(r)
    \/ DeleteUser(r)
    \/ DeleteUserRefused(r)
    \/ SweepSessions(r)
    \/ Fault(r)

Next ==
    \/ \E u \in Users, s \in SessionIds, life \in {ShortLife, LongLife} :
          GenerateTokens(u, s, life)
    \/ \E r \in Requests, s \in SessionIds :
          \/ InvalidRefreshToken(r, s)
          \/ GetSessionByToken(r, s)
          \/ TokenExpired(r, s)
          \/ \E target \in Opened : VerifyToken(r, s, "find", target)
          \/ \E target \in Users : VerifyToken(r, s, "deleteUser", target)
          \/ \E handler \in {"serve", "deleteAll"} : VerifyToken(r, s, handler, None)
    \/ \E r \in Requests : Step(r)
    \/ Tick

Spec == Init /\ [][Next]_vars

----------------------------------------------------------------------------
(* Properties.                                                             *)

\* Every variable has the type of what it models.
TypeOK ==
    /\ accounts \subseteq Users
    /\ sessions \subseteq Opened
    /\ owner \in [SessionIds -> Users \cup {None}]
    /\ expiresAt \in [SessionIds -> Nat]
    /\ accessUntil \in [SessionIds -> Nat]
    /\ now \in 0 .. MaxTime
    /\ request \in [Requests -> Request]
    /\ \A r \in Requests :
          /\ request[r].pc # "idle" => request[r].session \in Opened
          /\ request[r].pc = "lookup" => request[r].handler \in Handlers
    /\ acknowledged \subseteq SessionIds
    /\ logoutFailed \in BOOLEAN

\* A session whose end was acknowledged, by a logout, a deletion of one or
\* all sessions, or the deletion of the user, has no row, then and later:
\* not even a refresh that had found the row before brings it back.
RevocationHolds == acknowledged \cap sessions = {}

\* A request that came when its session had been acknowledged as over, or
\* had expired, is not let in by a lookup that worked, although the lookup
\* comes later than the request.
DeadNeverAdmitted ==
    \A r \in Requests :
        request[r].pc \in Admitted /\ request[r].checked => ~request[r].dead

\* README.md: "The auth middleware verifies that the JWT's session still
\* exists and has not been revoked."  No request is let in on a session that
\* was over when it came, whether or not the lookup worked.
SessionVerified ==
    \A r \in Requests : request[r].pc \in Admitted => ~request[r].dead

\* TESTING.md: "Multiple logout calls | No errors (idempotent)".  With a
\* database that works no deletion of a session is answered with an error.
LogoutIdempotent == ~logoutFailed

\* The rows and requests behave as SessionRegistry promises, when the lookups
\* work: a client is let in only on a session that is open at that instant.
Registry == INSTANCE SessionRegistry WITH
    Clients <- Requests,
    status <- [s \in SessionIds |->
                  IF s \in sessions THEN "open"
                  ELSE IF owner[s] = None THEN "free" ELSE "closed"],
    inside <- [r \in Requests |->
                  IF request[r].pc = "sign" \/ request[r].checked
                  THEN request[r].session ELSE None]

KeepsRegistry == Registry!Spec

=============================================================================
