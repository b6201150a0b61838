------------------------------- MODULE Login -------------------------------
(***************************************************************************)
(* Password login with account lockout: login() of                         *)
(* services/auth/authService.ts and the generateTokens() it ends with.     *)
(*                                                                         *)
(* The handler is asynchronous: between two awaits any other request may   *)
(* run.  Each await is therefore a step of its own, and what the handler   *)
(* keeps in local variables across an await (the user row it has read) is  *)
(* part of the request's state.  withTransaction() hands the callback a    *)
(* transaction client, but every repository call in it goes through the    *)
(* base client, so the writes commit one by one and nothing is rolled      *)
(* back; only the known-device query and the final commit use the          *)
(* transaction.                                                            *)
(***************************************************************************)
EXTENDS Naturals, FiniteSets, Combinatorics

CONSTANTS
    Users,            \* user ids; an e-mail address names one of them
    Requests,         \* login requests that can be in flight at once
    Passwords,        \* passwords, and their hashes
    Agents,           \* User-Agent headers a client may send
    None,             \* a missing value: undefined or null
    MaxAttempts,      \* MAX_ATTEMPTS
    LockoutDuration,  \* LOCKOUT_DURATION_MINUTES
    MaxTime,          \* bound: the clock stops here
    MaxGuesses,       \* bound: wrong passwords tried against one account
    MaxChanges        \* bound: changes other handlers make

ASSUME LoginAssumption ==
    /\ MaxAttempts \in Nat \ {0}
    /\ LockoutDuration \in Nat \ {0}
    /\ MaxTime \in Nat
    /\ MaxGuesses \in Nat
    /\ MaxChanges \in Nat
    /\ IsFiniteSet(Requests)
    /\ None \notin Users \cup Passwords \cup Agents
    /\ None \notin {"Tokens", "MfaToken"}

VARIABLES
    \* the User table: the rows that exist and the columns login uses
    accounts, password, failedLoginAttempts, lockoutUntil,
    mfaSecret,    \* the MfaSecret row of a user: absent, disabled or enabled
    challenged,   \* the (user, agent) pairs a login was answered an mfaToken for
    verified,     \* and those that verifyMfaLogin has accepted a code from
    sessions,     \* the (user, agent) pairs some Session row has
    now,          \* the clock
    request,      \* the requests in flight
    changes,      \* bound: changes other handlers have made so far
    \* history, read by the properties only
    wrong,        \* wrong passwords ever found by bcrypt.compare
    streak,       \* failures written since the counter was last reset
    alone,        \* no two requests for the account overlapped since then
    announced     \* devices the owner was told about

row == <<accounts, password, failedLoginAttempts, lockoutUntil>>
mfa == <<mfaSecret, challenged, verified>>
history == <<wrong, streak, alone, announced>>
vars == <<row, mfa, sessions, now, request, changes, history>>

----------------------------------------------------------------------------
(* The state of a request.                                                 *)

Labels == {"idle", "compare", "penalise", "reset", "known", "mail", "mfa",
           "create", "commit"}

\* What the callback hands to the commit; an exception ends it at once.
Results == {None, "Tokens", "MfaToken"}

\* The user row as findByEmail returned it.
Snapshot == [password: Passwords \cup {None},
             failedLoginAttempts: Nat, lockoutUntil: Nat]

\* sawPassword and sawNoMfa are history: the password given was the account's,
\* and MFA was off, at some instant since the row was read.
Request == [pc: Labels, user: Users \cup {None},
            password: Passwords \cup {None}, agent: Agents \cup {None},
            read: Snapshot, result: Results,
            sawPassword: BOOLEAN, sawNoMfa: BOOLEAN]

Idle ==
    [pc |-> "idle", user |-> None, password |-> None, agent |-> None,
     read |-> [password |-> None, failedLoginAttempts |-> 0,
               lockoutUntil |-> 0],
     result |-> None, sawPassword |-> FALSE, sawNoMfa |-> FALSE]

InFlight(u) == {r \in Requests : request[r].user = u}

\* lockoutUntil = 0 is the column's null: a deadline is never 0.
Locked(u) == u \in accounts /\ lockoutUntil[u] > now

Finish(r) == request' = [request EXCEPT ![r] = Idle]
GoTo(r, label) == request' = [request EXCEPT ![r].pc = label]

----------------------------------------------------------------------------
(* Accounts as registration leaves them: counter 0, no MFA, and the        *)
(* session of the device that registered, which may not name itself.       *)

Init ==
    /\ accounts = Users
    /\ password \in [Users -> Passwords]
    /\ failedLoginAttempts = [u \in Users |-> 0]
    /\ lockoutUntil = [u \in Users |-> 0]
    /\ mfaSecret = [u \in Users |-> "absent"]
    /\ challenged = {}
    /\ verified = {}
    /\ \E a \in Agents \cup {None} : sessions = {[user |-> u, agent |-> a] : u \in Users}
    /\ now = 0
    /\ request = [r \in Requests |-> Idle]
    /\ changes = 0
    /\ wrong = [u \in Users |-> 0]
    /\ streak = [u \in Users |-> 0]
    /\ alone = [u \in Users |-> TRUE]
    /\ announced = sessions

----------------------------------------------------------------------------
(* The handler.                                                            *)

\* findByEmail finds no row: InvalidCredentials, and nothing is written.
UserNotFound(r, u) ==
    /\ request[r].pc = "idle"
    /\ u \notin accounts
    /\ UNCHANGED vars

\* findByEmail reads the row; everything decided later is decided from it.
FindByEmail(r, u, p, a) ==
    /\ request[r].pc = "idle"
    /\ u \in accounts
    /\ p # password[u] => wrong[u] + Cardinality(InFlight(u)) < MaxGuesses
    /\ request' = [request EXCEPT ![r] =
          [pc |-> "compare", user |-> u, password |-> p, agent |-> a,
           read |-> [password |-> password[u],
                     failedLoginAttempts |-> failedLoginAttempts[u],
                     lockoutUntil |-> lockoutUntil[u]],
           result |-> None,
           sawPassword |-> p = password[u],
           sawNoMfa |-> mfaSecret[u] # "enabled"]]
    /\ alone' = [alone EXCEPT ![u] = @ /\ InFlight(u) = {}]
    /\ UNCHANGED <<row, mfa, sessions, now, changes, wrong, streak, announced>>

\* Mutant: a rejected attempt on a locked account counts as a failure.
RejectLockedCounts(r) ==
    /\ request[r].pc = "compare"
    /\ request[r].read.lockoutUntil > now
    /\ GoTo(r, "penalise")
    /\ UNCHANGED <<row, mfa, sessions, now, changes, history>>

\* The row it read was locked, and still is by the clock.
RejectLocked(r) ==
    /\ request[r].pc = "compare"
    /\ request[r].read.lockoutUntil > now
    /\ Finish(r)
    /\ UNCHANGED <<row, mfa, sessions, now, changes, history>>

\* bcrypt.compare against the hash it read.
WrongPassword(r) ==
    /\ request[r].pc = "compare"
    /\ request[r].read.lockoutUntil <= now
    /\ request[r].password # request[r].read.password
    /\ GoTo(r, "penalise")
    /\ wrong' = [wrong EXCEPT ![request[r].user] = @ + 1]
    /\ UNCHANGED <<row, mfa, sessions, now, changes, streak, alone,
                   announced>>

RightPassword(r) ==
    /\ request[r].pc = "compare"
    /\ request[r].read.lockoutUntil <= now
    /\ request[r].password = request[r].read.password
    /\ GoTo(r, "reset")
    /\ UNCHANGED <<row, mfa, sessions, now, changes, history>>

\* updateFailedAttempts overwrites both columns of the request's row.
WriteFailure(r, attempts, lock) ==
    LET u == request[r].user
    IN  /\ request[r].pc = "penalise"
        /\ u \in accounts
        /\ failedLoginAttempts' = [failedLoginAttempts EXCEPT ![u] = attempts]
        /\ lockoutUntil' = [lockoutUntil EXCEPT ![u] =
              IF lock THEN now + LockoutDuration ELSE 0]
        /\ Finish(r)
        /\ streak' = [streak EXCEPT ![u] = @ + 1]
        /\ UNCHANGED <<accounts, password, mfa, sessions, now, changes,
                       wrong, alone, announced>>

\* Mutant: one failure too many before the lock.
UpdateFailedAttemptsLate(r) ==
    LET attempts == request[r].read.failedLoginAttempts + 1
    IN  WriteFailure(r, attempts, attempts > MaxAttempts)

\* Mutant: the count starts over once a lock has run out.
UpdateFailedAttemptsAfresh(r) ==
    LET attempts == IF request[r].read.lockoutUntil > 0 THEN 1
                    ELSE request[r].read.failedLoginAttempts + 1
    IN  WriteFailure(r, attempts, attempts >= MaxAttempts)

\* The wrong password is answered InvalidCredentials after the counter and
\* the deadline are written, both computed from the row that was read.
UpdateFailedAttempts(r) ==
    LET attempts == request[r].read.failedLoginAttempts + 1
    IN  WriteFailure(r, attempts, attempts >= MaxAttempts)

\* resetFailedAttempts overwrites both columns.
WriteReset(r, attempts, deadline) ==
    LET u == request[r].user
    IN  /\ request[r].pc = "reset"
        /\ u \in accounts
        /\ failedLoginAttempts' = [failedLoginAttempts EXCEPT ![u] = attempts]
        /\ lockoutUntil' = [lockoutUntil EXCEPT ![u] = deadline]
        /\ GoTo(r, "known")
        /\ streak' = [streak EXCEPT ![u] = 0]
        /\ alone' = [alone EXCEPT ![u] = InFlight(u) = {r}]
        /\ UNCHANGED <<accounts, password, mfa, sessions, now, changes,
                       wrong, announced>>

\* Mutant: the deadline is left behind.
ResetAttemptsOnly(r) == WriteReset(r, 0, lockoutUntil[request[r].user])

\* Mutant: a success takes back one failure instead of all.
ResetOneAttempt(r) == WriteReset(r, request[r].read.failedLoginAttempts - 1, 0)

ResetFailedAttempts(r) == WriteReset(r, 0, 0)

\* Mutant: any session of the user makes the device known.
KnownUser(u, a) == \E s \in sessions : s.user = u

\* tx.session.findFirst: a missing User-Agent is an undefined filter, which
\* Prisma drops, so any session of the user matches.
KnownDevice(u, a) == \E s \in sessions : s.user = u /\ (a = None \/ s.agent = a)

FindKnownSession(r) ==
    /\ request[r].pc = "known"
    /\ GoTo(r, IF KnownDevice(request[r].user, request[r].agent)
               THEN "mfa" ELSE "mail")
    /\ UNCHANGED <<row, mfa, sessions, now, changes, history>>

\* The alert is awaited and not caught.
SendAlert(r) ==
    /\ request[r].pc = "mail"
    /\ GoTo(r, "mfa")
    /\ announced' = announced
          \cup {[user |-> request[r].user, agent |-> request[r].agent]}
    /\ UNCHANGED <<row, mfa, sessions, now, changes, wrong, streak, alone>>

\* getSecretByUserId: with an enabled secret the answer is a challenge.
ChallengeMfa(r) ==
    /\ request[r].pc = "mfa"
    /\ mfaSecret[request[r].user] = "enabled"
    /\ request' = [request EXCEPT ![r].pc = "commit", ![r].result = "MfaToken"]
    /\ UNCHANGED <<row, mfa, sessions, now, changes, history>>

\* Mutant: the secret is read, and not looked at.
IgnoreMfa(r) ==
    /\ request[r].pc = "mfa"
    /\ GoTo(r, "create")
    /\ UNCHANGED <<row, mfa, sessions, now, changes, history>>

NoMfa(r) ==
    /\ request[r].pc = "mfa"
    /\ mfaSecret[request[r].user] # "enabled"
    /\ GoTo(r, "create")
    /\ UNCHANGED <<row, mfa, sessions, now, changes, history>>

\* generateTokens: the session row is committed on its own.
CreateSession(r) ==
    /\ request[r].pc = "create"
    /\ request[r].user \in accounts
    /\ sessions' = sessions
          \cup {[user |-> request[r].user, agent |-> request[r].agent]}
    /\ request' = [request EXCEPT ![r].pc = "commit", ![r].result = "Tokens"]
    /\ UNCHANGED <<row, mfa, now, changes, history>>

\* $transaction commits, and the handler answers what the callback returned.
Commit(r) ==
    /\ request[r].pc = "commit"
    /\ Finish(r)
    /\ challenged' = challenged \cup
          {d \in {[user |-> request[r].user, agent |-> request[r].agent]} :
              request[r].result = "MfaToken"}
    /\ UNCHANGED <<row, mfaSecret, verified, sessions, now, changes, history>>

\* An update or insert for a user that was deleted meanwhile: P2025, P2003.
RowGone(r) ==
    /\ request[r].pc \in {"penalise", "reset", "create"}
    /\ request[r].user \notin accounts
    /\ Finish(r)
    /\ UNCHANGED <<row, mfa, sessions, now, changes, history>>

\* An awaited call rejects: the database, the mail server, or the
\* transaction, which Prisma closes after its timeout.  What the handler
\* wrote before stays written.
Fault(r) ==
    /\ request[r].pc # "idle"
    /\ Finish(r)
    /\ UNCHANGED <<row, mfa, sessions, now, changes, history>>

Step(r) ==
    \/ RejectLocked(r)
    \/ WrongPassword(r)
    \/ RightPassword(r)
    \/ UpdateFailedAttempts(r)
    \/ ResetFailedAttempts(r)
    \/ FindKnownSession(r)
    \/ SendAlert(r)
    \/ ChallengeMfa(r)
    \/ NoMfa(r)
    \/ CreateSession(r)
    \/ Commit(r)
    \/ RowGone(r)

----------------------------------------------------------------------------
(* verifyMfaLogin, the second half of a login with MFA.  An mfaToken names *)
(* the user, not the device it was answered to, and any number of requests *)
(* may use it.  That it expires after five minutes is left out, and the    *)
(* count of wrong codes is in the module Totp.                             *)

\* verifyCode reads an enabled secret and accepts the code.
VerifyMfaCode(u, a) ==
    /\ \E d \in challenged : d.user = u
    /\ mfaSecret[u] = "enabled"
    /\ verified' = verified \cup {[user |-> u, agent |-> a]}
    /\ UNCHANGED <<row, mfaSecret, challenged, sessions, now, request, changes,
                   history>>

\* generateTokens, for the User-Agent of this request: no look at the known
\* devices, and no alert.
CreateMfaSession(d) ==
    /\ d \in verified
    /\ d.user \in accounts
    /\ sessions' = sessions \cup {d}
    /\ UNCHANGED <<row, mfa, now, request, changes, history>>

----------------------------------------------------------------------------
(* What other handlers do meanwhile to the rows this one reads.            *)

\* update(userId, {password}): a password reset or a profile change.
UpdatePassword(u, p) ==
    /\ u \in accounts
    /\ password' = [password EXCEPT ![u] = p]
    /\ request' = [r \in Requests |->
          IF r \in InFlight(u) /\ request[r].password = p
          THEN [request[r] EXCEPT !.sawPassword = TRUE] ELSE request[r]]
    /\ UNCHANGED <<accounts, failedLoginAttempts, lockoutUntil, mfa,
                   sessions, now, history>>

\* The MfaSecret row becomes s: createOrUpdateSecret (upsert, disabled),
\* enableMfa and disableMfa (update: the row must exist).
WriteMfa(u, s) ==
    /\ mfaSecret' = [mfaSecret EXCEPT ![u] = s]
    /\ request' = [r \in Requests |->
          IF r \in InFlight(u) /\ s # "enabled"
          THEN [request[r] EXCEPT !.sawNoMfa = TRUE] ELSE request[r]]
    /\ UNCHANGED <<row, challenged, verified, sessions, now, history>>

CreateOrUpdateSecret(u) == u \in accounts /\ WriteMfa(u, "disabled")
EnableMfa(u) == mfaSecret[u] # "absent" /\ WriteMfa(u, "enabled")
DisableMfa(u) == mfaSecret[u] # "absent" /\ WriteMfa(u, "disabled")

\* delete(userId): sessions cascade, an MfaSecret row forbids it.
DeleteUser(u) ==
    /\ u \in accounts
    /\ mfaSecret[u] = "absent"
    /\ accounts' = accounts \ {u}
    /\ sessions' = {s \in sessions : s.user # u}
    /\ UNCHANGED <<password, failedLoginAttempts, lockoutUntil, mfa, now,
                   request, history>>

\* The last session row of a device goes: a logout.
ForgetDevice(s) ==
    /\ s \in sessions
    /\ sessions' = sessions \ {s}
    /\ UNCHANGED <<row, mfa, now, request, history>>

Tick ==
    /\ now < MaxTime
    /\ now' = now + 1
    /\ UNCHANGED <<row, mfa, sessions, request, changes, history>>

Others ==
    /\ changes < MaxChanges
    /\ changes' = changes + 1
    /\ \/ \E u \in Users :
            \/ \E p \in Passwords : UpdatePassword(u, p)
            \/ CreateOrUpdateSecret(u)
            \/ EnableMfa(u)
            \/ DisableMfa(u)
            \/ DeleteUser(u)
       \/ \E s \in sessions : ForgetDevice(s)

Next ==
    \/ \E r \in Requests, u \in Users :
          \/ UserNotFound(r, u)
          \/ \E p \in Passwords, a \in Agents \cup {None} : FindByEmail(r, u, p, a)
    \/ \E r \in Requests : Step(r) \/ Fault(r)
    \/ \E u \in Users, a \in Agents \cup {None} : VerifyMfaCode(u, a)
    \/ \E d \in verified : CreateMfaSession(d)
    \/ Others
    \/ Tick

Spec == Init /\ [][Next]_vars

----------------------------------------------------------------------------
(* Properties.                                                             *)

\* Every variable has the type of the column or local variable it models.
TypeOK ==
    /\ accounts \subseteq Users
    /\ password \in [Users -> Passwords]
    /\ failedLoginAttempts \in [Users -> Nat]
    /\ lockoutUntil \in [Users -> Nat]
    /\ mfaSecret \in [Users -> {"absent", "disabled", "enabled"}]
    /\ challenged \subseteq [user: Users, agent: Agents \cup {None}]
    /\ verified \subseteq [user: Users, agent: Agents \cup {None}]
    /\ sessions \subseteq [user: Users, agent: Agents \cup {None}]
    /\ now \in 0 .. MaxTime
    /\ request \in [Requests -> Request]
    /\ \A r \in Requests : request[r].pc # "idle" => request[r].user \in Users
    /\ wrong \in [Users -> Nat]
    /\ streak \in [Users -> Nat]
    /\ alone \in [Users -> BOOLEAN]
    /\ changes \in 0 .. MaxChanges
    /\ announced \subseteq [user: Users, agent: Agents \cup {None}]

\* The two lockout columns never disagree, whatever stale rows the writers
\* computed them from: a deadline is set exactly when the counter stands at
\* MaxAttempts or more.
ColumnsAgree ==
    \A u \in Users : lockoutUntil[u] > 0 <=> failedLoginAttempts[u] >= MaxAttempts

\* However requests interleave, an account can only be locked after
\* MaxAttempts wrong passwords were really tried against it: the counter
\* never runs ahead of the failures.
CounterIsEarned ==
    \A u \in Users : failedLoginAttempts[u] <= wrong[u]

\* When login requests for an account do not overlap, the counter is exact,
\* whatever faults, deletions and password changes happen in between.
ExactWhenAlone ==
    \A u \in Users : alone[u] => failedLoginAttempts[u] = streak[u]

\* Overlapping requests lose increments and undo locks, but not for ever:
\* with k requests in flight at once, at most (MaxAttempts+k choose k) - 1
\* failures are ever written in a row before no request can undo the lock,
\* as long as no lock has run out.
GuessesBounded ==
    LET k == Cardinality(Requests)
    IN  \A u \in Users :
            now < LockoutDuration => streak[u] < choose(MaxAttempts + k, k)

\* Tokens go only to a request whose password was the account's at some
\* instant of the request, and during which MFA was off at some instant,
\* even though both are read before the session is written.
TokensJustified ==
    \A r \in Requests :
        /\ request[r].result = "Tokens"
              => request[r].sawPassword /\ request[r].sawNoMfa
        /\ request[r].result = "MfaToken" => request[r].sawPassword

\* The devices the owner was told about, or that gave a second factor.
Introduced == announced \cup verified

\* A device that identifies itself has a session, or was challenged for the
\* second factor, only if the owner was told about it once or registered with
\* it, or gave a second factor there: also when its sessions come and go.
DeviceAnnounced ==
    \A d \in sessions \cup challenged :
        d.agent # None => d \in Introduced

\* TESTING.md: "Login | New device/IP | Security email sent".  Whatever way a
\* login takes, a device that identifies itself has no session before the
\* owner was told about it.
NewDeviceMailed ==
    \A s \in sessions : s.agent # None => s \in announced

\* TESTING.md: "Too many failed attempts | Account locked | After 5 attempts".
\* Once MaxAttempts failures were answered and nothing is in flight, the
\* account is locked.
LockedAfterMaxAttempts ==
    \A u \in accounts :
        /\ InFlight(u) = {}
        /\ now < LockoutDuration
        /\ streak[u] >= MaxAttempts
        => Locked(u)

=============================================================================
