# A formal model of the identity and access management API

TLA+ modules for the server in `src/apps/api`, TLC configurations that check
them on small instances, and proofs that TLAPS checks. Paths below are relative
to `src/apps/api` unless they start with `src/`.

## 1. The system

An Express server (Node processes with one event loop each; `src/k8s` runs three
replicas) over PostgreSQL (Prisma) and Redis. A request passes CORS, a rate limiter, validation, CAPTCHA,
`authMiddleware` and a handler; a handler calls services, services call
repositories, and an exception ends in `errorHandler`. Every `await` lets other
requests run, so a handler is a sequence of atomic steps, one per call that
leaves the process.

| component | state | operations | interacts with |
|---|---|---|---|
| password login and lockout (`services/auth/authService.ts` `login`, `repositories/auth/userRepository.ts`) | `User.passwordHash`, `failedLoginAttempts`, `lockoutUntil` | `findByEmail`, `updateFailedAttempts`, `resetFailedAttempts`, device alert, MFA branch, `generateTokens` | session rows (known devices), `MfaSecret`, mail |
| sessions and access tokens (`services/session`, `repositories/session`, `utils/generateTokens.ts`, `middleware/authMiddleware.ts`, `refreshToken`, `logout`) | `Session` rows, signed JWTs held by clients | open, refresh, look up, delete one or all, list | users (foreign key, cascade), every authenticated route |
| registration, e-mail verification, password reset, profile (`register`, `verifyEmail`, `resendVerificationEmail`, `services/profile`) | `User` rows, `emailVerify:` and `passwordReset:` tokens in Redis | create, verify, reset, change e-mail or password, delete | mail, Redis expiry, sessions |
| TOTP (`services/mfa/totpService.ts`) | `MfaSecret`, attempt counter in Redis | generate, confirm, verify, disable | login's MFA branch, `verifyMfaLogin` |
| one-time codes (`services/mfa/otpService.ts`) | `otp:` keys in Redis | send, verify | mail, SMS |
| roles and permissions (`services/rbac`, `repositories/rbac`, `middleware/requireRole.ts`) | `Role`, `Permission`, `UserRole`, `RolePermission` | create, delete, assign, remove, grant, revoke, check | users (foreign key), admin routes |
| listings and admin (`repositories/base/BaseRepository.ts`, `services/admin`) | none of its own | `findMany` with page arithmetic, count | concurrent writers |
| connections and transactions (`BaseRepository.withTransaction`) | the Prisma pool | `$transaction` around login and register | every database call; Redis commands inside a transaction |
| rate limiters (`utils/rateLimiting.ts`) | counters per address, in memory | count, refuse, open a new window | routes that share a limiter |
| pipeline (`middleware/validation.ts`, `captcha.ts`, `errorHandler.ts`, `controllers/base`) | `req.body/query/params` | parse, refuse, map errors to answers | every route |
| container (`core/container.ts`, `core/serviceFactory.ts`) | factories and instances | bind, get, isBound | repositories, at start-up |
| health (`controllers/health`) | none | `/health`, `/ready`: ask the database, then Redis | both backends, the container |

### What is hard about it, and what makes each part correct

* *Check, await, act.* `login` reads the user row, awaits `bcrypt.compare`, and
  writes columns computed from the row it read; `withTransaction` does not
  help, because the repositories use the base client. Correct: no account locks
  before it has earned it, the two lockout columns agree, the number of
  wrong passwords that overlapping requests add is bounded, tokens are
  handed out only for a password that was the user's, and a device is known only if
  the user was told of it or used a second factor there.
* *Revocation against requests in flight.* A session may end, by logout,
  deletion or time, between a lookup and what follows it. Correct: what was
  acknowledged as over stays over, and a request that came later stays out.
* *Single use.* Reset tokens, verification tokens and one-time codes are read,
  used and deleted in separate calls. Correct: a use beyond the first is that of
  a request that overlapped, and a token that is over stays over.
* *Unique addresses.* `register` and `updateProfile` look an address up, hash a
  password, and write. Correct: no two accounts have one address.
* *Several calls without a transaction.* `deleteUser`, `deleteRole` and
  `register` make several writes; any of them may fail.
* *Foreign keys.* `Session` cascades from `User`; `UserRole`, `RolePermission`
  and `MfaSecret` restrict, so a deletion may be refused. Correct: no link
  refers to a row that is gone, and what a deletion took away stays away,
  although ids found before it are used after it.
* *Connections.* A transaction keeps a connection while its callback waits for
  another one of the same pool, or for Redis. Correct: everybody is served in the
  end, but who waits for a Redis that is away.
* *A second factor in several calls.* `verifyCode` reads the secret, the attempt
  counter and writes the counter back; a secret may be drawn again, confirmed or
  disabled, and a one-time code replaced, in between. Correct: an accepted code
  was good at some instant of the request, failures are limited, a lock ends, and
  a code that was answered yes is over.
* *A list read in pieces.* A page and its total are two queries, a walk many
  requests, and rows come, go and move. Correct: exact when nothing is written, and
  only certain writes make a walk miss a row or show one twice.
* *Gates in front of handlers.* Limiters count in the memory of one process, a
  failing session lookup is swallowed, backends go and come. Correct: the number
  of guesses is bounded, no handler for administrators runs for anybody else, and
  every request is answered, but one that waits for Redis.
* *Time.* Locks, sessions, access tokens and Redis keys run out by themselves,
  also between two steps of a handler.

There are no retries or message channels, and the only queue is the one for a
database connection. What is modelled is kept in the database, in Redis or by the
clients, except the connection pool and the limiters' counters: a crash of the process
is a `Fault` of every request in flight, and `Pipeline`, which has the counters, has
it as `Restart`.
`PROJECT.json` lists each hazard at its line.

## 2. The modules

| module | what it is |
|---|---|
| `Login` | `login()`, call by call, the end of `verifyMfaLogin()`, and the other writers of the rows they read |
| `Login_proofs` | invariants of `Login`, proved |
| `Sessions` | the life of a session: `generateTokens`, `refreshToken`, `authMiddleware`, `logout`, the session endpoints, `deleteUser` |
| `SessionRegistry` | what the session layer promises, without requests, tokens or clocks |
| `Sessions_proofs` | the invariants of `Sessions`, and that it implements `SessionRegistry`, proved |
| `Rbac` | `requireRole` and the endpoints that write the four role and permission tables or delete users, query by query |
| `Rbac_proofs` | the invariants of `Rbac`, proved |
| `Accounts` | the endpoints that write `User` rows or mail a token, and the Redis tokens they draw, use and delete |
| `ConnectionPool` | the connections of one process under `withTransaction` and under plain handlers |
| `ConnectionPool_proofs` | its invariant, proved |
| `Totp` | the TOTP row, the attempt counter, the challenge that `login` answers and `verifyMfaLogin`, call by call |
| `Otp` | one-time codes by mail and SMS, call by call |
| `SingleUseCode` | what one-time codes promise, without keys or handlers |
| `SecondFactor` | `Totp` and `Otp` side by side |
| `SecondFactor_proofs` | their invariants, and that `Otp` implements `SingleUseCode`, proved |
| `Listing` | `GET /admin/users` page by page, against writers of the rows |
| `UserRows` | `Accounts` and `Listing` side by side |
| `UserRows_proofs` | the invariants of both, proved |
| `Pipeline` | the routes, and what a request passes on them: limiters, validation, CAPTCHA, session, role, handler; the container; `/ready` |
| `Pipeline_proofs` | the invariants of `Pipeline`, proved |
| `Counting` | lemmas without a state: how many failures a counter that is read and set back can miss |
| `MCLogin`, `MCSessions`, `MCRbac`, `MCAccounts`, `MCConnectionPool`, `MCSecondFactor`, `MCPipeline` | the instances for TLC: symmetry sets, bounds |

The modules share no state. `SecondFactor` and `UserRows` check two of them in
one run; in each behaviour one moves while the other rests as it began, which loses
nothing because neither reads what the other writes. Where a module needs what another
does, it has the single write: `Login` has the writes of TOTP and profile to the rows it reads,
`Sessions` the deletion of a user, which a role of the user refuses (`Pinned`), and
`Listing` the insertion, deletion and change of a row.

A constant stands for a set of names (users, passwords, requests) or for a
number the code fixes (`MaxAttempts`, lifetimes). `Requests` is the number of
requests that can be in flight at once; a request is a record with its program
counter `pc` and what the handler holds in local variables. Each action is what
the code does between two awaits. `Fault(r)` is a database, mail or Redis call
that rejects: the handler throws and the request ends, while what it wrote
before stays written. Variables under *history* are written by the actions and
read by properties only.

### Login

State: the user's row as one function per column, `mfaSecret` (the row of
`MfaSecret`: absent, disabled or enabled), `sessions` as (user, agent) pairs,
and `request`, whose `read` field is the copy of the row that `findByEmail`
returned. That copy is never refreshed, as in the code. `challenged` has the devices
that were answered an `mfaToken`, and `verified` those that brought one with a code
that was accepted: the token names the user only, so any device may.

| actions | code (`services/auth/authService.ts`) |
|---|---|
| `UserNotFound`, `FindByEmail` | 141-146 |
| `RejectLocked` | 148-150 |
| `WrongPassword`, `UpdateFailedAttempts` | 152-170: the counter and the deadline come from `read` |
| `RightPassword`, `ResetFailedAttempts` | 152, 172 |
| `FindKnownSession`, `SendAlert` | 174-203 |
| `ChallengeMfa`, `NoMfa` | 205-225: `read.mfaSecret` decides |
| `CreateSession`, `Commit` | 227 and the end of `withTransaction` |
| `RowGone`, `Fault` | a write that finds no row (P2025); a call that rejects |
| `VerifyMfaCode`, `CreateMfaSession` | 282-314: `verifyMfaLogin`, which opens the session without a look at the known devices |
| `UpdatePassword`, `CreateOrUpdateSecret`, `EnableMfa`, `DisableMfa`, `DeleteUser`, `ForgetDevice` | other handlers, as the single write they make to these rows |

Abstractions: a lock deadline is a clock value and 0 stands for null; mail is
configured, so the alert is attempted; all requests come from one address, so a
device is its user agent; an `mfaToken` does not expire and any number of requests
use it (how the code is checked, and what limits the wrong ones, is `Totp`);
`Others` is bounded by `MaxChanges`, wrong guesses by `MaxGuesses`, the clock by `MaxTime`.

### Sessions

State: `accounts`, the session rows (`sessions`, `owner`, `expiresAt`; `owner`
keeps its value after the row is gone, because an id is drawn once),
`accessUntil`, and the requests in flight. A refresh token belongs to exactly
one session, so the session's id stands for it. Of the access tokens of a
session only the newest is kept: an older one can do nothing that it cannot.
`GetSessionByToken` covers the read and the comparison of dates, between which
there is no await.

A request moves through `authMiddleware` (`VerifyToken`, then `LookupSession`,
`LookupRefuses` or `LookupFails`), then through its handler: `Serve` (no session
changes), `FindTarget`/`DeleteTarget`/`DeleteTooLate` (`deleteSession`),
`DeleteAllSessions`, or `DeleteUser`/`DeleteUserRefused`/`SweepSessions`. A
refresh moves through `GetSessionByToken`, `UpdateLastActive` and
`SignAccessToken`. `Pinned` users have a row that restricts their deletion.
`LookupFails` is the `catch {}` of the middleware. The deletion of all users, which
would end every session at once, is left out: the role of its caller makes the
database refuse it, all users or none (`DeleteUsersRefused` of `Rbac`; `src/README.md`:163 has the
endpoint delete all of them).

`SessionRegistry` has a status for each id (free, open, closed) and, for each
client, the session it was let in on. The mapping: a session is open when its
row is there; a client is inside when a lookup that worked, or a refresh, has
admitted it. Admission by a lookup that failed is not an admission of the
registry: the run `sessions_lookup_fault` is about it.

### Rbac

State: the rows of `User`, `Role`, `Permission`, `UserRole` and
`RolePermission`, and the requests in flight. Ids are drawn once: `roleName` and
`permissionName` keep the name of an id whose row was deleted. A request enters
by `RequireRole` (the caller has the role at that moment) or by
`DeleteOwnAccount`, and then makes its queries one by one:

| actions | code |
|---|---|
| `FindRole`, `NoRole`, `CreateRole`, `Assign`, `AssignRefused` | `rbacRepository.ts` 76-88, 126-128 |
| `RemoveRole` | 90-99; a missing link (P2025) and a removed one leave the same rows |
| `FindRole`, `ClearAssignments`, `ClearGrants`, `DropRole`, `DropRoleRefused` | 112-124 |
| `FindPermission`, `NoPermission`, `CreatePermission`, `Grant`, `GrantRefused`, `Revoke` | `permissionsRepository.ts` 20-49, 85-87 |
| `FindPermission`, `NoPermission`, `CheckRoles`, `AnswerCheck` | 51-70: `hasPermission` |
| `DeletePermission`, `DeletePermissionRefused` | 89-91 |
| `DeleteUser`, `DeleteUserRefused`, `DeleteUsers`, `DeleteUsersRefused` | `profileService.ts` 53-57, `adminService.ts` 23-28 |
| `NameTaken`, the `...Refused` actions, `Fault` | P2002, P2003 and P2025, or a database that fails: `errorHandler.ts` |

`upsert` of a grant is one step. Prisma may turn it into a read and an insert;
the two differ only in the answer to a grant that loses a race with an equal
one. The listings write nothing and are left out.

### Accounts

State: the `User` rows (`accounts`, `email`, `verified`), the Redis keys
(`minted`: the kind, user and address a token was drawn for; `live`: the keys
that are there), `mailed` (tokens somebody received), and the requests in flight.
Ids and tokens are drawn once. Whoever received a token may present it to either
endpoint that takes one, as often as they like.

| actions | code |
|---|---|
| `EmailFree`, `EmailAlreadyInUse`, `CreateUser`, `EmailTaken`, `CreateSession`, `SetToken`, `SendEmail` | `authService.ts` 49-79: `register` |
| `GetToken`, `InvalidToken`, `FindVerifying`, `VerifyUser`, `DeleteToken` | 90-102: `verifyEmail` |
| `FindUnverified`, `SetToken`, `SendEmail` | 104-125: `resendVerificationEmail` |
| `FindProfile`, `EmailFree`, `EmailAlreadyInUse`, `UpdateProfile`, `EmailTaken` | `profileService.ts` 27-44: `updateProfile` |
| `DeleteUser` | 53-57 |
| `FindByEmail`, `SetToken`, `SendEmail` | 63-76: `requestPasswordReset` |
| `GetToken`, `InvalidToken`, `UpdatePassword`, `DeleteToken` | 78-87: `resetPassword` |
| `UserNotFound`, `RowGone`, `Fault` | a lookup that finds nothing; P2025 and P2003; a call that rejects |
| `Expire` | a key runs out (`setEx`) |

`register` answers 201 even when `setEx` or the mail fails; since the answer is not
part of the state, that is a `Fault` too. The transaction around it contains none of
its writes (see `ConnectionPool`), so a `Fault` takes nothing back. Passwords,
and updates of a password alone, are in `Login`, sessions in `Sessions`, and the
rows that restrict a deletion in `Rbac`. The history variables are the addresses
a user has had (`had`), how often a token changed a row (`uses`), the tokens
whose use was answered 200 (`spent`), and those whose `del` failed (`kept`).

### ConnectionPool

State: the queue for a connection, the open transactions, what each request
is doing, and whether Redis is up. `WithTransaction` is `login` or `register`: it
waits for the connection of its transaction (`BaseRepository.ts` 151). The
repositories that the callback calls were built on the plain client, so each call is
a query (`Ask`) that waits in the same queue; the exception is `login`'s
`tx.session.findFirst`, which uses the connection that the transaction has
(`AskTransaction`, `Answer`). `Handle` is any other handler. Between its queries any
handler may send a command to Redis (`Command`, `Reply`), as `register` does inside its
transaction (`authService.ts` 63): the client of `utils/redis.ts` has no timeout and
queues the command while Redis is away (`RedisGoesOrComes`), and the request stands
there with the connection of its transaction. A handler makes up to `MaxCalls` calls
of any kind in any order. The pool (first
come, first served) and its three timers are Prisma's, modelled from their
documented behaviour: `BeginTimeout` (`maxWait`), `TransactionTimeout`
(`timeout`: the transaction closes, the callback goes on) and `QueryTimeout`
(`pool_timeout`, longer than `timeout`).

### Totp

State: the `MfaSecret` row of one user (`secret`, `enabled`), the Redis counter
`mfa_attempts` with the time it has left, the time the newest challenge has left,
and the requests in flight. Everything hangs on one user's id, and users share
nothing here.

| actions | code (`services/mfa/totpService.ts`, `services/auth/authService.ts`) |
|---|---|
| `GenerateSecret`, `Disable`, `DisableNothing` | 14-22, 78-81: one write each |
| `ReadForConfirm`, `ConfirmRefused`, `EnableMfa` | 24-44: the check, then the write |
| `Challenge`, `ChallengeExpired` | the `mfaToken` of `login`, and `verifyMfaLogin` without a good one |
| `BeginLogin`, `BeginCheck`, `ReadSecret`, `NotEnabled`, `GetAttempts`, `TooManyAttempts`, `Accept`, `CountFailure`, `Answer` | 46-76, behind `verifyMfaLogin` or `/totp/verify` |
| `Fault`, `Tick` | a call that rejects; time: a key goes when its time is over |

A code is named by the secret it is valid for, because the arithmetic of TOTP is the
library's. A code is good for as long as its time step, which no property here
depends on, and the server does not remember codes it accepted: the same code may be
used again inside its window. `streak` counts failures since the key was last
absent; `confirmed`, `overtaken` and `sawCurrent` record what the properties ask.

### Otp and SingleUseCode

State: the Redis key of one user's code, the codes generated, and the requests:
`GenerateCode` (`setEx`), `Send`; `Begin`, `RightCode`/`WrongCode` (`get` and the
comparison), `DeleteCode` (`del` and the answer); `Expire`; `Fault`. A new code takes the
key of the old one, and `del` removes whatever code the key holds by then. A code that is
drawn is taken to be new: that the same six digits are drawn twice is left out.

`SingleUseCode` knows the good code, the codes answered yes, and what each request is let
through with. The mapping: the good code is the value of the key, and a request
is let through at its `get`. Its promise is the exact one: two requests may both be
let through on one code if they overlap, and a yes may take a newer code away.

### Pipeline

State: which services are registered, whether CAPTCHA is on, the backends that are
up, the open windows of the limiters (per replica), and the requests, each with its route
and the stage of the route's chain it stands at. `Chain` is the routers of
`app.ts`: the middleware of each route, in the order the code gives.

| actions | code |
|---|---|
| `Arrive` | `app.ts`, `routes/*` |
| `CountHit` | `utils/rateLimiting.ts`; the counting itself is express-rate-limit's |
| `Validate` | `middleware/validation.ts` |
| `CaptchaOff`, `CaptchaChecked`, `CaptchaUnreachable` | `middleware/captcha.ts` |
| `Unauthorized`, `LookupSession`, `LookupFails` | `middleware/authMiddleware.ts` |
| `CheckRole`, `RoleLookupFails` | `middleware/requireRole.ts` |
| `Handle` | `controllers/base/baseController.ts`, `middleware/errorHandler.ts` |
| `CheckDatabase`, `CheckRedis`, `AnswerReady` | `controllers/health/healthController.ts` |
| `GoDown`, `ComeUp`, `Tick`, `Restart` | the world around |

Facts of the code that the module keeps: `login` and `mfa-verify` share
`loginLimiter`, `register` and `resend` share `registerLimiter`; a limiter counts
per process, so an address has one budget on each replica; a request has passed
`loginLimiter` before its CAPTCHA is awaited, so it may reach its handler when
the window that counted it is over; `validate` stands behind the limiter on some routes
and before it on others. `server.ts` does not call `initializeServices`, only
`tests/helpers/testDB.ts` does, so `registered` may be false: then `container.get`
throws, `authMiddleware` lets any verified token through, `requireRole` stops every
administrator, and `/ready` answers 503.

`Scenarios` limits a behaviour to a few routes. That loses nothing but size: requests of
different routes meet in the limiters only. `MCScenarios` has the two routes that share
`loginLimiter` on one replica, `mfa-verify` on both, and one route of each other kind of chain.

### Listing

State: the key of every row (the column of the order), the walk or the page a client
asks for, and the two queries of the request in flight. `Ask` sends both queries
(`BaseRepository.ts` 88-91), `QueryPage` and `QueryCount` are the two instants at which
the database answers, `Answer` computes `totalPages` and `hasNext`. Rows that tie in
the order come in any order, differently in each query, as SQL allows. `Insert`,
`Delete` and `Update` are every other request. `mayMiss` and `mayRepeat` record the
writes that can spoil a walk.

The schema parses `page` with `parseInt` and the handler reads the raw query with
`Number`, so `2x` passes the schema and is refused by Prisma (`AskNotANumber`). A
fractional `page` passes as well, and is left out.

## 3. The runs

All properties are safety, action or refinement properties, except four:

* `EndsBelowPoolSize` and `EndsByTransactionTimeout` of `ConnectionPool`: weak
  fairness of a request's step between two calls (`Continue`), of the pool that hands
  out a free connection (`Grant`), of the database, which answers or rejects
  (`Answer`), and of Redis while it is up (`Reply`). What a handler awaits between
  two calls besides these ends by itself: `bcrypt` computes, and a mail is sent or given
  up by the timers of its client. Redis need not come back: both properties
  exempt a request that itself waits for a Redis that is away
  (`WaitsForRedis`), and no other. No timer of the pool or of the transactions is assumed
  to fire, except where `EndsByTransactionTimeout` says so.
* `Answered` of `Pipeline`: weak fairness of each request's next step, except when
  its handler waits for Redis while Redis is away. The event loop comes back to
  every request, `fetch` and Prisma give up by themselves, but a Redis command is
  queued without a timeout.
* `LockEnds` of `Totp`: time passes (`WF` of `Tick`); handlers need not go on.

Elsewhere no fairness is assumed: the code has no scheduler, background job or
retry whose progress it promises. Deadlock is not checked where everything stops
at the bound of the clock and of the guesses, in `Rbac`, which stops when there
are no users left, and in `MCAccounts`, which stops when ids and tokens have been drawn.

| run | question | instance |
|---|---|---|
| `login_lockout` | is the lockout accounting right with overlapping requests and faults? | 1 user, 2 requests, 3 attempts, clock to 2, 11 guesses |
| `login_session` | what can a login hand out, and to which devices, while rows change under it? | 1 user, 2 requests, 1 agent or none, 2 passwords, 1 attempt, clock to 1, 3 changes by others |
| `login_new_device` | is the owner told of every new device? (no) | 1 user, 2 requests, 2 agents or none, 2 changes |
| `login_lost_failure` | are `MaxAttempts` failures always a lock? (no) | 2 overlapping requests |
| `sessions` | do revocation and expiry hold, and is `SessionRegistry` implemented? | 2 users, 2 sessions, 2 requests, clock to 2, one lifetime |
| `sessions_lookup_fault` | does a failed lookup keep a dead session out? (no) | 1 session, 1 request |
| `sessions_logout_twice` | can a logout fail because of another one? (yes) | 2 requests on one session |
| `accounts` | do addresses stay unique, and are tokens used as they should while requests overlap? and is a list of users right while they change? | 2 user ids, 2 addresses, 1 token, 2 requests; 3 rows, 3 keys, limits to 2, pages to 4 |
| `second_factor` | what can a second factor accept, and how often may one guess, while secrets, codes and counters change? | 2 requests, 2 secrets, 3 one-time codes, 2 attempts, counter life 2, challenge life 1 |
| `pipeline` | do the gates hold, how often may one guess, and is every request answered while windows end, backends go and processes restart? | 2 requests, 2 replicas, 6 scenarios, budgets to 2, 8 minutes a tick, 1 restart |
| `rbac` | do references, deletions and checks hold while calls overlap? | 2 users, 2 role ids, 2 permission ids, 2 requests |
| `connection_pool` | does every request end? | 3 requests, 2 connections, 2 queries or Redis commands each |

Why these bounds are enough: rows of different users share nothing in `Login`,
so one user is as many; the hazards are pairs of requests overlapping, which
two requests give, and three attempts leave room for a lost update, a late
write after the lock, and a lock that runs out (`LockoutDuration` is below
`MaxTime`). In `login_session` three changes are enough to draw and enable a secret
and then change the password or end the session. There one agent is enough for a device
that the user has no session with: a registration may come without a User-Agent. `login_new_device` has
two, to log in from one and give the code from the other. In `Sessions` two ids and two requests give every pair of
concurrent ends, an end against a refresh and an end against a lookup, and two
users a deletion of one by the other; the clock passes the life of a session and
of an access token. In `Rbac` two ids for each kind let a name be deleted and
created again under a new id while a request holds the old one. In `Accounts`
two ids and two addresses let two registrations, or a registration and an address
change, race for one address, and let a user leave an address that another takes.
A Redis key is touched only by requests that hold its token and the properties
speak of one token at a time, so one token is enough (two were too many for a
short run; the proofs are for any number). In
`ConnectionPool` three requests are one more than the pool, so that all
connections can be held by transactions that wait, and two calls let a request
wait for Redis before or after a query.

In `SecondFactor` two requests overlap in every pair of steps, two secrets let one be drawn
while a code of the other is being verified, two attempts leave room for a lost
increment below the limit, and a third code for one that is deleted by a request that
came for an older one. Time is what a key has left, so it is not bounded. In `Pipeline` a
tick is 8 minutes, so that the window of `loginLimiter` and the observed 15 minutes are two
ticks: a window opened a tick before the observed span ends inside it, and another
follows. With a budget of two the burst at that edge counts, and TLC reaches the
bound. The budgets of a second replica and of a process that restarted come on top: the
replicas differ for one route, since routes share nothing but the limiters, which are counted
per process. In `Listing` three rows and pages of one or two
give the empty table, multiples of the limit, a rest, and pages past the last; a walk that may
by now both miss and repeat a row is not followed further (`Followed`), since
no property speaks of it.

What they show:

* `ColumnsAgree`: the counter is at or over `MaxAttempts` exactly when a
  deadline is set, although both are computed from stale rows.
* `CounterIsEarned`: the counter never exceeds the wrong passwords tried.
* `ExactWhenAlone`: without overlap, the counter is exact.
* `GuessesBounded`: with `k` overlapping requests fewer than
  `choose(MaxAttempts + k, k)` wrong passwords in a row are answered before the
  account locks. The bound is tight: TLC reaches `choose - 1` for three
  attempts and two requests; it was also checked for two attempts and three
  requests.
* `TokensJustified`: whoever gets tokens gave a password that was the user's
  at some instant of the request, at which, or later, MFA was not required.
* `DeviceAnnounced`: a device that names itself has a session, or was answered an
  `mfaToken`, only if the user was told of it, registered with it, or gave a second
  factor there. The last is no mail: see `login_new_device`.
* `RevocationHolds`, `DeadNeverAdmitted`, `KeepsRegistry`: see section 4.
* `TypeOK` of `Accounts`: no two accounts have one address, which the lookups
  alone would not give: the unique index does, and the loser is answered 500.
* `VerifiedEarned`: a verified user was mailed a verification token, at an address
  the user has had, and the token was used. It need not be the present address:
  `updateProfile` leaves the flag as it is.
* `OverStaysOver`, `UsesBounded`: a token can be used once by each request that
  overlaps the first use, and no more, unless `del` fails. Once a use was answered
  200, or the key ran out, later requests are refused.
* `ReferencesHold`, `DeletionFinal`: no link refers to a row that is gone, and a
  role or permission whose deletion was acknowledged gives nobody anything again.
* `CheckWasRight`: the answer of `hasPermission`, though made of two queries,
  was right at some instant between the call and the answer.
* `ConfirmedUnlessOvertaken`: MFA is on only with a secret that its owner has shown
  a code of; the exception is a secret drawn while a confirmation of the old one was
  between its check and its write, and TLC reaches it.
* `FactorJustified`: an accepted code, and the session opened on it, was a code of the
  enabled secret at some instant of the request.
* `Totp!GuessesBounded`: although the counter is read and set back, `k` overlapping
  requests get at most `choose(MaxAttempts + k, k) - 1` failures before
  everything is refused; `LockEnds`: refused attempts do not prolong the lock.
* `CodeTypeOK`, `KeepsPromise`: only generated codes let a request through, and the
  handlers implement `SingleUseCode`.
* `Pipeline!GuessesBounded`: in 15 minutes one address gets at most two budgets of
  `loginLimiter`, less one, per replica in use, passwords and second factors together, one
  budget more per restart, and what was waiting for its CAPTCHA. Less one: a window
  that is still open when the span begins has had its first hit.
* `GatesHold`: handlers for administrators run only for administrators, although a failed
  session lookup lets a request on; handlers for users need a verified token,
  and a session that is over gets through only when the lookup failed.
* `ReadyJustified`: "ready" means that the services are registered and each backend
  answered during the request, though not that both were up together.
* `Answered`: every request is answered, unless its handler waits for Redis.
* `PageExactWhenQuiet`, `WalkComplete`, `WalkNoRepeat`: without a write, page, total,
  `totalPages` and `hasNext` are exact at every boundary; insertions never make a walk
  miss a row that was there all the time, unless between the two queries of one request;
  deletions never make it show a row twice.
* `PoolOK`: the pool is not overdrawn, and a connection is held only by a
  handler that is still inside `withTransaction`.
* `EndsBelowPoolSize`: with fewer logins and registrations in flight than
  connections every request ends without a timer of the pool or of a transaction,
  unless it is itself at a Redis that is away. Registrations that stand there with
  their connections keep nobody else. The threshold is tight: with as
  many as connections, TLC finds them waiting for each other.
* `EndsByTransactionTimeout`: with any number, the timer of the transactions
  is enough for that: it closes a transaction under a callback that waits for a
  connection or for Redis.

Four statements of the documentation do not hold of the code; each has a run
that finds the counterexample and an entry under `findings`.

## 4. What is proved

Every theorem is for any sets of users, sessions and requests and any values
of the numeric constants that satisfy the named assumption of the module
(`LoginAssumption`, `SessionsAssumption`, `RbacAssumption`, `AccountsAssumption`,
`UserRowsAssumption`, `TotpAssumption`, `SecondFactorAssumption`, `PoolAssumption`,
`PipelineAssumption`: the numbers are naturals, `Requests` is finite where it is counted,
`None` is no name, ids of different kinds differ, no code is "no code"). TLC
evaluates each of them in a run.

Every invariant that a run checks is proved, and so are the refinements of
`SessionRegistry` and `SingleUseCode`. The four liveness properties are not: they
are out of the prover's reach.

* `Login_proofs!TypeCorrect`, `ColumnsAlwaysAgree`, `CounterAlwaysEarned`.
  `ColumnsAgree` is inductive over the types because both columns are always
  written together, from one number. `CounterIsEarned` is not: a request in
  flight will write a number it read earlier, so the invariant also bounds every
  number read by the guesses made since (`ReadIsEarned`).
  `TokensAlwaysJustified`, `DeviceAlwaysAnnounced`: `RequestOK` says what each await
  of `login` still needs: a request past `compare` gave a password that was right while it
  ran, one at `create` saw MFA off, and from the alert on its device was announced, or had a
  session, which then had been announced or verified (`Introduced`).
  `AlwaysExactWhenAlone`: while no two logins on an account overlap, its counter is the
  streak, and the one login in flight has read that number (`AloneOK`).
* `GuessesAlwaysBounded` of `Login_proofs`, and of `SecondFactor_proofs`, for every
  number `k` of requests and every limit `m`. That a number rises and falls as
  overlapping requests write what they read gives no inductive bound by itself; the
  argument is in `Counting`. A request is worth the number that it would write one
  more than: what it has read, or the counter itself if that is less. The profile of a state
  says, for each `i` up to `m`, how many requests are worth less than `i`. A write
  of one more makes it smaller in the lexicographic order, and no other step makes it larger,
  so the failures so far are at most the number of profiles that are above (`Spent`),
  and `ClimbsCount` says that there are `choose(m + k, k)` profiles in all. `StreakInv`
  adds, for `Login`, that deadlines and the columns read agree, and that the bound is
  about the time until the first lock can run out.
* `Sessions_proofs!TypeCorrect`, `RevocationIsFinal`, `DeadStayOut`,
  `KeepsPromise`. The invariant `SessionsInv` adds to the types: ids that were
  acknowledged as over were opened (so a fresh id is never one of them); what a
  request is about to acknowledge is what its handler deletes (`RequestOK`);
  a request marked dead has a session that is acknowledged or expired. From it,
  `RevocationHolds` is inductive, a working lookup cannot find the session of
  a dead request, and each step of the code is a step of `SessionRegistry` or a
  stutter under the mapping.

* `Rbac_proofs!TypeCorrect`, `ReferencesAlwaysHold`, `DeletionIsFinal`,
  `ChecksWereRight`. The invariant `RbacInv` adds that ids that were deleted
  have a name (so an id drawn later is not one of them), which kind of name each
  call carries, and, for a check between its queries, that the permission it
  found has the name it asks for and, if it was deleted since, that "no" was
  right at that instant (`CheckOK`). The last follows from the unique index:
  when a permission goes, no other one has its name. `TablesOK` collects what
  any step does to the tables; from it, the requests that do not take the step
  keep their part of the invariant (`OthersOK`), and the one that does is
  treated action by action (`StepInv`).

* `UserRows_proofs!TypeCorrect`, `VerifiedIsEarned`, `OverIsOver`. The invariant
  `AccountsInv` adds what a request knows at each await (`RequestOK`): a token it
  has read was mailed, is of the call's kind and names its user; an address a
  token is about to be drawn for is one the user has had. `Grows` says what every
  step leaves alone (drawn tokens, mailed tokens, past addresses); requests that
  do not take the step keep their part by it. That spent tokens are not live is
  inductive because a token is drawn once.
  `UsesAlwaysBounded`: while the key is there, whoever used the token still has its
  deletion ahead; from then on only the requests that read it before can use it, so
  the uses and those requests together are no more than `Requests` (`UseOK`).
  `BothIsAccounts` carries all four to the specification that the run checks.
* `UserRows_proofs!PagesAlwaysExact`, `WalksAlwaysComplete`, `WalksNeverRepeat`,
  for any number of rows, limit and page. The rank of a row is how many come before
  it. Where no two tie, a page shows the rows whose rank lies between its first and its
  last place (`TakeRanks`), insertions only raise ranks and deletions only lower them
  (`RankGrows`). So the walk has shown, of the rows that were there all the time, all those
  with a rank below the page it asks for (`CompleteInv`), and every row that it has
  shown keeps a rank below that page (`NoRepeatInv`). `CompleteInv` also has what the two
  queries of a request know of each other while only one is answered. `ExactInv`: without a
  write the answers still agree with the table; that `totalPages` and `hasNext` are then right
  is arithmetic (`PageNumbers`).

* `SecondFactor_proofs!TypeCorrect`, `OnIsConfirmed`, `AcceptedIsJustified`. The invariant
  `TotpInv` adds what a request knows at each await (`RequestOK`): one that waits for
  the row has seen every instant at which its code was good, a code found valid was
  good at such an instant, the number it will write is below the limit, and one
  that confirms holds a secret that was shown or was overtaken since. Drawing a secret and
  `EnableMfa` touch the requests that wait (`Witness`, lemma `WitnessOK`); the other
  actions change at most one request (`RequestStep`).
  `BothIsTotp` carries them from `Totp` to the specification that the run checks.
* `SecondFactor_proofs!CodesAlwaysTyped`, `PromiseKept`. The types are inductive and say that
  a request in front of `del` has a code that was generated; from them each step maps to a
  step of `SingleUseCode` or to a stutter. `None \notin Codes` is assumed of the
  constants: without it, "no code" could be let through.
* `ConnectionPool_proofs!PoolAlwaysOK`. `PoolOK` is inductive with what a request's
  phase says of its transaction (`PhasesOK`); that the pool is not overdrawn comes down to
  counting holders when one is added to a finite set.
* `Pipeline_proofs!TypeCorrect`, `GatesAlwaysHold`, `ReadyAlwaysJustified`. What lies
  behind a request on its chain has been passed: behind `auth` its session is live, or
  over and the lookup failed, and behind `role` it is an administrator's (`GateOK`). That every
  route of administrators has both gates in front of its handler is read from the
  chains (`ChainOK`). A check of `/ready` has seen each backend that it found up (`ReadyOK`).
* `Pipeline_proofs!GuessesAlwaysBounded`. What runs, what waits behind the limiter, and
  what the windows of each replica can still let through, now and in the window that
  follows, stay together within the budgets (`GuessInv`). A hit moves one unit from the
  windows to those who wait, a window that ends moves `Later` to `Left`, and a
  restart pays for the windows it forgets with one more budget. At the
  start of the span no replica in use (`PlacesOK`: requests are on no other) has its first hit both in the open window, which has had
  it, and in one that follows, which needs an open window before it: the bound's "less one".

Induction. The induction theorems of the library take an operator and cannot be
used here, and neither can a `RECURSIVE` operator. Where an induction is needed
(`ClimbsCount`, and that the recursion of the factorial has a solution), it is by
the least counterexample (`Counting!Least`), which is first-order.

The prover sees the `Cardinality` of the instance of `Listing` as another operator
than that of `FiniteSets`, with the same definition (`SameCardinality`).

Only model-checked: `EndsBelowPoolSize` and `EndsByTransactionTimeout` of
`ConnectionPool`, `LockEnds` of `Totp` and `Answered` of `Pipeline`, which are liveness
under fairness; and that the bounds on guesses and on the pool are tight, which is
an instance by nature.

## 5. What is left

Of the safety properties that the runs check, none is left to prove. For the
liveness properties a step towards a proof would be their safety cores, for instance
that among requests below the pool's size one can always take a step.

Not modelled, and why:

* `container.bind` and `isBound`: they run at start-up, before any request;
  `Pipeline` has the two outcomes as initial states.
* The CAPTCHA router and its limiter: `app.ts` does not mount them. CORS, helmet and
  body parsing are settings of libraries.
* `NODE_ENV=test`, under which every limiter passes: the model is of the deployed server.
* The mapping of error classes to status codes and texts, HTML of mails, DTO shaping,
  logging and Swagger: wording without state.
* Mail, SMS, CAPTCHA and TOTP arithmetic: other programs; that they fail, or
  answer no, is modelled where they are called.
* Listings other than that of users: they write nothing, and no client asks them for
  pages (roles are the first page of 1000, by the same `findMany`).
