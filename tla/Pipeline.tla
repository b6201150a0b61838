------------------------------ MODULE Pipeline ------------------------------
(***************************************************************************)
(* What a request passes until its handler answers: the routes, the rate   *)
(* limiters (utils/rateLimiting.ts), validateRequest, requireCaptcha,      *)
(* authMiddleware, requireRole, handleRequest and errorHandler, the        *)
(* service container they ask, and GET /ready.                             *)
(*                                                                         *)
(* A route is the chain of its middleware.  What is done between two       *)
(* awaits is one step.  The limiters are express-rate-limit with its       *)
(* default store (external): per process and client address, a window that *)
(* begins with the first hit, in which every hit counts, refused ones too. *)
(* Counters of different addresses never meet, so the module is about the  *)
(* requests from one address, which the replicas of the deployment share   *)
(* out.  Under NODE_ENV=test the limiters are off; that is not modelled.   *)
(***************************************************************************)
EXTENDS Integers, FiniteSets, Sequences

CONSTANTS
    Requests,     \* requests that can be in flight at once
    Replicas,     \* processes of the deployment
    Scenarios,    \* bound: a behaviour calls the routes of one of these, on
                  \* its replicas, and its backends may go down
    BudgetCap,    \* bound: a budget above this is taken for this
    TickMinutes,  \* minutes from one tick of the clock to the next
    MaxRestarts   \* bound: restarts of a process

VARIABLES
    registered,  \* rigid: initializeServices has run
    captchaOn,   \* rigid: RECAPTCHA_SECRET_KEY is set
    scenario,    \* rigid: the scenario of this behaviour
    up,          \* the backends that answer
    window,      \* the limiters' windows that are open
    request,     \* the requests in flight
    restarts,
    watch        \* history: handlers run in one span of time, see below

rigid == <<registered, captchaOn, scenario>>
vars == <<rigid, up, window, request, restarts, watch>>

----------------------------------------------------------------------------
(* The limiters and the routes.                                            *)

Limit == [
    loginLimiter         |-> [max |-> 10,  minutes |-> 15],
    registerLimiter      |-> [max |-> 5,   minutes |-> 60],
    refreshLimiter       |-> [max |-> 50,  minutes |-> 60],
    logoutLimiter        |-> [max |-> 10,  minutes |-> 1],
    otpRequestLimiter    |-> [max |-> 5,   minutes |-> 60],
    otpVerifyLimiter     |-> [max |-> 5,   minutes |-> 15],
    totpSetupLimiter     |-> [max |-> 5,   minutes |-> 60],
    totpVerifyLimiter    |-> [max |-> 5,   minutes |-> 15],
    passwordResetLimiter |-> [max |-> 3,   minutes |-> 60],
    adminLimiter         |-> [max |-> 100, minutes |-> 1],
    adminWriteLimiter    |-> [max |-> 20,  minutes |-> 1],
    sessionLimiter       |-> [max |-> 30,  minutes |-> 1],
    profileLimiter       |-> [max |-> 30,  minutes |-> 1],
    healthLimiter        |-> [max |-> 60,  minutes |-> 1],
    emailVerifyLimiter   |-> [max |-> 10,  minutes |-> 15]]

Limiters == DOMAIN Limit

Budget(l) == IF Limit[l].max > BudgetCap THEN BudgetCap ELSE Limit[l].max
Length(l) == (Limit[l].minutes + TickMinutes - 1) \div TickMinutes

LimitedAdmin == <<"adminLimiter", "auth", "role", "adminWriteLimiter", "handler">>
LimitedUser(l) == <<l, "auth", "handler">>

\* Mutant: the second half of a login has a limiter of its own.
MfaVerifyApart == <<"totpVerifyLimiter", "handler">>

\* The second half of a login shares the limiter of the first.
MfaVerify == <<"loginLimiter", "handler">>

\* The routers of app.ts.  Operations with the same chain share a name.
authRouter == [
    register    |-> <<"validate", "registerLimiter", "captcha", "handler">>,
    login       |-> <<"validate", "loginLimiter", "captcha", "handler">>,
    refresh     |-> <<"validate", "refreshLimiter", "handler">>,
    logout      |-> LimitedUser("logoutLimiter"),
    mfaVerify   |-> MfaVerify,
    verifyEmail |-> <<"emailVerifyLimiter", "handler">>,
    resend      |-> LimitedUser("registerLimiter")]

profileRouter == [
    requestPasswordReset |-> <<"passwordResetLimiter", "handler">>,
    passwordReset        |-> <<"passwordResetLimiter", "handler">>,
    profile    |-> LimitedUser("profileLimiter"),
    putProfile |-> <<"profileLimiter", "auth", "validate", "handler">>]

\* sessions: all three routes.
sessionRouter == [sessions |-> LimitedUser("sessionLimiter")]

\* totpSetup: enable, confirm and disable.
totpRouter == [
    totpSetup  |-> LimitedUser("totpSetupLimiter"),
    totpVerify |-> LimitedUser("totpVerifyLimiter")]

\* otpRequest: by SMS and by mail.
otpRouter == [
    otpRequest |-> LimitedUser("otpRequestLimiter"),
    otpVerify  |-> LimitedUser("otpVerifyLimiter")]

\* writeUser: put and delete.
adminRouter == [
    readUsers   |-> <<"adminLimiter", "auth", "role", "validate", "handler">>,
    writeUser   |-> <<"adminLimiter", "auth", "role", "validate",
                      "adminWriteLimiter", "handler">>,
    deleteUsers |-> LimitedAdmin]

permissionRouter == [permissions |-> LimitedAdmin]

rbacRouter == [roles |-> LimitedAdmin]

healthRouter == [
    health |-> <<"healthLimiter", "handler">>,
    ready  |-> <<"healthLimiter", "handler">>]

Routers == {authRouter, profileRouter, sessionRouter, totpRouter, otpRouter,
            adminRouter, permissionRouter, rbacRouter, healthRouter}

\* The chain of middleware and handler of every route.
Routes == UNION {DOMAIN R : R \in Routers}
Chain == [route \in Routes |-> (CHOOSE R \in Routers : route \in DOMAIN R)[route]]


Backends == {"database", "redis"}

ASSUME PipelineAssumption ==
    /\ IsFiniteSet(Requests)
    /\ IsFiniteSet(Replicas) /\ Replicas # {}
    /\ Scenarios \subseteq [routes: SUBSET Routes, replicas: SUBSET Replicas,
                         backends: SUBSET Backends]
    /\ BudgetCap \in Nat \ {0}
    /\ TickMinutes \in Nat \ {0}
    /\ MaxRestarts \in Nat

----------------------------------------------------------------------------
(* Requests.  What a middleware looks at is chosen when it does: session   *)
(* is the state of the session its access token names, once jwt.verify has *)
(* accepted one.                                                           *)

Idle == [route |-> "health", replica |-> CHOOSE p \in Replicas : TRUE,
         stage |-> 0, session |-> "unknown", lookupFailed |-> FALSE,
         admin |-> FALSE, step |-> 0, checks |-> {}, saw |-> {}]

StageAt(q, i) ==
    IF i \in 1 .. Len(Chain[q.route]) THEN Chain[q.route][i] ELSE "none"
Stage(r) == StageAt(request[r], request[r].stage)
Busy(r) == request[r].stage > 0

\* The container knows what initializeServices has bound; get throws
\* otherwise.  server.ts does not call it, the tests' set-up does: both are
\* modelled.
CanGet(service) ==
    registered /\ service \in {"UserRepository", "SessionRepository",
        "RbacRepository", "PermissionRepository", "TotpRepository",
        "DatabaseClient", "RedisClient", "Logger"}

----------------------------------------------------------------------------
(* The observer.  At one moment it starts to count the handlers that check *)
(* a password or a second factor, for as long as a window of loginLimiter  *)
(* is.  carried are the requests that had passed the limiter by then.      *)

Credentials == {"login", "mfaVerify"}

Unwatched == [state |-> "before", age |-> 0, runs |-> 0, carried |-> 0,
              restarts |-> 0]

StartWatch ==
    /\ watch.state = "before"
    /\ scenario.routes \cap Credentials # {}
    /\ watch' = [Unwatched EXCEPT !.state = "on",
          !.carried = Cardinality({r \in Requests : Stage(r) = "captcha"})]
    /\ UNCHANGED <<rigid, up, window, request, restarts>>

Observed(r) ==
    IF /\ watch.state = "on"
       /\ request[r].route \in Credentials
       /\ StageAt(request[r], request[r].stage + 1) = "handler"
    THEN [watch EXCEPT !.runs = @ + 1] ELSE watch

----------------------------------------------------------------------------

Init ==
    /\ registered \in BOOLEAN
    /\ captchaOn \in BOOLEAN
    /\ scenario \in Scenarios
    /\ up = Backends
    /\ window = {}
    /\ request = [r \in Requests |-> Idle]
    /\ restarts = 0
    /\ watch = Unwatched

\* next() with q for the request, and the synchronous part of entering a
\* handler.
GoOn(r, q) ==
    /\ request' = [request EXCEPT ![r] =
          [q EXCEPT !.stage = @ + 1,
                    !.saw = IF q.route = "ready" THEN up ELSE {}]]
    /\ watch' = Observed(r)
    /\ UNCHANGED <<rigid, up, restarts>>

PassOn(r) == GoOn(r, request[r])

\* A response: from the middleware itself, from the handler, or, through
\* next(err), from errorHandler.
Respond(r) ==
    /\ request' = [request EXCEPT ![r] = Idle]
    /\ UNCHANGED <<rigid, up, restarts, watch>>

Arrive(r) ==
    /\ ~Busy(r)
    /\ \E route \in scenario.routes, p \in scenario.replicas :
          request' = [request EXCEPT ![r] =
              [Idle EXCEPT !.route = route, !.replica = p, !.stage = 1]]
    /\ UNCHANGED <<rigid, up, window, restarts, watch>>

\* The schema parses body, query and params, or throws a ZodError.
Validate(r) ==
    /\ Stage(r) = "validate"
    /\ PassOn(r) \/ Respond(r)
    /\ UNCHANGED window

Windows(p, l) == {w \in window : w.replica = p /\ w.limiter = l}

\* One hit more in the window, or the first of a new one.
Hit(p, l) ==
    IF Windows(p, l) = {}
    THEN [replica |-> p, limiter |-> l, hits |-> 1, left |-> Length(l)]
    ELSE LET w == CHOOSE w \in Windows(p, l) : TRUE
         IN  [w EXCEPT !.hits = IF @ > Budget(l) THEN @ ELSE @ + 1]

CountHit(r) ==
    LET l == Stage(r)
        p == request[r].replica
        w == Hit(p, l)
    IN  /\ l \in Limiters
        /\ window' = (window \ Windows(p, l)) \cup {w}
        /\ IF w.hits > Budget(l) THEN Respond(r) ELSE PassOn(r)

CaptchaOff(r) ==
    /\ Stage(r) = "captcha"
    /\ ~captchaOn
    /\ PassOn(r)
    /\ UNCHANGED window

\* No token (CAPTCHA_REQUIRED), or verifyCaptcha has its answer: the token
\* is good, or it is not (CAPTCHA_FAILED).
CaptchaChecked(r) ==
    /\ Stage(r) = "captcha"
    /\ captchaOn
    /\ PassOn(r) \/ Respond(r)
    /\ UNCHANGED window

\* Mutant: the catch forgets next(err), and nobody goes on with the request.
CaptchaLost(r) ==
    /\ Stage(r) = "captcha"
    /\ captchaOn
    /\ request' = [request EXCEPT ![r].stage = 1 + Len(Chain[request[r].route])]
    /\ UNCHANGED <<rigid, up, window, restarts, watch>>

\* fetch fails or gives up: CaptchaVerificationFailed, through next(err).
CaptchaUnreachable(r) ==
    /\ Stage(r) = "captcha"
    /\ captchaOn
    /\ Respond(r)
    /\ UNCHANGED window

\* authMiddleware without a token that jwt.verify accepts: 401.
Unauthorized(r) ==
    /\ Stage(r) = "auth"
    /\ Respond(r)
    /\ UNCHANGED window

CanLookup(repository) == CanGet(repository) /\ "database" \in up

LookupSession(r) ==
    /\ Stage(r) = "auth"
    /\ CanLookup("SessionRepository")
    /\ GoOn(r, [request[r] EXCEPT !.session = "live"]) \/ Respond(r)
    /\ UNCHANGED window

\* The lookup throws; `catch {}` drops the error, and next() follows.
LookupFails(r) ==
    /\ Stage(r) = "auth"
    /\ ~CanLookup("SessionRepository")
    /\ \E s \in {"live", "over"} :
          GoOn(r, [request[r] EXCEPT !.session = s, !.lookupFailed = TRUE])
    /\ UNCHANGED window

\* getUserRoles answers.
CheckRole(r) ==
    /\ Stage(r) = "role"
    /\ CanLookup("RbacRepository")
    /\ GoOn(r, [request[r] EXCEPT !.admin = TRUE]) \/ Respond(r)
    /\ UNCHANGED window

\* Mutant: like authMiddleware, requireRole lets through what it cannot check.
RoleLookupIgnored(r) ==
    /\ Stage(r) = "role"
    /\ ~CanLookup("RbacRepository")
    /\ PassOn(r)
    /\ UNCHANGED window

\* getUserRoles throws: next(err).
RoleLookupFails(r) ==
    /\ Stage(r) = "role"
    /\ ~CanLookup("RbacRepository")
    /\ Respond(r)
    /\ UNCHANGED window

\* Mutant: the handler answers, and calls next() as well.
HandleAndPassOn(r) ==
    /\ Stage(r) = "handler"
    /\ request[r].route # "ready"
    /\ PassOn(r)
    /\ UNCHANGED window

\* handleRequest: a result or an error, in either case an answer.
Handle(r) ==
    /\ Stage(r) = "handler"
    /\ request[r].route # "ready"
    /\ Respond(r)
    /\ UNCHANGED window

\* readinessCheck tries the backends one after the other.
Check(r, step, backend, answers) ==
    /\ Stage(r) = "handler"
    /\ request[r].route = "ready"
    /\ request[r].step = step
    /\ request' = [request EXCEPT ![r].step = @ + 1,
          ![r].checks = @ \cup (IF answers THEN {backend} ELSE {})]
    /\ UNCHANGED <<rigid, up, window, restarts, watch>>

\* Mutant: the query is sent and not awaited.
QueryNotAwaited(r) == Check(r, 0, "database", CanGet("DatabaseClient"))

CheckDatabase(r) ==
    Check(r, 0, "database", CanGet("DatabaseClient") /\ "database" \in up)

\* The client queues the ping while Redis is down; it fails when the
\* connection breaks under it.
CheckRedis(r) == Check(r, 1, "redis", "redis" \in up)

\* 200 when both checks are true, else 503.
AnswerReady(r) ==
    /\ Stage(r) = "handler"
    /\ request[r].step = 2
    /\ Respond(r)
    /\ UNCHANGED window

Step(r) ==
    \/ Validate(r)
    \/ CountHit(r)
    \/ CaptchaOff(r)
    \/ CaptchaChecked(r)
    \/ CaptchaUnreachable(r)
    \/ Unauthorized(r)
    \/ LookupSession(r)
    \/ LookupFails(r)
    \/ CheckRole(r)
    \/ RoleLookupFails(r)
    \/ Handle(r)
    \/ CheckDatabase(r)
    \/ CheckRedis(r)
    \/ AnswerReady(r)

----------------------------------------------------------------------------
(* The world around: backends, the clock, and restarts.                    *)

GoDown(backend) ==
    /\ backend \in up \cap scenario.backends
    /\ up' = up \ {backend}
    /\ UNCHANGED <<rigid, window, request, restarts, watch>>

ComeUp(backend) ==
    /\ backend \notin up
    /\ up' = up \cup {backend}
    /\ request' = [r \in Requests |->
          IF Stage(r) = "handler" /\ request[r].route = "ready"
          THEN [request[r] EXCEPT !.saw = @ \cup {backend}] ELSE request[r]]
    /\ UNCHANGED <<rigid, window, restarts, watch>>

Tick ==
    /\ window' = {[w EXCEPT !.left = @ - 1] : w \in {v \in window : v.left > 1}}
    /\ watch' = IF watch.state # "on" THEN watch
                ELSE IF watch.age + 1 = Length("loginLimiter")
                     THEN [Unwatched EXCEPT !.state = "after"]
                     ELSE [watch EXCEPT !.age = @ + 1]
    /\ UNCHANGED <<rigid, up, request, restarts>>

\* The counters of the process and its connections are gone.
Restart(p) ==
    /\ restarts < MaxRestarts
    /\ restarts' = restarts + 1
    /\ window' = {w \in window : w.replica # p}
    /\ request' = [r \in Requests |->
          IF request[r].replica = p THEN Idle ELSE request[r]]
    /\ watch' = IF watch.state = "on" THEN [watch EXCEPT !.restarts = @ + 1]
                ELSE watch
    /\ UNCHANGED <<rigid, up>>

Next ==
    \/ \E r \in Requests : Arrive(r) \/ Step(r)
    \/ StartWatch
    \/ \E b \in Backends : GoDown(b) \/ ComeUp(b)
    \/ Tick
    \/ \E p \in scenario.replicas : Restart(p)

\* Redis commands are queued, without a timeout, until Redis is back.
UsesRedis == {"register", "verifyEmail", "resend", "requestPasswordReset",
              "passwordReset", "mfaVerify", "totpVerify", "otpRequest",
              "otpVerify", "ready"}

WaitsForRedis(r) ==
    /\ Stage(r) = "handler"
    /\ request[r].route \in UsesRedis
    /\ "redis" \notin up

\* The event loop comes back to every request, and everything else that one
\* waits for is answered or gives up: fetch and Prisma have timeouts.
Fairness == \A r \in Requests : WF_vars(~WaitsForRedis(r) /\ Step(r))

Spec == Init /\ [][Next]_vars /\ Fairness

----------------------------------------------------------------------------
(* Properties.                                                             *)

Window == [replica: Replicas, limiter: Limiters, hits: 1 .. BudgetCap + 1,
           left: Nat \ {0}]

Request == [route: Routes, replica: Replicas, stage: Nat,
            session: {"unknown", "live", "over"}, lookupFailed: BOOLEAN,
            admin: BOOLEAN, step: 0 .. 2, checks: SUBSET Backends,
            saw: SUBSET Backends]

Watch == [state: {"before", "on", "after"}, age: Nat, runs: Nat, carried: Nat,
          restarts: Nat]

\* Every variable has the type of what it models; in particular no request
\* goes on behind the handler of its route.
TypeOK ==
    /\ registered \in BOOLEAN
    /\ captchaOn \in BOOLEAN
    /\ scenario \in Scenarios
    /\ up \subseteq Backends
    /\ window \subseteq Window
    /\ request \in [Requests -> Request]
    /\ \A r \in Requests : request[r].stage <= Len(Chain[request[r].route])
    /\ restarts \in 0 .. MaxRestarts
    /\ watch \in Watch

\* Two budgets of loginLimiter, less one, per replica in use: the window that is open
\* when the observer starts has had its first hit.  One more budget per restart,
\* and what had passed the limiter and was waiting for its CAPTCHA.
Allowed ==
    Cardinality(scenario.replicas) * (2 * Budget("loginLimiter") - 1)
    + Budget("loginLimiter") * watch.restarts + watch.carried

\* In any 15 minutes one address gets no more passwords and second factors
\* checked than that: however the requests spread over replicas and over the
\* windows that end on the way, and whichever route they take.
GuessesBounded == watch.runs <= Allowed

OfAdministrators == {"readUsers", "writeUser", "deleteUsers", "roles",
                     "permissions"}
OfUsers == OfAdministrators \cup
    {"logout", "resend", "profile", "putProfile", "sessions", "totpSetup",
     "totpVerify", "otpRequest", "otpVerify"}

\* A handler for administrators runs only for an administrator, although
\* authMiddleware goes on when it cannot look the session up: what it lets
\* through then, without services or without the database, requireRole
\* stops.  A handler for users runs only with a token that was verified, and
\* on a session that is over only when the lookup failed.
GatesHold ==
    \A r \in Requests :
        LET q == request[r] IN
        Stage(r) = "handler" =>
            /\ q.route \in OfUsers =>
                  /\ q.session \in {"live", "over"}
                  /\ q.session = "over" => q.lookupFailed
            /\ q.route \in OfAdministrators => q.admin /\ registered

\* /ready says "ready" only if the services are registered and each backend
\* answered at some instant of the request, although they are asked one
\* after the other while both come and go.
ReadyJustified ==
    \A r \in Requests :
        request[r].step = 2 /\ request[r].checks = Backends
            => registered /\ request[r].saw = Backends

\* Every request is answered, whichever middleware, backend or handler fails
\* on the way, unless its handler waits for a Redis that does not come back.
Answered == \A r \in Requests : Busy(r) ~> ~Busy(r) \/ WaitsForRedis(r)

=============================================================================
