--------------------------- MODULE Pipeline_proofs ---------------------------
(***************************************************************************)
(* What holds of Pipeline for every number of requests and processes,      *)
(* every budget and every length of a tick.                                *)
(***************************************************************************)
EXTENDS Pipeline, FiniteSetTheorems, TLAPS

USE PipelineAssumption DEF PipelineAssumption

----------------------------------------------------------------------------
(* What the properties need of the routes.                                  *)

\* A chain ends with its handler and has no other; a handler for users has
\* authMiddleware before it, one for administrators requireRole as well.
ChainOK(route, c) ==
    /\ Len(c) \in Nat \ {0}
    /\ c[Len(c)] = "handler"
    /\ \A i \in 1 .. Len(c) - 1 : c[i] # "handler"
    /\ route \in OfUsers => \E i \in 1 .. Len(c) - 1 : c[i] = "auth"
    /\ route \in OfAdministrators => \E i \in 1 .. Len(c) - 1 : c[i] = "role"

\* Chains by their length.
LEMMA ChainOfTwo ==
  ASSUME NEW a, a # "handler", NEW route, route \notin OfUsers
  PROVE  ChainOK(route, <<a, "handler">>)
<1> DEFINE c == <<a, "handler">>
<1>1. Len(c) = 2 /\ c[1] = a /\ c[2] = "handler"
  OBVIOUS
<1> HIDE DEF c
<1>2. route \notin OfAdministrators
  BY DEF OfUsers
<1>3. ChainOK(route, c)
  BY <1>1, <1>2 DEF ChainOK
<1> QED BY <1>3 DEF c

LEMMA ChainOfThree ==
  ASSUME NEW a, NEW b, a # "handler", b # "handler", NEW route,
         route \notin OfAdministrators, route \in OfUsers => b = "auth"
  PROVE  ChainOK(route, <<a, b, "handler">>)
<1> DEFINE c == <<a, b, "handler">>
<1>1. Len(c) = 3 /\ c[1] = a /\ c[2] = b /\ c[3] = "handler"
  OBVIOUS
<1> HIDE DEF c
<1>2. 2 \in 1 .. Len(c) - 1 /\ \A i \in 1 .. Len(c) - 1 : i = 1 \/ i = 2
  BY <1>1
<1>3. ChainOK(route, c)
  BY <1>1, <1>2 DEF ChainOK
<1> QED BY <1>3 DEF c

LEMMA ChainOfFour ==
  ASSUME NEW a, NEW b, NEW d, a # "handler", b # "handler", d # "handler",
         NEW route, route \notin OfAdministrators, route \in OfUsers => b = "auth"
  PROVE  ChainOK(route, <<a, b, d, "handler">>)
<1> DEFINE c == <<a, b, d, "handler">>
<1>1. Len(c) = 4 /\ c[1] = a /\ c[2] = b /\ c[3] = d /\ c[4] = "handler"
  OBVIOUS
<1> HIDE DEF c
<1>2. 2 \in 1 .. Len(c) - 1 /\ \A i \in 1 .. Len(c) - 1 : i = 1 \/ i = 2 \/ i = 3
  BY <1>1
<1>3. ChainOK(route, c)
  BY <1>1, <1>2 DEF ChainOK
<1> QED BY <1>3 DEF c

LEMMA ChainOfFive ==
  ASSUME NEW a, NEW b, a # "handler", b # "handler", NEW route
  PROVE  ChainOK(route, <<a, "auth", "role", b, "handler">>)
<1> DEFINE c == <<a, "auth", "role", b, "handler">>
<1>1. /\ Len(c) = 5 /\ c[1] = a /\ c[2] = "auth" /\ c[3] = "role" /\ c[4] = b
      /\ c[5] = "handler"
  OBVIOUS
<1> HIDE DEF c
<1>2. /\ 2 \in 1 .. Len(c) - 1 /\ 3 \in 1 .. Len(c) - 1
      /\ \A i \in 1 .. Len(c) - 1 : i = 1 \/ i = 2 \/ i = 3 \/ i = 4
  BY <1>1
<1>3. ChainOK(route, c)
  BY <1>1, <1>2 DEF ChainOK
<1> QED BY <1>3 DEF c

LEMMA ChainOfSix ==
  ASSUME NEW a, NEW b, NEW d, a # "handler", b # "handler", d # "handler", NEW route
  PROVE  ChainOK(route, <<a, "auth", "role", b, d, "handler">>)
<1> DEFINE c == <<a, "auth", "role", b, d, "handler">>
<1>1. /\ Len(c) = 6 /\ c[1] = a /\ c[2] = "auth" /\ c[3] = "role" /\ c[4] = b
      /\ c[5] = d /\ c[6] = "handler"
  OBVIOUS
<1> HIDE DEF c
<1>2. /\ 2 \in 1 .. Len(c) - 1 /\ 3 \in 1 .. Len(c) - 1
      /\ \A i \in 1 .. Len(c) - 1 : i = 1 \/ i = 2 \/ i = 3 \/ i = 4 \/ i = 5
  BY <1>1
<1>3. ChainOK(route, c)
  BY <1>1, <1>2 DEF ChainOK
<1> QED BY <1>3 DEF c

RouterOK(R) == \A route \in DOMAIN R : ChainOK(route, R[route])

LEMMA AuthRouter == RouterOK(authRouter)
  BY ChainOfTwo, ChainOfThree, ChainOfFour
     DEF RouterOK, authRouter, LimitedUser, MfaVerify, OfUsers, OfAdministrators

LEMMA UserRouters ==
  /\ RouterOK(profileRouter) /\ RouterOK(sessionRouter)
  /\ RouterOK(totpRouter) /\ RouterOK(otpRouter) /\ RouterOK(healthRouter)
<1>1. RouterOK(profileRouter)
  BY ChainOfTwo, ChainOfThree, ChainOfFour
     DEF RouterOK, profileRouter, LimitedUser, OfUsers, OfAdministrators
<1>2. RouterOK(sessionRouter)
  BY ChainOfThree DEF RouterOK, sessionRouter, LimitedUser, OfAdministrators
<1>3. RouterOK(totpRouter)
  BY ChainOfThree DEF RouterOK, totpRouter, LimitedUser, OfAdministrators
<1>4. RouterOK(otpRouter)
  BY ChainOfThree DEF RouterOK, otpRouter, LimitedUser, OfAdministrators
<1>5. RouterOK(healthRouter)
  BY ChainOfTwo DEF RouterOK, healthRouter, OfUsers, OfAdministrators
<1> QED BY <1>1, <1>2, <1>3, <1>4, <1>5

LEMMA AdminRouters ==
  RouterOK(adminRouter) /\ RouterOK(permissionRouter) /\ RouterOK(rbacRouter)
  BY ChainOfFive, ChainOfSix
     DEF RouterOK, adminRouter, permissionRouter, rbacRouter, LimitedAdmin

LEMMA ChainsOK == \A route \in Routes : ChainOK(route, Chain[route])
<1> SUFFICES ASSUME NEW route \in Routes PROVE ChainOK(route, Chain[route])
  OBVIOUS
<1>1. PICK R \in Routers : route \in DOMAIN R /\ Chain[route] = R[route]
  BY DEF Routes, Chain
<1> QED BY <1>1, AuthRouter, UserRouters, AdminRouters DEF Routers, RouterOK

----------------------------------------------------------------------------
(* What lies behind a request on its chain, it has passed: authMiddleware   *)
(* left the state of the session, requireRole an administrator.  A request  *)
(* to /ready saw every backend that is up, and those that answered it.      *)

GateOK(q) ==
    \A i \in 1 .. q.stage - 1 :
        /\ Chain[q.route][i] = "auth" =>
              /\ q.session \in {"live", "over"}
              /\ q.session = "over" => q.lookupFailed
        /\ Chain[q.route][i] = "role" => q.admin /\ registered

Checking(q) == StageAt(q, q.stage) = "handler" /\ q.route = "ready"

ReadyOK(q) ==
    /\ q.step > 0 \/ q.checks # {} => Checking(q)
    /\ Checking(q) => up \subseteq q.saw
    /\ "database" \in q.checks => registered /\ "database" \in q.saw
    /\ "redis" \in q.checks => "redis" \in q.saw

RequestsOK == \A r \in Requests : GateOK(request[r]) /\ ReadyOK(request[r])

----------------------------------------------------------------------------
(* What is left of the budgets of loginLimiter: the hits that the windows   *)
(* still have, and those of the windows that can follow before the observer *)
(* stops.  Every handler that runs has used up a hit, or was carried.       *)

Hits == Replicas \X (1 .. Budget("loginLimiter"))
Left == {x \in Hits :
            /\ x[1] \in scenario.replicas
            /\ \A w \in Windows(x[1], "loginLimiter") : w.hits < x[2]}
Later == {x \in Hits :
             /\ x[1] \in scenario.replicas
             /\ \E w \in Windows(x[1], "loginLimiter") :
                   w.left + watch.age < Length("loginLimiter")}
Behind == {r \in Requests : /\ request[r].route \in Credentials
                            /\ Stage(r) = "captcha"}

WindowsOK ==
    /\ \A v, w \in window : v.replica = w.replica /\ v.limiter = w.limiter => v = w
    /\ \A w \in window : w.left <= Length(w.limiter)

\* A request is at a replica that is in use.
PlacesOK ==
    \A r \in Requests :
        Stage(r) # "none" => request[r].replica \in scenario.replicas

GuessInv ==
    /\ WindowsOK
    /\ PlacesOK
    /\ watch.state # "on" => watch.runs = 0
    /\ watch.state = "on" =>
          /\ watch.age < Length("loginLimiter")
          /\ watch.runs + Cardinality(Behind) + Cardinality(Left)
                        + Cardinality(Later)
                <= Allowed

----------------------------------------------------------------------------
(* Types, and the kinds of steps a request makes.                           *)

LEMMA RoundUp ==
  ASSUME NEW m \in Nat \ {0}, NEW t \in Nat \ {0}
  PROVE  (m + t - 1) \div t \in Nat \ {0}
<1> DEFINE d == (m + t - 1) \div t
<1>1. d \in Int /\ m + t - 1 \in Nat
  OBVIOUS
<1>2. m + t - 1 < t * (d + 1) /\ t * (d + 1) = t * d + t
  OBVIOUS
<1> HIDE DEF d
<1>3. t * d >= m
  BY <1>1, <1>2
<1>4. d > 0
  <2>1. ASSUME d <= 0 PROVE FALSE
    <3>1. 0 - d \in Nat /\ \A e \in Nat : t * e \in Nat
      BY <1>1, <2>1
    <3>2. t * (0 - d) = 0 - t * d
      BY <1>1
    <3> QED BY <1>1, <1>3, <3>1, <3>2
  <2> QED BY <1>1, <2>1
<1> QED BY <1>1, <1>4 DEF d

LEMMA LimiterTypes ==
  /\ \A l \in Limiters : /\ Budget(l) \in 1 .. BudgetCap
                         /\ Length(l) \in Nat \ {0}
  /\ "loginLimiter" \in Limiters
  /\ Limiters \cap {"validate", "captcha", "auth", "role", "handler", "none"} = {}
<1>1. \A l \in Limiters : Limit[l].max \in Nat \ {0} /\ Limit[l].minutes \in Nat \ {0}
  BY DEF Limiters, Limit
<1>2. /\ "loginLimiter" \in Limiters
      /\ Limiters \cap {"validate", "captcha", "auth", "role", "handler", "none"} = {}
  BY DEF Limiters, Limit
<1>3. \A l \in Limiters : Budget(l) \in 1 .. BudgetCap
  BY <1>1 DEF Budget
<1>4. \A l \in Limiters : Length(l) \in Nat \ {0}
  BY <1>1, RoundUp DEF Length
<1> QED BY <1>2, <1>3, <1>4

LEMMA RouteTypes ==
  /\ {"login", "mfaVerify", "health", "ready"} \subseteq Routes
  /\ \A route \in Routes : Len(Chain[route]) \in Nat \ {0}
<1>1. {"login", "mfaVerify", "health", "ready"} \subseteq Routes
  BY DEF Routes, Routers, authRouter, healthRouter
<1> QED BY <1>1, ChainsOK DEF ChainOK

LEMMA IdleType == Idle \in Request /\ Idle.route = "health" /\ Idle.stage = 0
                  /\ Idle.step = 0 /\ Idle.checks = {} /\ Idle.saw = {}
<1>1. (CHOOSE p \in Replicas : TRUE) \in Replicas
  OBVIOUS
<1> QED BY <1>1, RouteTypes DEF Idle, Request

\* The stage at which a middleware or a handler is found is on the chain.
LEMMA OnChain ==
  ASSUME TypeOK, NEW r \in Requests, Stage(r) # "none"
  PROVE  /\ request[r] \in Request
         /\ request[r].stage \in 1 .. Len(Chain[request[r].route])
         /\ Stage(r) = Chain[request[r].route][request[r].stage]
         /\ Stage(r) = "handler" <=> request[r].stage = Len(Chain[request[r].route])
<1>1. request[r] \in Request
  BY DEF TypeOK
<1>2. /\ request[r].stage \in 1 .. Len(Chain[request[r].route])
      /\ Stage(r) = Chain[request[r].route][request[r].stage]
  BY DEF Stage, StageAt
<1>3. ChainOK(request[r].route, Chain[request[r].route])
  BY <1>1, ChainsOK DEF Request
<1>4. request[r].stage = Len(Chain[request[r].route])
        \/ request[r].stage \in 1 .. Len(Chain[request[r].route]) - 1
  <2>1. Len(Chain[request[r].route]) \in Nat
    BY <1>1, RouteTypes DEF Request
  <2> QED BY <1>2, <2>1
<1> QED BY <1>1, <1>2, <1>3, <1>4 DEF ChainOK

\* What a middleware leaves of a request it lets through.
Passed(r, q) ==
    /\ q \in Request
    /\ q.route = request[r].route /\ q.replica = request[r].replica
    /\ q.stage = request[r].stage
    /\ q.step = request[r].step /\ q.checks = request[r].checks
    /\ Stage(r) \notin {"handler", "none"}
    /\ IF Stage(r) = "auth"
       THEN /\ q.session \in {"live", "over"}
            /\ q.session = "over" => q.lookupFailed
       ELSE /\ q.session = request[r].session
            /\ q.lookupFailed = request[r].lookupFailed
    /\ IF Stage(r) = "role" THEN q.admin /\ registered
                            ELSE q.admin = request[r].admin

Passes(r) == \E q \in Request : Passed(r, q) /\ GoOn(r, q)
Checks(r) == CheckDatabase(r) \/ CheckRedis(r)

\* A request goes on, is answered, or is a check of /ready; only the limiters
\* count.
LEMMA StepKinds ==
  ASSUME TypeOK, NEW r \in Requests, Step(r)
  PROVE  /\ Passes(r) \/ Respond(r) \/ Checks(r)
         /\ CountHit(r) \/ window' = window
<1>0. request[r] \in Request
  BY DEF TypeOK
<1>1. ASSUME Stage(r) \notin {"auth", "role", "handler", "none"}
      PROVE  PassOn(r) => Passes(r)
  BY <1>0, <1>1 DEF PassOn, Passes, Passed
<1>2. CASE Validate(r) \/ CaptchaOff(r) \/ CaptchaChecked(r) \/ CaptchaUnreachable(r)
           \/ Unauthorized(r) \/ RoleLookupFails(r) \/ Handle(r) \/ AnswerReady(r)
  BY <1>1, <1>2 DEF Validate, CaptchaOff, CaptchaChecked, CaptchaUnreachable,
            Unauthorized, RoleLookupFails, Handle, AnswerReady
<1>3. CASE CountHit(r)
  <2>1. Stage(r) \notin {"auth", "role", "handler", "none"}
    BY <1>3, LimiterTypes DEF CountHit
  <2> QED BY <1>1, <1>3, <2>1 DEF CountHit
<1>4. CASE LookupSession(r)
  <2> DEFINE q == [request[r] EXCEPT !.session = "live"]
  <2>1. /\ Stage(r) = "auth" /\ window' = window
        /\ GoOn(r, q) \/ Respond(r)
    BY <1>4 DEF LookupSession
  <2>2. /\ q \in Request /\ q.session = "live"
        /\ q.route = request[r].route /\ q.replica = request[r].replica
        /\ q.stage = request[r].stage /\ q.step = request[r].step
        /\ q.checks = request[r].checks /\ q.admin = request[r].admin
    BY <1>0 DEF Request
  <2> HIDE DEF q
  <2>3. Passed(r, q)
    BY <2>1, <2>2 DEF Passed
  <2> QED BY <2>1, <2>2, <2>3 DEF Passes
<1>5. CASE LookupFails(r)
  <2>1. PICK x \in {"live", "over"} :
           GoOn(r, [request[r] EXCEPT !.session = x, !.lookupFailed = TRUE])
    BY <1>5 DEF LookupFails
  <2> DEFINE q == [request[r] EXCEPT !.session = x, !.lookupFailed = TRUE]
  <2>2. Stage(r) = "auth" /\ window' = window /\ GoOn(r, q)
    BY <1>5, <2>1 DEF LookupFails
  <2>3. /\ q \in Request /\ q.session = x /\ q.lookupFailed
        /\ q.route = request[r].route /\ q.replica = request[r].replica
        /\ q.stage = request[r].stage /\ q.step = request[r].step
        /\ q.checks = request[r].checks /\ q.admin = request[r].admin
    BY <1>0 DEF Request
  <2> HIDE DEF q
  <2>4. Passed(r, q)
    BY <2>2, <2>3 DEF Passed
  <2> QED BY <2>2, <2>3, <2>4 DEF Passes
<1>6. CASE CheckRole(r)
  <2> DEFINE q == [request[r] EXCEPT !.admin = TRUE]
  <2>1. /\ Stage(r) = "role" /\ window' = window /\ registered
        /\ GoOn(r, q) \/ Respond(r)
    BY <1>6 DEF CheckRole, CanLookup, CanGet
  <2>2. /\ q \in Request /\ q.admin
        /\ q.route = request[r].route /\ q.replica = request[r].replica
        /\ q.stage = request[r].stage /\ q.step = request[r].step
        /\ q.checks = request[r].checks /\ q.session = request[r].session
        /\ q.lookupFailed = request[r].lookupFailed
    BY <1>0 DEF Request
  <2> HIDE DEF q
  <2>3. Passed(r, q)
    BY <2>1, <2>2 DEF Passed
  <2> QED BY <2>1, <2>2, <2>3 DEF Passes
<1>7. CASE Checks(r)
  BY <1>7 DEF Checks, CheckDatabase, CheckRedis, Check
<1> QED BY <1>2, <1>3, <1>4, <1>5, <1>6, <1>7 DEF Step, Checks

----------------------------------------------------------------------------
(* Types are kept.                                                          *)

RequestsTyped ==
    /\ request \in [Requests -> Request]
    /\ \A r \in Requests : request[r].stage <= Len(Chain[request[r].route])

\* One request becomes n.
LEMMA MoveOne ==
  ASSUME TypeOK, NEW r \in Requests, NEW n \in Request,
         n.stage <= Len(Chain[n.route]), request' = [request EXCEPT ![r] = n]
  PROVE  /\ RequestsTyped'
         /\ \A s \in Requests : request'[s] = IF s = r THEN n ELSE request[s]
<1>1. /\ request' \in [Requests -> Request]
      /\ \A s \in Requests : request'[s] = IF s = r THEN n ELSE request[s]
  BY DEF TypeOK
<1> QED BY <1>1 DEF TypeOK, RequestsTyped

LEMMA PassEffect ==
  ASSUME TypeOK, NEW r \in Requests, NEW q \in Request, Passed(r, q), GoOn(r, q)
  PROVE  \E n \in Request :
            /\ request' = [request EXCEPT ![r] = n]
            /\ n.route = q.route /\ n.replica = q.replica
            /\ n.stage = q.stage + 1 /\ n.stage <= Len(Chain[n.route])
            /\ n.session = q.session /\ n.lookupFailed = q.lookupFailed
            /\ n.admin = q.admin /\ n.step = q.step /\ n.checks = q.checks
            /\ n.saw = IF q.route = "ready" THEN up ELSE {}
<1> DEFINE saw == IF q.route = "ready" THEN up ELSE {}
           n == [q EXCEPT !.stage = @ + 1, !.saw = saw]
<1>0. saw \subseteq Backends
  BY DEF TypeOK
<1>5. saw = IF q.route = "ready" THEN up ELSE {}
  OBVIOUS
<1>2. request' = [request EXCEPT ![r] = n]
  BY DEF GoOn
<1> HIDE DEF saw
<1>6. q.stage + 1 \in Nat
  BY DEF Request
<1>1. /\ n.route = q.route /\ n.replica = q.replica /\ n.stage = q.stage + 1
      /\ n.session = q.session /\ n.lookupFailed = q.lookupFailed
      /\ n.admin = q.admin /\ n.step = q.step /\ n.checks = q.checks
      /\ n.saw = saw
  BY DEF Request
<1>7. n \in Request
  BY <1>0, <1>6 DEF Request
<1> HIDE DEF n
<1>3. Stage(r) \notin {"handler", "none"} /\ q.route = request[r].route
      /\ q.stage = request[r].stage /\ q.route \in Routes
  BY DEF Passed, Request
<1>4. q.stage + 1 <= Len(Chain[q.route])
  BY <1>3, OnChain, RouteTypes
<1> QED BY <1>1, <1>2, <1>4, <1>5, <1>7

LEMMA CheckEffect ==
  ASSUME TypeOK, NEW r \in Requests, Checks(r)
  PROVE  /\ Checking(request[r])
         /\ UNCHANGED <<rigid, up, window, restarts, watch>>
         /\ \E n \in Request :
              /\ request' = [request EXCEPT ![r] = n]
              /\ n.route = request[r].route /\ n.replica = request[r].replica
              /\ n.stage = request[r].stage
              /\ n.session = request[r].session
              /\ n.lookupFailed = request[r].lookupFailed
              /\ n.admin = request[r].admin /\ n.saw = request[r].saw
              /\ "database" \in n.checks => \/ "database" \in request[r].checks
                                            \/ registered /\ "database" \in up
              /\ "redis" \in n.checks => \/ "redis" \in request[r].checks
                                         \/ "redis" \in up
<1>0. request[r] \in Request
  BY DEF TypeOK
<1>1. ASSUME NEW step \in {0, 1}, NEW more \in SUBSET Backends,
             Checking(request[r]), request[r].step = step,
             request' = [request EXCEPT ![r].step = @ + 1, ![r].checks = more],
             UNCHANGED <<rigid, up, window, restarts, watch>>,
             \A x \in more : \/ x \in request[r].checks
                             \/ x \in up /\ (x = "database" => registered)
      PROVE  /\ Checking(request[r])
             /\ UNCHANGED <<rigid, up, window, restarts, watch>>
             /\ \E n \in Request :
                  /\ request' = [request EXCEPT ![r] = n]
                  /\ n.route = request[r].route /\ n.replica = request[r].replica
                  /\ n.stage = request[r].stage
                  /\ n.session = request[r].session
                  /\ n.lookupFailed = request[r].lookupFailed
                  /\ n.admin = request[r].admin /\ n.saw = request[r].saw
                  /\ "database" \in n.checks => \/ "database" \in request[r].checks
                                                \/ registered /\ "database" \in up
                  /\ "redis" \in n.checks => \/ "redis" \in request[r].checks
                                             \/ "redis" \in up
  <2> DEFINE n == [request[r] EXCEPT !.step = step + 1, !.checks = more]
  <2>2. request' = [request EXCEPT ![r] = n]
    BY <1>0, <1>1 DEF TypeOK
  <2>5. step + 1 \in 0 .. 2
    OBVIOUS
  <2>6. n \in Request
    BY <1>0, <2>5 DEF Request
  <2>4. /\ n.route = request[r].route /\ n.replica = request[r].replica
        /\ n.stage = request[r].stage
        /\ n.session = request[r].session
        /\ n.lookupFailed = request[r].lookupFailed
        /\ n.admin = request[r].admin /\ n.saw = request[r].saw
        /\ n.checks = more
    BY <1>0 DEF Request
  <2> HIDE DEF n
  <2> QED BY <1>1, <2>2, <2>4, <2>6
<1>2. CASE CheckDatabase(r)
  <2> DEFINE answers == CanGet("DatabaseClient") /\ "database" \in up
             more == request[r].checks \cup (IF answers THEN {"database"} ELSE {})
  <2>1. Check(r, 0, "database", answers)
    BY <1>2 DEF CheckDatabase
  <2>2. /\ Checking(request[r]) /\ request[r].step = 0
        /\ request' = [request EXCEPT ![r].step = @ + 1, ![r].checks = more]
        /\ UNCHANGED <<rigid, up, window, restarts, watch>>
    BY <1>0, <2>1 DEF Check, Checking, Stage, TypeOK
  <2>3. answers => registered /\ "database" \in up
    BY DEF CanGet
  <2>4. CASE answers
    <3>1. more = request[r].checks \cup {"database"}
      BY <2>4
    <3> HIDE DEF more, answers
    <3>2. \A x \in more : \/ x \in request[r].checks
                          \/ x \in up /\ (x = "database" => registered)
      BY <2>3, <2>4, <3>1
    <3>3. more \in SUBSET Backends
      BY <1>0, <3>1 DEF Request, Backends
    <3> QED BY <1>1, <2>2, <3>2, <3>3
  <2>5. CASE ~answers
    <3>1. more = request[r].checks
      BY <2>5
    <3> HIDE DEF more, answers
    <3>2. more \in SUBSET Backends
      BY <1>0, <3>1 DEF Request
    <3>3. \A x \in more : x \in request[r].checks
      BY <3>1
    <3> QED BY <1>1, <2>2, <3>2, <3>3
  <2> QED BY <2>4, <2>5
<1>3. CASE CheckRedis(r)
  <2> DEFINE answers == "redis" \in up
             more == request[r].checks \cup (IF answers THEN {"redis"} ELSE {})
  <2>1. Check(r, 1, "redis", answers)
    BY <1>3 DEF CheckRedis
  <2>2. /\ Checking(request[r]) /\ request[r].step = 1
        /\ request' = [request EXCEPT ![r].step = @ + 1, ![r].checks = more]
        /\ UNCHANGED <<rigid, up, window, restarts, watch>>
    BY <1>0, <2>1 DEF Check, Checking, Stage, TypeOK
  <2>3. CASE answers
    <3>1. more = request[r].checks \cup {"redis"}
      BY <2>3
    <3>4. "redis" \in up /\ "redis" # "database"
      BY <2>3
    <3> HIDE DEF more, answers
    <3>2. \A x \in more : \/ x \in request[r].checks
                          \/ x \in up /\ (x = "database" => registered)
      BY <3>1, <3>4
    <3>3. more \in SUBSET Backends
      BY <1>0, <3>1 DEF Request, Backends
    <3> QED BY <1>1, <2>2, <3>2, <3>3
  <2>4. CASE ~answers
    <3>1. more = request[r].checks
      BY <2>4
    <3> HIDE DEF more, answers
    <3>2. more \in SUBSET Backends
      BY <1>0, <3>1 DEF Request
    <3>3. \A x \in more : x \in request[r].checks
      BY <3>1
    <3> QED BY <1>1, <2>2, <3>2, <3>3
  <2> QED BY <2>3, <2>4
<1> QED BY <1>2, <1>3 DEF Checks

LEMMA IdleOnChain == Idle.stage <= Len(Chain[Idle.route])
  BY IdleType, RouteTypes

LEMMA RequestType ==
  ASSUME TypeOK, [Next]_vars
  PROVE  RequestsTyped'
<1>1. ASSUME NEW r \in Requests, Arrive(r) PROVE RequestsTyped'
  <2>1. PICK route \in scenario.routes, p \in scenario.replicas :
          request' = [request EXCEPT ![r] =
              [Idle EXCEPT !.route = route, !.replica = p, !.stage = 1]]
    BY <1>1 DEF Arrive
  <2>2. route \in Routes /\ p \in Replicas
    BY DEF TypeOK
  <2> DEFINE n == [Idle EXCEPT !.route = route, !.replica = p, !.stage = 1]
  <2>3. n \in Request /\ n.route = route /\ n.stage = 1
    BY <2>2, IdleType DEF Request
  <2>4. request' = [request EXCEPT ![r] = n]
    BY <2>1
  <2> HIDE DEF n
  <2>5. n.stage <= Len(Chain[n.route])
    BY <2>2, <2>3, RouteTypes
  <2> QED BY <2>3, <2>4, <2>5, MoveOne
<1>2. ASSUME NEW r \in Requests, Step(r) PROVE RequestsTyped'
  <2>1. CASE Passes(r)
    BY <2>1, PassEffect, MoveOne DEF Passes
  <2>2. CASE Respond(r)
    BY <2>2, IdleType, IdleOnChain, MoveOne DEF Respond
  <2>3. CASE Checks(r)
    BY <2>3, CheckEffect, MoveOne DEF TypeOK
  <2> QED BY <1>2, <2>1, <2>2, <2>3, StepKinds
<1>3. ASSUME NEW b \in Backends, ComeUp(b) PROVE RequestsTyped'
  <2> SUFFICES ASSUME NEW s \in Requests
               PROVE  /\ request'[s] \in Request
                      /\ request'[s].stage = request[s].stage
                      /\ request'[s].route = request[s].route
    BY <1>3 DEF ComeUp, TypeOK, RequestsTyped
  <2>1. request[s] \in Request
    BY DEF TypeOK
  <2>2. \/ request'[s] = request[s]
        \/ request'[s] = [request[s] EXCEPT !.saw = request[s].saw \cup {b}]
    BY <1>3 DEF ComeUp
  <2> QED BY <2>1, <2>2 DEF Request
<1>4. ASSUME NEW p, Restart(p) PROVE RequestsTyped'
  <2>1. /\ request' = [r \in Requests |->
               IF request[r].replica = p THEN Idle ELSE request[r]]
    BY <1>4 DEF Restart
  <2>2. \A r \in Requests : request'[r] = Idle \/ request'[r] = request[r]
    BY <2>1
  <2> QED BY <2>1, <2>2, IdleType, IdleOnChain DEF TypeOK, RequestsTyped
<1>5. CASE request' = request
  BY <1>5 DEF TypeOK, RequestsTyped
<1> QED
  BY <1>1, <1>2, <1>3, <1>4, <1>5 DEF Next, StartWatch, GoDown, Tick, vars

LEMMA HitType ==
  ASSUME TypeOK, NEW p \in Replicas, NEW l \in Limiters
  PROVE  /\ Hit(p, l) \in Window
         /\ Hit(p, l).replica = p /\ Hit(p, l).limiter = l
<1>1. Budget(l) \in 1 .. BudgetCap /\ Length(l) \in Nat \ {0}
  BY LimiterTypes
<1>2. CASE Windows(p, l) = {}
  BY <1>1, <1>2 DEF Hit, Window
<1>3. CASE Windows(p, l) # {}
  <2>1. PICK w \in Windows(p, l) :
          Hit(p, l) = [w EXCEPT !.hits = IF @ > Budget(l) THEN @ ELSE @ + 1]
    BY <1>3 DEF Hit
  <2>2. w \in Window /\ w.replica = p /\ w.limiter = l
    BY DEF Windows, TypeOK
  <2> QED BY <1>1, <2>1, <2>2 DEF Window
<1> QED BY <1>2, <1>3

LEMMA WindowType ==
  ASSUME TypeOK, [Next]_vars
  PROVE  window' \subseteq Window
<1>1. ASSUME NEW r \in Requests, CountHit(r) PROVE window' \subseteq Window
  <2>1. request[r].replica \in Replicas /\ Stage(r) \in Limiters
    BY <1>1 DEF CountHit, TypeOK, Request
  <2>2. window' = (window \ Windows(request[r].replica, Stage(r)))
                     \cup {Hit(request[r].replica, Stage(r))}
    BY <1>1 DEF CountHit
  <2> QED BY <2>1, <2>2, HitType DEF TypeOK
<1>2. CASE Tick
  <2>1. window' = {[w EXCEPT !.left = @ - 1] : w \in {v \in window : v.left > 1}}
    BY <1>2 DEF Tick
  <2>2. ASSUME NEW w \in Window, w.left > 1
        PROVE  [w EXCEPT !.left = @ - 1] \in Window
    BY <2>2 DEF Window
  <2> QED BY <2>1, <2>2 DEF TypeOK
<1>3. CASE window' \subseteq window
  BY <1>3 DEF TypeOK
<1> QED
  BY <1>1, <1>2, <1>3, StepKinds
  DEF Next, Arrive, StartWatch, GoDown, ComeUp, Restart, vars

LEMMA WatchType ==
  ASSUME TypeOK, [Next]_vars
  PROVE  watch' \in Watch
<1>0. watch \in Watch /\ Unwatched \in Watch
  BY DEF TypeOK, Watch, Unwatched
<1>1. ASSUME NEW r \in Requests, Step(r) PROVE watch' \in Watch
  <2>1. watch' = watch \/ watch' = [watch EXCEPT !.runs = @ + 1]
    BY <1>1, StepKinds
       DEF Passes, GoOn, Observed, Respond, Checks, CheckDatabase, CheckRedis, Check
  <2> QED BY <1>0, <2>1 DEF Watch
<1>2. CASE StartWatch
  <2> DEFINE C == {r \in Requests : Stage(r) = "captcha"}
  <2>1. Cardinality(C) \in Nat
    BY FS_Subset, FS_CardinalityType
  <2>2. watch' = [Unwatched EXCEPT !.state = "on", !.carried = Cardinality(C)]
    BY <1>2 DEF StartWatch
  <2> HIDE DEF C
  <2> QED BY <1>0, <2>1, <2>2 DEF Watch
<1>3. CASE Tick
  <2>1. \/ watch' = watch
        \/ watch' = [Unwatched EXCEPT !.state = "after"]
        \/ watch' = [watch EXCEPT !.age = @ + 1]
    BY <1>3 DEF Tick
  <2> QED BY <1>0, <2>1 DEF Watch
<1>4. ASSUME NEW p, Restart(p) PROVE watch' \in Watch
  <2>1. watch' = watch \/ watch' = [watch EXCEPT !.restarts = @ + 1]
    BY <1>4 DEF Restart
  <2> QED BY <1>0, <2>1 DEF Watch
<1>5. CASE watch' = watch
  BY <1>0, <1>5
<1> QED
  BY <1>1, <1>2, <1>3, <1>4, <1>5 DEF Next, Arrive, GoDown, ComeUp, vars

\* The rest changes in few steps.
LEMMA NextType == TypeOK /\ [Next]_vars => TypeOK'
<1> SUFFICES ASSUME TypeOK, [Next]_vars PROVE TypeOK'
  OBVIOUS
<1>1. RequestsTyped' /\ window' \subseteq Window /\ watch' \in Watch
  BY RequestType, WindowType, WatchType
<1>2. /\ UNCHANGED rigid
      /\ up' \subseteq Backends
      /\ restarts' \in 0 .. MaxRestarts
  <2>1. ASSUME NEW r \in Requests, Step(r) PROVE UNCHANGED <<rigid, up, restarts>>
    BY <2>1, StepKinds DEF Passes, GoOn, Respond, Checks, CheckDatabase, CheckRedis, Check
  <2>2. CASE UNCHANGED <<rigid, up, restarts>>
    BY <2>2 DEF rigid, TypeOK
  <2>3. ASSUME NEW b \in Backends, GoDown(b) \/ ComeUp(b)
        PROVE  /\ UNCHANGED rigid /\ UNCHANGED restarts
               /\ up' \subseteq Backends
    BY <2>3 DEF GoDown, ComeUp, rigid, TypeOK
  <2>4. ASSUME NEW p, Restart(p)
        PROVE  /\ UNCHANGED rigid /\ UNCHANGED up
               /\ restarts' \in 0 .. MaxRestarts
    BY <2>4 DEF Restart, rigid, TypeOK
  <2>5. CASE \E b \in Backends : GoDown(b) \/ ComeUp(b)
    BY <2>3, <2>5 DEF TypeOK
  <2>6. CASE \E p \in scenario.replicas : Restart(p)
    BY <2>4, <2>6 DEF TypeOK
  <2> QED
    BY <2>1, <2>2, <2>5, <2>6 DEF Next, Arrive, StartWatch, Tick, vars
<1> QED BY <1>1, <1>2 DEF TypeOK, RequestsTyped, rigid

LEMMA InitType == Init => TypeOK
  BY IdleType, IdleOnChain DEF Init, TypeOK, Watch, Unwatched

\* Every variable has its type; in particular no request ever goes on behind
\* the handler of its route.
THEOREM TypeCorrect == Spec => []TypeOK
  BY InitType, NextType, PTL DEF Spec

----------------------------------------------------------------------------
(* The gates, and readiness.                                                *)

\* The three chains of which the properties need more.
LEMMA NamedChains ==
  /\ Chain["login"] = <<"validate", "loginLimiter", "captcha", "handler">>
  /\ Chain["mfaVerify"] = <<"loginLimiter", "handler">>
  /\ Chain["ready"] = <<"healthLimiter", "handler">>
<1>1. ASSUME NEW R \in Routers
      PROVE  /\ "login" \in DOMAIN R \/ "mfaVerify" \in DOMAIN R => R = authRouter
             /\ "ready" \in DOMAIN R => R = healthRouter
  BY DEF Routers, authRouter, profileRouter, sessionRouter, totpRouter, otpRouter,
         adminRouter, permissionRouter, rbacRouter, healthRouter
<1>2. ASSUME NEW route \in Routes
      PROVE  \E R \in Routers : route \in DOMAIN R /\ Chain[route] = R[route]
  BY DEF Routes, Chain
<1>3. /\ Chain["login"] = authRouter["login"]
      /\ Chain["mfaVerify"] = authRouter["mfaVerify"]
      /\ Chain["ready"] = healthRouter["ready"]
  BY <1>1, <1>2, RouteTypes
<1>4. /\ authRouter["login"] = <<"validate", "loginLimiter", "captcha", "handler">>
      /\ authRouter["mfaVerify"] = <<"loginLimiter", "handler">>
      /\ healthRouter["ready"] = <<"healthLimiter", "handler">>
  BY DEF authRouter, healthRouter, MfaVerify
<1> QED BY <1>3, <1>4

\* A request that has arrived at /ready is not at its handler yet.
LEMMA ReadyStage ==
  ASSUME NEW q, q.route = "ready", q.stage <= 1, q.stage \in Nat
  PROVE  ~Checking(q)
<1> DEFINE c == <<"healthLimiter", "handler">>
<1>1. c[1] = "healthLimiter" /\ Chain[q.route] = c
  BY NamedChains
<1> HIDE DEF c
<1>2. CASE q.stage \in 1 .. Len(Chain[q.route])
  BY <1>1, <1>2 DEF Checking, StageAt
<1>3. CASE q.stage \notin 1 .. Len(Chain[q.route])
  BY <1>3 DEF Checking, StageAt
<1> QED BY <1>2, <1>3

\* A request at the beginning of a chain.
LEMMA FreshOK ==
  ASSUME NEW q \in Request, q.stage \in {0, 1}, q.step = 0, q.checks = {}
  PROVE  GateOK(q) /\ ReadyOK(q)
<1>1. GateOK(q)
  BY DEF GateOK
<1>2. ~Checking(q)
  BY ReadyStage DEF Checking
<1> QED BY <1>1, <1>2 DEF ReadyOK

\* One request becomes n, the others keep what they have.
LEMMA OneOK ==
  ASSUME TypeOK, RequestsOK, NEW r \in Requests, NEW n \in Request,
         n.stage <= Len(Chain[n.route]), request' = [request EXCEPT ![r] = n],
         UNCHANGED <<registered, up>>, GateOK(n), ReadyOK(n)
  PROVE  RequestsOK'
<1> SUFFICES ASSUME NEW s \in Requests
             PROVE  GateOK(request[s])' /\ ReadyOK(request[s])'
  BY DEF RequestsOK
<1>1. request'[s] = n \/ request'[s] = request[s]
  BY MoveOne
<1>2. GateOK(request'[s]) /\ ReadyOK(request'[s])
  BY <1>1 DEF RequestsOK
<1> QED BY <1>2 DEF GateOK, ReadyOK, Checking, StageAt

LEMMA PassedOK ==
  ASSUME TypeOK, RequestsOK, NEW r \in Requests, Passes(r)
  PROVE  RequestsOK'
<1>1. PICK q \in Request : Passed(r, q) /\ GoOn(r, q)
  BY DEF Passes
<1>2. PICK n \in Request :
            /\ request' = [request EXCEPT ![r] = n]
            /\ n.route = q.route /\ n.stage = q.stage + 1
            /\ n.stage <= Len(Chain[n.route])
            /\ n.session = q.session /\ n.lookupFailed = q.lookupFailed
            /\ n.admin = q.admin /\ n.step = q.step /\ n.checks = q.checks
            /\ n.saw = IF q.route = "ready" THEN up ELSE {}
  BY <1>1, PassEffect
<1>3. /\ Stage(r) = Chain[n.route][q.stage]
      /\ n.route = request[r].route /\ q.stage = request[r].stage
      /\ q.stage \in Nat \ {0} /\ n.stage - 1 = q.stage
      /\ GateOK(request[r]) /\ ReadyOK(request[r])
      /\ n.step = request[r].step /\ n.checks = request[r].checks
  BY <1>1, <1>2, OnChain, RouteTypes DEF Passed, RequestsOK, Request
<1>4. GateOK(n)
  <2> SUFFICES ASSUME NEW i \in 1 .. q.stage
               PROVE  /\ Chain[n.route][i] = "auth" =>
                            /\ n.session \in {"live", "over"}
                            /\ n.session = "over" => n.lookupFailed
                      /\ Chain[n.route][i] = "role" => n.admin /\ registered
    BY <1>3 DEF GateOK
  <2>1. CASE i = q.stage
    BY <1>1, <1>2, <1>3, <2>1 DEF Passed
  <2>2. CASE i < q.stage
    <3>1. i \in 1 .. request[r].stage - 1
      BY <1>3, <2>2
    <3>2. /\ Chain[n.route][i] = "auth" =>
                /\ request[r].session \in {"live", "over"}
                /\ request[r].session = "over" => request[r].lookupFailed
          /\ Chain[n.route][i] = "role" => request[r].admin /\ registered
      BY <1>3, <3>1 DEF GateOK
    <3>3. CASE Stage(r) = "auth"
      BY <1>1, <1>2, <3>2, <3>3 DEF Passed
    <3>4. CASE Stage(r) = "role"
      BY <1>1, <1>2, <3>2, <3>4 DEF Passed
    <3>5. CASE Stage(r) \notin {"auth", "role"}
      BY <1>1, <1>2, <3>2, <3>5 DEF Passed
    <3> QED BY <3>3, <3>4, <3>5
  <2> QED BY <1>3, <2>1, <2>2
<1>5. ReadyOK(n)
  <2>1. Stage(r) # "handler"
    BY <1>1 DEF Passed
  <2>2. ~Checking(request[r])
    BY <2>1 DEF Checking, Stage
  <2>3. ~(n.step > 0) /\ n.checks = {}
    BY <1>3, <2>2 DEF ReadyOK
  <2> QED BY <1>2, <2>3 DEF ReadyOK, Checking
<1>6. UNCHANGED <<registered, up>>
  BY <1>1 DEF GoOn, rigid
<1> QED BY <1>2, <1>4, <1>5, <1>6, OneOK

LEMMA RequestsNext == TypeOK /\ RequestsOK /\ [Next]_vars => RequestsOK'
<1> SUFFICES ASSUME TypeOK, RequestsOK, [Next]_vars PROVE RequestsOK'
  OBVIOUS
<1>1. ASSUME NEW r \in Requests, Arrive(r) PROVE RequestsOK'
  <2>1. PICK route \in scenario.routes, p \in scenario.replicas :
          request' = [request EXCEPT ![r] =
              [Idle EXCEPT !.route = route, !.replica = p, !.stage = 1]]
    BY <1>1 DEF Arrive
  <2>2. route \in Routes /\ p \in Replicas
    BY DEF TypeOK
  <2> DEFINE n == [Idle EXCEPT !.route = route, !.replica = p, !.stage = 1]
  <2>3. /\ n \in Request /\ n.route = route /\ n.stage = 1
        /\ n.step = 0 /\ n.checks = {}
    BY <2>2, IdleType DEF Request
  <2>4. request' = [request EXCEPT ![r] = n]
    BY <2>1
  <2> HIDE DEF n
  <2>5. n.stage <= Len(Chain[n.route])
    BY <2>2, <2>3, RouteTypes
  <2>6. UNCHANGED <<registered, up>>
    BY <1>1 DEF Arrive, rigid
  <2> QED BY <2>3, <2>4, <2>5, <2>6, FreshOK, OneOK
<1>2. ASSUME NEW r \in Requests, Step(r) PROVE RequestsOK'
  <2>1. CASE Passes(r)
    BY <2>1, PassedOK
  <2>2. CASE Respond(r)
    <3>1. request' = [request EXCEPT ![r] = Idle] /\ UNCHANGED <<registered, up>>
      BY <2>2 DEF Respond, rigid
    <3>2. GateOK(Idle) /\ ReadyOK(Idle)
      BY IdleType, FreshOK
    <3> QED BY <3>1, <3>2, IdleType, IdleOnChain, OneOK
  <2>3. CASE Checks(r)
    <3>1. PICK n \in Request :
              /\ request' = [request EXCEPT ![r] = n]
              /\ n.route = request[r].route /\ n.stage = request[r].stage
              /\ n.session = request[r].session
              /\ n.lookupFailed = request[r].lookupFailed
              /\ n.admin = request[r].admin /\ n.saw = request[r].saw
              /\ "database" \in n.checks => \/ "database" \in request[r].checks
                                            \/ registered /\ "database" \in up
              /\ "redis" \in n.checks => \/ "redis" \in request[r].checks
                                         \/ "redis" \in up
      BY <2>3, CheckEffect
    <3>2. Checking(request[r]) /\ UNCHANGED <<registered, up>>
      BY <2>3, CheckEffect DEF rigid
    <3>3. GateOK(request[r]) /\ ReadyOK(request[r])
      BY DEF RequestsOK
    <3>4. GateOK(n) /\ ReadyOK(n)
      BY <3>1, <3>2, <3>3 DEF GateOK, ReadyOK, Checking, StageAt
    <3>5. n.stage <= Len(Chain[n.route])
      BY <3>1 DEF TypeOK
    <3> QED BY <3>1, <3>2, <3>4, <3>5, OneOK
  <2> QED BY <1>2, <2>1, <2>2, <2>3, StepKinds
<1>3. ASSUME NEW b \in Backends, ComeUp(b) PROVE RequestsOK'
  <2> SUFFICES ASSUME NEW s \in Requests
               PROVE  GateOK(request[s])' /\ ReadyOK(request[s])'
    BY DEF RequestsOK
  <2>1. request[s] \in Request /\ GateOK(request[s]) /\ ReadyOK(request[s])
    BY DEF TypeOK, RequestsOK
  <2>2. up' = up \cup {b} /\ registered' = registered
    BY <1>3 DEF ComeUp, rigid
  <2>3. CASE Checking(request[s])
    <3> DEFINE n == [request[s] EXCEPT !.saw = request[s].saw \cup {b}]
    <3>1. request'[s] = n
      BY <1>3, <2>3 DEF ComeUp, Checking, Stage
    <3>2. /\ n.route = request[s].route /\ n.stage = request[s].stage
          /\ n.session = request[s].session
          /\ n.lookupFailed = request[s].lookupFailed
          /\ n.admin = request[s].admin /\ n.step = request[s].step
          /\ n.checks = request[s].checks /\ n.saw = request[s].saw \cup {b}
      BY <2>1 DEF Request
    <3> HIDE DEF n
    <3> QED BY <2>1, <2>2, <2>3, <3>1, <3>2 DEF GateOK, ReadyOK, Checking, StageAt
  <2>4. CASE ~Checking(request[s])
    <3>1. request'[s] = request[s]
      BY <1>3, <2>4 DEF ComeUp, Checking, Stage
    <3> QED BY <2>1, <2>2, <2>4, <3>1 DEF GateOK, ReadyOK, Checking, StageAt
  <2> QED BY <2>3, <2>4
<1>4. ASSUME NEW p, Restart(p) PROVE RequestsOK'
  <2>1. /\ \A s \in Requests : request'[s] \in {Idle, request[s]}
        /\ UNCHANGED <<registered, up>>
    BY <1>4 DEF Restart, rigid
  <2>2. \A s \in Requests : GateOK(request'[s]) /\ ReadyOK(request'[s])
    BY <2>1, IdleType, FreshOK DEF RequestsOK
  <2> QED BY <2>1, <2>2 DEF RequestsOK, GateOK, ReadyOK, Checking, StageAt
<1>5. CASE request' = request /\ registered' = registered /\ up' \subseteq up
  BY <1>5 DEF RequestsOK, GateOK, ReadyOK, Checking, StageAt
<1> QED
  BY <1>1, <1>2, <1>3, <1>4, <1>5 DEF Next, StartWatch, GoDown, Tick, vars, rigid

LEMMA AlwaysRequestsOK == Spec => [](TypeOK /\ RequestsOK)
<1>1. Init => RequestsOK
  <2> SUFFICES ASSUME Init, NEW s \in Requests
               PROVE  GateOK(request[s]) /\ ReadyOK(request[s])
    BY DEF RequestsOK
  <2>1. request[s] = Idle
    BY DEF Init
  <2> QED BY <2>1, IdleType, FreshOK
<1> QED BY <1>1, InitType, NextType, RequestsNext, PTL DEF Spec

\* No handler for administrators ever runs but for an administrator, and none
\* for users but with a verified token, although authMiddleware goes on when it
\* cannot look up the session.
THEOREM GatesAlwaysHold == Spec => []GatesHold
<1>1. TypeOK /\ RequestsOK => GatesHold
  <2> SUFFICES ASSUME TypeOK, RequestsOK, NEW r \in Requests, Stage(r) = "handler"
               PROVE  /\ request[r].route \in OfUsers =>
                            /\ request[r].session \in {"live", "over"}
                            /\ request[r].session = "over"
                                  => request[r].lookupFailed
                      /\ request[r].route \in OfAdministrators =>
                            request[r].admin /\ registered
    BY DEF GatesHold
  <2>1. /\ request[r].stage = Len(Chain[request[r].route])
        /\ request[r].route \in Routes
    BY OnChain DEF Request
  <2>2. ChainOK(request[r].route, Chain[request[r].route]) /\ GateOK(request[r])
    BY <2>1, ChainsOK DEF RequestsOK
  <2> QED BY <2>1, <2>2 DEF ChainOK, GateOK
<1> QED BY <1>1, AlwaysRequestsOK, PTL

\* /ready only says what was so at some instant of the request, of each backend
\* and of the services, although backends come and go between its checks.
THEOREM ReadyAlwaysJustified == Spec => []ReadyJustified
<1>1. TypeOK /\ RequestsOK => ReadyJustified
  <2> SUFFICES ASSUME TypeOK, RequestsOK, NEW r \in Requests,
                      request[r].checks = Backends
               PROVE  registered /\ request[r].saw = Backends
    BY DEF ReadyJustified
  <2>1. ReadyOK(request[r]) /\ request[r].saw \subseteq Backends
    BY DEF TypeOK, RequestsOK, Request
  <2>2. Backends = {"database", "redis"}
    BY DEF Backends
  <2> QED BY <2>1, <2>2 DEF ReadyOK
<1> QED BY <1>1, AlwaysRequestsOK, PTL

----------------------------------------------------------------------------
(* The bound on guesses: windows.                                           *)

\* A hit counts in the window that is open, or opens one.
LEMMA HitEffect ==
  ASSUME TypeOK, NEW p \in Replicas, NEW l \in Limiters
  PROVE  \/ /\ Windows(p, l) = {}
            /\ Hit(p, l).hits = 1 /\ Hit(p, l).left = Length(l)
         \/ \E v \in Windows(p, l) :
               /\ Hit(p, l).left = v.left
               /\ Hit(p, l).hits = IF v.hits > Budget(l) THEN v.hits ELSE v.hits + 1
<1>1. CASE Windows(p, l) = {}
  BY <1>1 DEF Hit
<1>2. CASE Windows(p, l) # {}
  <2>1. PICK v \in Windows(p, l) :
          Hit(p, l) = [v EXCEPT !.hits = IF @ > Budget(l) THEN @ ELSE @ + 1]
    BY <1>2 DEF Hit
  <2>2. v \in Window
    BY DEF Windows, TypeOK
  <2> QED BY <2>1, <2>2 DEF Window
<1> QED BY <1>1, <1>2

\* The windows of one replica and one limiter after a hit.
LEMMA HitWindows ==
  ASSUME TypeOK, NEW p \in Replicas, NEW l \in Limiters,
         window' = (window \ Windows(p, l)) \cup {Hit(p, l)},
         NEW o, NEW k
  PROVE  Windows(o, k)' = IF o = p /\ k = l THEN {Hit(p, l)} ELSE Windows(o, k)
<1>1. Hit(p, l).replica = p /\ Hit(p, l).limiter = l
  BY HitType
<1> QED BY <1>1 DEF Windows

LEMMA WindowsNext ==
  ASSUME TypeOK, WindowsOK, [Next]_vars
  PROVE  WindowsOK'
<1>1. ASSUME NEW r \in Requests, CountHit(r) PROVE WindowsOK'
  <2>1. PICK p \in Replicas, l \in Limiters :
           window' = (window \ Windows(p, l)) \cup {Hit(p, l)}
    BY <1>1 DEF CountHit, TypeOK, Request
  <2>2. Hit(p, l).replica = p /\ Hit(p, l).limiter = l
    BY HitType
  <2>3. Hit(p, l).left <= Length(l)
    <3>1. Length(l) \in Nat
      BY LimiterTypes
    <3> QED BY <3>1, HitEffect DEF Windows, WindowsOK
  <2> QED BY <2>1, <2>2, <2>3 DEF WindowsOK, Windows
<1>2. CASE Tick
  <2>1. window' = {[w EXCEPT !.left = @ - 1] : w \in {v \in window : v.left > 1}}
    BY <1>2 DEF Tick
  <2>2. ASSUME NEW w \in window
        PROVE  /\ [w EXCEPT !.left = @ - 1].replica = w.replica
               /\ [w EXCEPT !.left = @ - 1].limiter = w.limiter
               /\ [w EXCEPT !.left = @ - 1].left <= Length(w.limiter)
    <3>1. w \in Window /\ w.left <= Length(w.limiter)
      BY DEF TypeOK, WindowsOK
    <3>2. Length(w.limiter) \in Nat
      BY <3>1, LimiterTypes DEF Window
    <3> QED BY <3>1, <3>2 DEF Window
  <2>3. \A v \in window' : \E w \in window :
           /\ v = [w EXCEPT !.left = @ - 1]
           /\ v.replica = w.replica /\ v.limiter = w.limiter
           /\ v.left <= Length(v.limiter)
    <3> TAKE v \in window'
    <3>1. PICK w \in window : v = [w EXCEPT !.left = @ - 1]
      BY <2>1
    <3>2. /\ v.replica = w.replica /\ v.limiter = w.limiter
          /\ v.left <= Length(w.limiter)
      BY <2>2, <3>1
    <3> QED BY <3>1, <3>2
  <2> QED BY <2>3 DEF WindowsOK
<1>3. CASE window' \subseteq window
  BY <1>3 DEF WindowsOK
<1> QED
  BY <1>1, <1>2, <1>3, StepKinds
  DEF Next, Arrive, StartWatch, GoDown, ComeUp, Restart, vars

LEMMA PlacesNext ==
  ASSUME TypeOK, PlacesOK, [Next]_vars
  PROVE  PlacesOK' /\ scenario' = scenario
<1> DEFINE Here(q) == StageAt(q, q.stage) # "none" => q.replica \in scenario.replicas
<1>0. scenario' = scenario
  <2>1. ASSUME NEW r \in Requests, Step(r) PROVE scenario' = scenario
    BY <2>1, StepKinds, CheckEffect DEF Passes, GoOn, Respond, rigid
  <2> QED BY <2>1 DEF Next, Arrive, StartWatch, GoDown, ComeUp, Tick, Restart, vars, rigid
<1>1. \A r \in Requests : Here(request[r])
  BY DEF PlacesOK, Stage
<1>2. ASSUME \A r \in Requests : Here(request'[r]) PROVE PlacesOK'
  BY <1>0, <1>2 DEF PlacesOK, Stage, StageAt
<1>3. Here(Idle)
  BY IdleType DEF StageAt
<1>4. ASSUME NEW r \in Requests, NEW n \in Request, n.stage <= Len(Chain[n.route]),
             request' = [request EXCEPT ![r] = n], n.replica \in scenario.replicas
      PROVE  PlacesOK'
  <2>1. \A s \in Requests : request'[s] = IF s = r THEN n ELSE request[s]
    BY <1>4, MoveOne
  <2> QED BY <1>1, <1>2, <1>4, <2>1
<1>5. ASSUME NEW r \in Requests, Step(r) PROVE PlacesOK'
  <2>1. CASE Passes(r)
    <3>1. PICK q \in Request : Passed(r, q) /\ GoOn(r, q)
      BY <2>1 DEF Passes
    <3>2. q.replica = request[r].replica /\ Stage(r) # "none"
      BY <3>1 DEF Passed
    <3>3. q.replica \in scenario.replicas
      BY <3>2 DEF PlacesOK
    <3> QED BY <1>4, <3>1, <3>3, PassEffect
  <2>2. CASE Respond(r)
    <3>1. \A s \in Requests : request'[s] = IF s = r THEN Idle ELSE request[s]
      BY <2>2, IdleType, IdleOnChain, MoveOne DEF Respond
    <3> QED BY <1>1, <1>2, <1>3, <3>1
  <2>3. CASE Checks(r)
    <3>1. PICK n \in Request :
              /\ request' = [request EXCEPT ![r] = n] /\ n.route = request[r].route
              /\ n.replica = request[r].replica /\ n.stage = request[r].stage
      BY <2>3, CheckEffect
    <3>2. StageAt(request[r], request[r].stage) = "handler"
      BY <2>3, CheckEffect DEF Checking
    <3>3. n.replica \in scenario.replicas /\ n.stage <= Len(Chain[n.route])
      BY <1>1, <3>1, <3>2 DEF TypeOK
    <3> QED BY <1>4, <3>1, <3>3
  <2> QED BY <1>5, <2>1, <2>2, <2>3, StepKinds
<1>6. ASSUME NEW r \in Requests, Arrive(r) PROVE PlacesOK'
  <2>1. PICK route \in scenario.routes, p \in scenario.replicas :
          request' = [request EXCEPT ![r] =
              [Idle EXCEPT !.route = route, !.replica = p, !.stage = 1]]
    BY <1>6 DEF Arrive
  <2>2. route \in Routes /\ p \in Replicas
    BY DEF TypeOK
  <2> DEFINE n == [Idle EXCEPT !.route = route, !.replica = p, !.stage = 1]
  <2>3. n \in Request /\ n.route = route /\ n.stage = 1 /\ n.replica = p
    BY <2>2, IdleType DEF Request
  <2>4. request' = [request EXCEPT ![r] = n]
    BY <2>1
  <2> HIDE DEF n
  <2>5. n.stage <= Len(Chain[n.route])
    BY <2>2, <2>3, RouteTypes
  <2> QED BY <1>4, <2>3, <2>4, <2>5
<1>7. ASSUME NEW b \in Backends, ComeUp(b) PROVE PlacesOK'
  <2>1. ASSUME NEW r \in Requests PROVE Here(request'[r])
    <3>1. request[r] \in Request
      BY DEF TypeOK
    <3>2. \/ request'[r] = request[r]
          \/ request'[r] = [request[r] EXCEPT !.saw = @ \cup {b}]
      BY <1>7 DEF ComeUp
    <3>3. /\ request'[r].route = request[r].route /\ request'[r].stage = request[r].stage
          /\ request'[r].replica = request[r].replica
      BY <3>1, <3>2 DEF Request
    <3> QED BY <1>1, <3>3 DEF StageAt
  <2> QED BY <1>2, <2>1
<1>8. ASSUME NEW p \in Replicas, Restart(p) PROVE PlacesOK'
  <2>1. \A r \in Requests : request'[r] = Idle \/ request'[r] = request[r]
    BY <1>8 DEF Restart
  <2> QED BY <1>1, <1>2, <1>3, <2>1
<1>9. ASSUME request' = request PROVE PlacesOK'
  <2>1. \A r \in Requests : request'[r] = request[r]
    BY <1>9
  <2> QED BY <1>1, <1>2, <2>1
<1>10. ASSUME NEW p \in scenario.replicas, Restart(p) PROVE PlacesOK'
  <2>1. p \in Replicas
    BY DEF TypeOK
  <2> QED BY <1>8, <1>10, <2>1
<1> QED
  BY <1>0, <1>5, <1>6, <1>7, <1>9, <1>10 DEF Next, StartWatch, GoDown, Tick, vars

----------------------------------------------------------------------------
(* The bound on guesses: sums.                                              *)

LEMMA Counts ==
  ASSUME TypeOK
  PROVE  /\ IsFiniteSet(Left) /\ IsFiniteSet(Later) /\ IsFiniteSet(Behind)
         /\ Cardinality(Left) \in Nat /\ Cardinality(Later) \in Nat
         /\ Cardinality(Behind) \in Nat
         /\ IsFiniteSet(Hits)
         /\ IsFiniteSet(scenario.replicas) /\ Cardinality(scenario.replicas) \in Nat
         /\ Budget("loginLimiter") \in Nat \ {0}
<1>1. Budget("loginLimiter") \in Nat \ {0}
  BY LimiterTypes
<1>2. /\ IsFiniteSet(1 .. Budget("loginLimiter"))
      /\ Cardinality(1 .. Budget("loginLimiter")) = Budget("loginLimiter")
  BY <1>1, FS_Interval
<1>3. IsFiniteSet(Hits)
  BY <1>2, FS_Product DEF Hits
<1>6. IsFiniteSet(scenario.replicas)
  <2>1. scenario.replicas \subseteq Replicas
    BY DEF TypeOK
  <2> QED BY <2>1, FS_Subset
<1>4. Left \subseteq Hits /\ Later \subseteq Hits /\ Behind \subseteq Requests
  BY DEF Left, Later, Behind
<1>5. IsFiniteSet(Left) /\ IsFiniteSet(Later) /\ IsFiniteSet(Behind)
  BY <1>3, <1>4, FS_Subset
<1> QED BY <1>1, <1>3, <1>5, <1>6, FS_CardinalityType

LEMMA CountsNext ==
  /\ IsFiniteSet(Left') /\ IsFiniteSet(Later') /\ IsFiniteSet(Behind')
  /\ Cardinality(Left') \in Nat /\ Cardinality(Later') \in Nat
  /\ Cardinality(Behind') \in Nat
<1>1. IsFiniteSet(Hits)
  <2>1. Budget("loginLimiter") \in Nat
    BY LimiterTypes
  <2>2. IsFiniteSet(1 .. Budget("loginLimiter"))
    BY <2>1, FS_Interval
  <2> QED BY <2>2, FS_Product DEF Hits
<1>2. Left' \subseteq Hits /\ Later' \subseteq Hits /\ Behind' \subseteq Requests
  BY DEF Left, Later, Behind, Hits
<1> QED BY <1>1, <1>2, FS_Subset, FS_CardinalityType

LEMMA AllowedType ==
  ASSUME TypeOK
  PROVE  Allowed \in Nat
<1> DEFINE B == Budget("loginLimiter")
           R == Cardinality(scenario.replicas)
<1>1. R \in Nat /\ B \in Nat \ {0} /\ watch.restarts \in Nat /\ watch.carried \in Nat
  BY Counts DEF TypeOK, Watch
<1> HIDE DEF B, R
<1>2. 2 * B - 1 \in Nat
  BY <1>1
<1>3. \A m, n \in Nat : m * n \in Nat
  OBVIOUS
<1>4. R * (2 * B - 1) \in Nat /\ B * watch.restarts \in Nat
  BY <1>1, <1>2, <1>3
<1>5. \A m, n \in Nat : m + n \in Nat
  OBVIOUS
<1>6. R * (2 * B - 1) + B * watch.restarts + watch.carried \in Nat
  BY <1>1, <1>4, <1>5, Zenon
<1> QED BY <1>6 DEF Allowed, B, R

\* What L loses or M hands over to L does not add to the two together.
LEMMA GivenBack ==
  ASSUME NEW L, NEW M, NEW N, NEW K, IsFiniteSet(L), IsFiniteSet(M),
         K \subseteq M, N \subseteq L \cup (M \ K)
  PROVE  Cardinality(N) + Cardinality(K) <= Cardinality(L) + Cardinality(M)
<1>1. /\ IsFiniteSet(K) /\ IsFiniteSet(M \ K)
      /\ Cardinality(M \ K) = Cardinality(M) - Cardinality(K)
  <2>1. M \cap K = K
    OBVIOUS
  <2> QED BY <2>1, FS_Subset, FS_Difference
<1>2. /\ IsFiniteSet(L \cup (M \ K)) /\ IsFiniteSet(L \cap (M \ K))
      /\ Cardinality(L \cup (M \ K)) = Cardinality(L) + Cardinality(M \ K)
                                       - Cardinality(L \cap (M \ K))
  <2>1. L \cap (M \ K) \subseteq L
    OBVIOUS
  <2> QED BY <1>1, <2>1, FS_Union, FS_Subset
<1>3. /\ IsFiniteSet(N)
      /\ Cardinality(N) <= Cardinality(L \cup (M \ K))
  BY <1>2, FS_Subset
<1>4. /\ Cardinality(L) \in Nat /\ Cardinality(M) \in Nat /\ Cardinality(K) \in Nat
      /\ Cardinality(N) \in Nat /\ Cardinality(M \ K) \in Nat
      /\ Cardinality(L \cap (M \ K)) \in Nat
  BY <1>1, <1>2, <1>3, FS_CardinalityType
<1> QED BY <1>1, <1>2, <1>3, <1>4

\* A step of the watch that keeps the sum and the bound.
LEMMA Balance ==
  ASSUME TypeOK, GuessInv, WindowsOK', PlacesOK', scenario' = scenario, watch.state = "on", watch'.state = "on",
         watch'.age < Length("loginLimiter"), watch'.carried = watch.carried,
         watch'.restarts = watch.restarts,
         watch'.runs + Cardinality(Behind') + Cardinality(Left')
                     + Cardinality(Later')
            <= watch.runs + Cardinality(Behind) + Cardinality(Left)
                          + Cardinality(Later),
         watch'.runs \in Nat, Cardinality(Behind') \in Nat,
         Cardinality(Left') \in Nat, Cardinality(Later') \in Nat
  PROVE  GuessInv'
<1>1. Allowed \in Int
  BY AllowedType
<1>2. /\ watch.runs \in Nat /\ Cardinality(Behind) \in Nat
      /\ Cardinality(Left) \in Nat /\ Cardinality(Later) \in Nat
  BY Counts DEF TypeOK, Watch
<1>3. watch.runs + Cardinality(Behind) + Cardinality(Left) + Cardinality(Later)
        <= Allowed
  BY DEF GuessInv
<1>4. Allowed' = Allowed
  BY DEF Allowed
<1>5. watch'.runs + Cardinality(Behind') + Cardinality(Left') + Cardinality(Later')
        <= Allowed
  BY <1>1, <1>2, <1>3
<1> QED BY <1>4, <1>5 DEF GuessInv

\* Steps that use nothing up and give nothing back.
LEMMA Quiet ==
  ASSUME TypeOK, TypeOK', GuessInv, WindowsOK', PlacesOK', scenario' = scenario, watch' = watch,
         Left' \subseteq Left, Later' \subseteq Later, Behind' \subseteq Behind
  PROVE  GuessInv'
<1>1. CASE watch.state # "on"
  BY <1>1 DEF GuessInv
<1>2. CASE watch.state = "on"
  <2>1. /\ Cardinality(Left') \in Nat /\ Cardinality(Left') <= Cardinality(Left)
        /\ Cardinality(Later') \in Nat /\ Cardinality(Later') <= Cardinality(Later)
        /\ Cardinality(Behind') \in Nat /\ Cardinality(Behind') <= Cardinality(Behind)
    BY Counts, FS_Subset, FS_CardinalityType
  <2>2. watch.runs \in Nat /\ watch.age < Length("loginLimiter")
    BY <1>2 DEF TypeOK, Watch, GuessInv
  <2> QED BY <1>2, <2>1, <2>2, Counts, Balance
<1> QED BY <1>1, <1>2

\* What is left follows from the windows of loginLimiter and the age.
LEMMA SameLeft ==
  ASSUME \A p \in Replicas : Windows(p, "loginLimiter")' = Windows(p, "loginLimiter"),
         watch'.age = watch.age, scenario' = scenario
  PROVE  Left' = Left /\ Later' = Later
<1>1. \A x \in Hits : x[1] \in Replicas
  BY DEF Hits
<1>2. Hits' = Hits
  BY DEF Hits
<1>3. Left' = Left
  BY <1>1, <1>2 DEF Left
<1>4. Later' = Later
  BY <1>1, <1>2 DEF Later
<1> QED BY <1>3, <1>4

\* A hit of loginLimiter that is not refused uses up one of those that are
\* left; one that is refused uses up none.
LEMMA LoginHit ==
  ASSUME TypeOK, WindowsOK, NEW p \in Replicas, scenario' = scenario,
         window' = (window \ Windows(p, "loginLimiter")) \cup {Hit(p, "loginLimiter")},
         watch'.age = watch.age, watch.age \in Nat, p \in scenario.replicas
  PROVE  /\ Left' \subseteq Left /\ Later' \subseteq Later
         /\ Hit(p, "loginLimiter").hits <= Budget("loginLimiter")
              => \E x \in Left : x \notin Left'
<1> DEFINE l == "loginLimiter"
           h == Hit(p, l)
<1>0. /\ l \in Limiters /\ Budget(l) \in Nat \ {0} /\ Length(l) \in Nat \ {0}
      /\ h.hits \in Nat \ {0}
  BY LimiterTypes, HitType DEF Window
<1>1. \A o \in Replicas : Windows(o, l)' = IF o = p THEN {h} ELSE Windows(o, l)
  BY <1>0, HitWindows
<1>2. \/ Windows(p, l) = {} /\ h.hits = 1 /\ h.left = Length(l)
      \/ \E v \in Windows(p, l) :
            h.left = v.left /\ h.hits = IF v.hits > Budget(l) THEN v.hits ELSE v.hits + 1
  BY <1>0, HitEffect
<1>3. \A v, w \in Windows(p, l) : v = w
  BY DEF Windows, WindowsOK
<1>4. \A v \in Windows(p, l) : v.hits \in Nat \ {0} /\ v.left \in Nat
  BY DEF Windows, TypeOK, Window
<1>5. \A x \in Hits : x[1] \in Replicas /\ x[2] \in 1 .. Budget(l)
  BY DEF Hits
<1>6. Hits' = Hits
  BY DEF Hits
<1> HIDE DEF h, l
<1>7. ASSUME NEW x \in Left' PROVE x \in Left
  <2>1. /\ x \in Hits /\ x[1] \in scenario.replicas
        /\ \A w \in Windows(x[1], l)' : w.hits < x[2]
    BY <1>6, <1>7 DEF Left, l
  <2>2. CASE x[1] = p
    <3>1. h.hits < x[2]
      BY <1>1, <1>5, <2>1, <2>2
    <3>2. \A w \in Windows(p, l) : w.hits < x[2]
      BY <1>0, <1>2, <1>3, <1>4, <1>5, <2>1, <3>1
    <3> QED BY <2>1, <2>2, <3>2 DEF Left, l
  <2>3. CASE x[1] # p
    BY <1>1, <1>5, <2>1, <2>3 DEF Left, l
  <2> QED BY <2>2, <2>3
<1>8. ASSUME NEW x \in Later' PROVE x \in Later
  <2>1. /\ x \in Hits /\ x[1] \in scenario.replicas
        /\ \E w \in Windows(x[1], l)' : w.left + watch.age < Length(l)
    BY <1>6, <1>8 DEF Later, l
  <2>2. CASE x[1] = p
    <3>1. h.left + watch.age < Length(l)
      BY <1>1, <1>5, <2>1, <2>2
    <3>2. \E v \in Windows(p, l) : v.left + watch.age < Length(l)
      BY <1>0, <1>2, <3>1
    <3> QED BY <2>1, <2>2, <3>2 DEF Later, l
  <2>3. CASE x[1] # p
    BY <1>1, <1>5, <2>1, <2>3 DEF Later, l
  <2> QED BY <2>2, <2>3
<1>9. ASSUME h.hits <= Budget(l) PROVE \E x \in Left : x \notin Left'
  <2> DEFINE x == <<p, h.hits>>
  <2>1. x \in Hits /\ x[1] = p /\ x[2] = h.hits
    BY <1>0, <1>9 DEF Hits, l
  <2> HIDE DEF x
  <2>2. \A w \in Windows(p, l) : w.hits < h.hits
    BY <1>0, <1>2, <1>3, <1>4, <1>9
  <2>3. x \in Left
    BY <2>1, <2>2 DEF Left, l
  <2>4. h \in Windows(p, l)' /\ ~(h.hits < h.hits)
    BY <1>0, <1>1
  <2>5. x \notin Left'
    BY <2>1, <2>4 DEF Left, l
  <2> QED BY <2>3, <2>5
<1> QED BY <1>7, <1>8, <1>9 DEF h, l

\* The way of a login and of its second half: from the limiter to the handler,
\* or to the CAPTCHA and from there to the handler.
LEMMA CredentialStages ==
  ASSUME NEW q, q.route \in Credentials, q.stage \in 1 .. Len(Chain[q.route]) - 1
  PROVE  LET here == Chain[q.route][q.stage]
             next == StageAt(q, q.stage + 1)
         IN  \/ here = "validate" /\ next = "loginLimiter"
             \/ here = "loginLimiter" /\ next \in {"captcha", "handler"}
             \/ here = "captcha" /\ next = "handler"
<1> DEFINE c == <<"validate", "loginLimiter", "captcha", "handler">>
           d == <<"loginLimiter", "handler">>
<1>1. /\ Len(c) = 4 /\ c[1] = "validate" /\ c[2] = "loginLimiter" /\ c[3] = "captcha"
      /\ c[4] = "handler"
      /\ Len(d) = 2 /\ d[1] = "loginLimiter" /\ d[2] = "handler"
  OBVIOUS
<1>2. \/ q.route = "login" /\ Chain[q.route] = c
      \/ q.route = "mfaVerify" /\ Chain[q.route] = d
  BY NamedChains DEF Credentials
<1> HIDE DEF c, d
<1>3. CASE Chain[q.route] = c
  <2>0. Len(Chain[q.route]) = 4
    BY <1>1, <1>3
  <2>1. q.stage = 1 \/ q.stage = 2 \/ q.stage = 3
    BY <2>0
  <2> QED BY <1>1, <1>3, <2>0, <2>1 DEF StageAt
<1>4. CASE Chain[q.route] = d
  <2>0. Len(Chain[q.route]) = 2
    BY <1>1, <1>4
  <2>1. q.stage = 1
    BY <2>0
  <2> QED BY <1>1, <1>4, <2>0, <2>1 DEF StageAt
<1> QED BY <1>2, <1>3, <1>4

\* A request that goes on runs a handler or waits behind the limiter only at
\* the price of a hit, or because it waited there.
LEMMA PassCounts ==
  ASSUME TypeOK, TypeOK', NEW r \in Requests, Passes(r)
  PROVE  /\ watch'.state = watch.state /\ watch'.age = watch.age
         /\ watch'.carried = watch.carried /\ watch'.restarts = watch.restarts
         /\ watch.state # "on" => watch' = watch
         /\ watch.state = "on" =>
               watch'.runs + Cardinality(Behind')
                  <= watch.runs + Cardinality(Behind)
                        + IF Stage(r) = "loginLimiter" THEN 1 ELSE 0
<1>1. PICK q \in Request : Passed(r, q) /\ GoOn(r, q)
  BY DEF Passes
<1>2. PICK n \in Request :
            /\ request' = [request EXCEPT ![r] = n]
            /\ n.route = q.route /\ n.stage = q.stage + 1
  BY <1>1, PassEffect
<1> DEFINE cred == request[r].route \in Credentials
           next == StageAt(request[r], request[r].stage + 1)
           runs == cred /\ next = "handler"
<1>3. watch' = IF watch.state = "on" /\ runs THEN [watch EXCEPT !.runs = @ + 1]
               ELSE watch
  BY <1>1 DEF GoOn, Observed
<1>4. watch \in Watch
  BY DEF TypeOK
<1>5. /\ watch'.state = watch.state /\ watch'.age = watch.age
      /\ watch'.carried = watch.carried /\ watch'.restarts = watch.restarts
      /\ watch.state # "on" => watch' = watch
      /\ watch.state = "on" => /\ runs => watch'.runs = watch.runs + 1
                               /\ ~runs => watch'.runs = watch.runs
  BY <1>3, <1>4 DEF Watch
<1>6. /\ n.route = request[r].route /\ n.stage = request[r].stage + 1
      /\ StageAt(n, n.stage) = next
  BY <1>1, <1>2 DEF Passed, StageAt
<1>7. \A s \in Requests : request'[s] = IF s = r THEN n ELSE request[s]
  BY <1>2 DEF TypeOK
<1>8. Behind' = IF cred /\ next = "captcha" THEN Behind \cup {r} ELSE Behind \ {r}
  <2>1. Behind' = {s \in Requests : /\ request'[s].route \in Credentials
                                    /\ StageAt(request'[s], request'[s].stage)
                                          = "captcha"}
    BY DEF Behind, Stage, StageAt
  <2>2. Behind = {s \in Requests : /\ request[s].route \in Credentials
                                   /\ StageAt(request[s], request[s].stage)
                                         = "captcha"}
    BY DEF Behind, Stage
  <2>3. r \in Behind' <=> cred /\ next = "captcha"
    BY <1>6, <1>7, <2>1
  <2>4. \A s \in Requests \ {r} : s \in Behind' <=> s \in Behind
    BY <1>7, <2>1, <2>2
  <2>5. Behind \subseteq Requests /\ Behind' \subseteq Requests
    BY <2>1, <2>2
  <2> HIDE DEF cred, next
  <2> QED BY <2>3, <2>4, <2>5
<1>9. cred => \/ Stage(r) = "validate" /\ next = "loginLimiter"
              \/ Stage(r) = "loginLimiter" /\ next \in {"captcha", "handler"}
              \/ Stage(r) = "captcha" /\ next = "handler"
  <2>1. Stage(r) \notin {"handler", "none"}
    BY <1>1 DEF Passed
  <2>2. /\ request[r].stage \in 1 .. Len(Chain[request[r].route]) - 1
        /\ Stage(r) = Chain[request[r].route][request[r].stage]
    BY <2>1, OnChain, RouteTypes DEF Request
  <2> QED BY <2>2, CredentialStages
<1>10. r \in Behind <=> cred /\ Stage(r) = "captcha"
  BY DEF Behind
<1>11. /\ IsFiniteSet(Behind) /\ Cardinality(Behind) \in Nat /\ watch.runs \in Nat
       /\ Cardinality(Behind \cup {r}) <= Cardinality(Behind) + 1
       /\ Cardinality(Behind \cup {r}) \in Nat
       /\ r \in Behind => Cardinality(Behind \ {r}) = Cardinality(Behind) - 1
       /\ Cardinality(Behind \ {r}) <= Cardinality(Behind)
       /\ Cardinality(Behind \ {r}) \in Nat
  <2>1. IsFiniteSet(Behind) /\ Cardinality(Behind) \in Nat /\ watch.runs \in Nat
    BY <1>4, Counts DEF Watch
  <2>2. /\ IsFiniteSet(Behind \cup {r})
        /\ Cardinality(Behind \cup {r})
             = IF r \in Behind THEN Cardinality(Behind) ELSE Cardinality(Behind) + 1
    BY <2>1, FS_AddElement
  <2>3. /\ IsFiniteSet(Behind \ {r})
        /\ Cardinality(Behind \ {r})
             = IF r \in Behind THEN Cardinality(Behind) - 1 ELSE Cardinality(Behind)
    BY <2>1, FS_RemoveElement
  <2> QED BY <2>1, <2>2, <2>3, FS_CardinalityType
<1> HIDE DEF cred, next
<1>12. ASSUME watch.state = "on"
       PROVE  watch'.runs + Cardinality(Behind')
                  <= watch.runs + Cardinality(Behind)
                        + IF Stage(r) = "loginLimiter" THEN 1 ELSE 0
  <2>1. CASE cred /\ next = "captcha"
    BY <1>5, <1>8, <1>9, <1>11, <1>12, <2>1
  <2>2. CASE cred /\ next = "handler"
    BY <1>5, <1>8, <1>9, <1>10, <1>11, <1>12, <2>2
  <2>3. CASE ~cred \/ next \notin {"captcha", "handler"}
    BY <1>5, <1>8, <1>11, <1>12, <2>3
  <2> QED BY <2>1, <2>2, <2>3
<1> QED BY <1>5, <1>12

\* Whoever stays where he is, or is not at the CAPTCHA, does not come behind the
\* limiter.
LEMMA BehindKept ==
  ASSUME \A s \in Requests :
            \/ /\ request'[s].route = request[s].route
               /\ request'[s].stage = request[s].stage
            \/ StageAt(request'[s], request'[s].stage) # "captcha"
            \/ request'[s].route \notin Credentials
  PROVE  Behind' \subseteq Behind
  BY DEF Behind, Stage, StageAt

LEMMA IdleElsewhere == StageAt(Idle, Idle.stage) # "captcha"
  BY IdleType DEF StageAt

LEMMA AnsweredGone ==
  ASSUME TypeOK, NEW r \in Requests, Respond(r)
  PROVE  Behind' \subseteq Behind /\ watch' = watch
<1>1. request' = [request EXCEPT ![r] = Idle] /\ watch' = watch
  BY DEF Respond
<1>2. \A s \in Requests : request'[s] = IF s = r THEN Idle ELSE request[s]
  BY <1>1, MoveOne, IdleType, IdleOnChain
<1> QED BY <1>1, <1>2, IdleElsewhere, BehindKept

\* The limiters, and nothing else, count a hit, and they always do.
LEMMA LimiterSteps ==
  ASSUME TypeOK, NEW r \in Requests, Step(r)
  PROVE  /\ CountHit(r) <=> Stage(r) \in Limiters
         /\ Stage(r) \notin Limiters => window' = window
<1>1. CountHit(r) => Stage(r) \in Limiters
  BY DEF CountHit
<1>2. CASE CountHit(r)
  BY <1>1, <1>2
<1>3. CASE ~CountHit(r)
  <2>1. Stage(r) \in {"validate", "captcha", "auth", "role", "handler"}
    BY <1>3 DEF Step, Validate, CaptchaOff, CaptchaChecked, CaptchaUnreachable,
          Unauthorized, LookupSession, LookupFails, CheckRole, RoleLookupFails,
          Handle, CheckDatabase, CheckRedis, Check, AnswerReady
  <2> QED BY <1>3, <2>1, StepKinds, LimiterTypes
<1> QED BY <1>2, <1>3

\* A hit: refused, or the price of going on.
LEMMA HitKinds ==
  ASSUME TypeOK, NEW r \in Requests, CountHit(r)
  PROVE  LET p == request[r].replica
             l == Stage(r)
         IN  /\ p \in Replicas /\ l \in Limiters
             /\ window' = (window \ Windows(p, l)) \cup {Hit(p, l)}
             /\ IF Hit(p, l).hits > Budget(l) THEN Respond(r) ELSE Passes(r)
<1>1. request[r] \in Request /\ Stage(r) \in Limiters
  BY DEF CountHit, TypeOK
<1>2. Passed(r, request[r])
  BY <1>1, LimiterTypes DEF Passed
<1>3. PassOn(r) => Passes(r)
  BY <1>1, <1>2 DEF PassOn, Passes
<1> QED BY <1>1, <1>3 DEF CountHit, Request

LEMMA StepGuess ==
  ASSUME TypeOK, TypeOK', GuessInv, WindowsOK', PlacesOK', scenario' = scenario, NEW r \in Requests, Step(r)
  PROVE  GuessInv'
<1>1. /\ IsFiniteSet(Left) /\ Cardinality(Left) \in Nat
      /\ Cardinality(Left') \in Nat /\ Cardinality(Later') \in Nat
      /\ Cardinality(Later) \in Nat /\ Cardinality(Behind) \in Nat
      /\ Cardinality(Behind') \in Nat /\ IsFiniteSet(Later)
      /\ watch.runs \in Nat /\ watch'.runs \in Nat /\ watch.age \in Nat
      /\ WindowsOK
  BY Counts, CountsNext DEF TypeOK, Watch, GuessInv
<1>2. ASSUME Left' \subseteq Left, Later' \subseteq Later, Passes(r),
             Stage(r) = "loginLimiter" => \E x \in Left : x \notin Left'
      PROVE  GuessInv'
  <2>1. Cardinality(Left') <= Cardinality(Left)
           - IF Stage(r) = "loginLimiter" THEN 1 ELSE 0
    <3>1. CASE Stage(r) = "loginLimiter"
      <4>1. PICK x \in Left : x \notin Left'
        BY <1>2, <3>1
      <4>2. Left' \subseteq Left \ {x}
        BY <1>2, <4>1
      <4>3. /\ IsFiniteSet(Left \ {x})
            /\ Cardinality(Left \ {x}) = Cardinality(Left) - 1
        BY <1>1, <4>1, FS_RemoveElement
      <4>4. Cardinality(Left') <= Cardinality(Left \ {x})
        BY <4>2, <4>3, FS_Subset
      <4> QED BY <3>1, <4>3, <4>4
    <3>2. CASE Stage(r) # "loginLimiter"
      <4>1. Cardinality(Left') <= Cardinality(Left)
        BY <1>1, <1>2, FS_Subset
      <4> QED BY <1>1, <3>2, <4>1
    <3> QED BY <3>1, <3>2
  <2>2. Cardinality(Later') <= Cardinality(Later)
    BY <1>1, <1>2, FS_Subset
  <2>3. /\ watch'.state = watch.state /\ watch'.age = watch.age
        /\ watch'.carried = watch.carried /\ watch'.restarts = watch.restarts
        /\ watch.state # "on" => watch' = watch
        /\ watch.state = "on" =>
              watch'.runs + Cardinality(Behind')
                 <= watch.runs + Cardinality(Behind)
                       + IF Stage(r) = "loginLimiter" THEN 1 ELSE 0
    BY <1>2, PassCounts
  <2>4. CASE watch.state # "on"
    BY <2>3, <2>4 DEF GuessInv
  <2>5. CASE watch.state = "on"
    <3>0. watch'.age < Length("loginLimiter")
      BY <2>3, <2>5 DEF GuessInv
    <3>1. CASE Stage(r) = "loginLimiter"
      <4>1. watch'.runs + Cardinality(Behind') + Cardinality(Left')
                     + Cardinality(Later')
              <= watch.runs + Cardinality(Behind) + Cardinality(Left)
                          + Cardinality(Later)
        BY <1>1, <2>1, <2>2, <2>3, <2>5, <3>1
      <4> QED BY <1>1, <2>3, <2>5, <3>0, <4>1, Balance
    <3>2. CASE Stage(r) # "loginLimiter"
      <4>1. watch'.runs + Cardinality(Behind') + Cardinality(Left')
                     + Cardinality(Later')
              <= watch.runs + Cardinality(Behind) + Cardinality(Left)
                          + Cardinality(Later)
        BY <1>1, <2>1, <2>2, <2>3, <2>5, <3>2
      <4> QED BY <1>1, <2>3, <2>5, <3>0, <4>1, Balance
    <3> QED BY <3>1, <3>2
  <2> QED BY <2>4, <2>5
<1>3. watch'.age = watch.age
  BY StepKinds, PassCounts DEF Respond, Checks, CheckDatabase, CheckRedis, Check
<1>4. CASE Stage(r) = "loginLimiter"
  <2> DEFINE p == request[r].replica
  <2>1. /\ p \in Replicas /\ p \in scenario.replicas
        /\ window' = (window \ Windows(p, "loginLimiter"))
                        \cup {Hit(p, "loginLimiter")}
        /\ IF Hit(p, "loginLimiter").hits > Budget("loginLimiter")
           THEN Respond(r) ELSE Passes(r)
    BY <1>4, LimiterSteps, LimiterTypes, HitKinds DEF GuessInv, PlacesOK
  <2>2. Hit(p, "loginLimiter").hits \in Nat /\ Budget("loginLimiter") \in Nat
    BY <2>1, LimiterTypes, HitType DEF Window
  <2>3. /\ Left' \subseteq Left /\ Later' \subseteq Later
        /\ Hit(p, "loginLimiter").hits <= Budget("loginLimiter")
              => \E x \in Left : x \notin Left'
    BY <1>1, <1>3, <2>1, LoginHit
  <2>4. CASE Hit(p, "loginLimiter").hits > Budget("loginLimiter")
    BY <2>1, <2>3, <2>4, AnsweredGone, Quiet
  <2>5. CASE Hit(p, "loginLimiter").hits <= Budget("loginLimiter")
    BY <1>2, <2>1, <2>2, <2>3, <2>5
  <2> QED BY <2>2, <2>4, <2>5
<1>5. CASE Stage(r) # "loginLimiter"
  <2>1. \A p \in Replicas : Windows(p, "loginLimiter")' = Windows(p, "loginLimiter")
    <3>1. CASE Stage(r) \in Limiters
      BY <1>5, <3>1, LimiterSteps, HitKinds, HitWindows
    <3>2. CASE Stage(r) \notin Limiters
      BY <3>2, LimiterSteps DEF Windows
    <3> QED BY <3>1, <3>2
  <2>2. Left' = Left /\ Later' = Later
    BY <1>3, <2>1, SameLeft
  <2>3. CASE Passes(r)
    BY <1>2, <1>5, <2>2, <2>3
  <2>4. CASE Respond(r)
    BY <2>2, <2>4, AnsweredGone, Quiet
  <2>5. CASE Checks(r)
    <3>1. PICK n \in Request :
              /\ request' = [request EXCEPT ![r] = n]
              /\ n.route = request[r].route /\ n.stage = request[r].stage
      BY <2>5, CheckEffect
    <3>2. n.stage <= Len(Chain[n.route])
      BY <3>1 DEF TypeOK
    <3>3. \A s \in Requests : request'[s] = IF s = r THEN n ELSE request[s]
      BY <3>1, <3>2, MoveOne
    <3>4. Behind' \subseteq Behind
      BY <3>1, <3>3, BehindKept
    <3>5. watch' = watch
      BY <2>5, CheckEffect
    <3> QED BY <2>2, <3>4, <3>5, Quiet
  <2> QED BY <2>3, <2>4, <2>5, StepKinds
<1> QED BY <1>4, <1>5

\* The observer begins with two budgets per replica, less one: what the window
\* that is open may still give, after its first hit, and what one that follows
\* it may.
LEMMA StartGuess ==
  ASSUME TypeOK, TypeOK', GuessInv, WindowsOK', PlacesOK', scenario' = scenario, StartWatch
  PROVE  GuessInv'
<1> DEFINE C == {r \in Requests : Stage(r) = "captcha"}
           B == Budget("loginLimiter")
           S == scenario.replicas
           R == Cardinality(S)
           Reach == S \X (1 .. B)
<1>1. /\ watch'.state = "on" /\ watch'.age = 0 /\ watch'.runs = 0
      /\ watch'.restarts = 0 /\ watch'.carried = Cardinality(C)
  BY DEF StartWatch, Unwatched
<1>2. Behind' \subseteq C
  BY DEF StartWatch, Behind, Stage, StageAt
<1>3. /\ IsFiniteSet(C) /\ Cardinality(C) \in Nat
      /\ Cardinality(Behind') <= Cardinality(C)
  <2>1. IsFiniteSet(C)
    BY FS_Subset
  <2> QED BY <1>2, <2>1, FS_Subset, FS_CardinalityType
<1>4. Left' \subseteq Reach /\ Later' \subseteq Reach
  BY DEF Left, Later, Hits
<1>5. /\ IsFiniteSet(Reach) /\ Cardinality(Reach) = R * B
      /\ R \in Nat /\ B \in Nat
  <2>1. IsFiniteSet(S) /\ R \in Nat /\ B \in Nat
    BY Counts
  <2>2. IsFiniteSet(1 .. B) /\ Cardinality(1 .. B) = B
    BY <2>1, FS_Interval
  <2> HIDE DEF S, B
  <2> QED BY <2>1, <2>2, FS_Product
<1> DEFINE First == S \X {1}
           Others == Reach \ First
<1>6. Left' \cap Later' \subseteq Others
  <2> SUFFICES ASSUME NEW x \in Left', x \in Later', x \in First PROVE FALSE
    BY <1>4
  <2>1. x[2] = 1
    OBVIOUS
  <2>2. PICK w \in window' : w \in Windows(x[1], "loginLimiter")'
    BY DEF Later, Windows
  <2>3. w.hits \in Nat \ {0}
    BY <2>2 DEF TypeOK, Window
  <2>4. w.hits < x[2]
    BY <2>2 DEF Left
  <2> QED BY <2>1, <2>3, <2>4
<1>7. "loginLimiter" \in Limiters /\ Length("loginLimiter") > 0
  BY LimiterTypes
<1>11. IsFiniteSet(Others) /\ Cardinality(Others) = R * B - R
  <2>1. 1 \in 1 .. B
    BY LimiterTypes
  <2>2. First \subseteq Reach
    BY <2>1
  <2>10. IsFiniteSet(S)
    BY Counts
  <2>3. IsFiniteSet({1}) /\ Cardinality({1}) = 1
    BY FS_Singleton
  <2>4. Cardinality(First) = R * 1
    BY <2>3, <2>10, FS_Product
  <2> HIDE DEF First, R, B, S, Reach
  <2>5. Reach \cap First = First
    BY <2>2
  <2>6. IsFiniteSet(Reach)
    BY <1>5
  <2>7. /\ IsFiniteSet(Others)
        /\ Cardinality(Others) = Cardinality(Reach) - Cardinality(Reach \cap First)
    BY <2>6, FS_Difference
  <2>8. Cardinality(First) = R
    BY <1>5, <2>4
  <2>9. Cardinality(Reach \cap First) = R
    BY <2>5, <2>8
  <2> QED BY <1>5, <2>7, <2>9
<1> HIDE DEF C, B, R, Others, Reach, S
<1>8. /\ Cardinality(Left') \in Nat /\ Cardinality(Later') \in Nat
      /\ Cardinality(Behind') \in Nat
  BY CountsNext
<1>9. Cardinality(Left') + Cardinality(Later') <= R * B + (R * B - R)
  <2>1. /\ IsFiniteSet(Left') /\ IsFiniteSet(Later')
        /\ Left' \cup Later' \subseteq Reach
    BY <1>4, CountsNext
  <2>2. Cardinality(Left' \cup Later') = Cardinality(Left') + Cardinality(Later')
                                           - Cardinality(Left' \cap Later')
    BY <2>1, FS_Union
  <2>3. Cardinality(Left' \cup Later') <= R * B
    BY <1>5, <2>1, FS_Subset
  <2>4. Cardinality(Left' \cap Later') <= R * B - R
    BY <1>6, <1>11, FS_Subset
  <2>5. /\ Cardinality(Left' \cup Later') \in Nat
        /\ Cardinality(Left' \cap Later') \in Nat
    BY <1>5, <1>6, <1>11, <2>1, FS_Subset, FS_CardinalityType
  <2>6. R * B \in Int
    BY <1>5
  <2> QED BY <1>5, <1>8, <2>2, <2>3, <2>4, <2>5, <2>6
<1>10. watch'.runs + Cardinality(Behind') + Cardinality(Left') + Cardinality(Later')
         <= Allowed'
  <2>1. R * (2 * B - 1) = R * B + (R * B - R)
    BY <1>5
  <2>2. B * watch'.restarts = 0
    BY <1>1, <1>5
  <2>3. Allowed' = R * (2 * B - 1) + B * watch'.restarts + watch'.carried
    BY DEF Allowed, R, B, S
  <2>4. R * B \in Int
    BY <1>5
  <2>5. Allowed' = R * B + (R * B - R) + Cardinality(C)
    BY <1>1, <1>3, <1>5, <2>1, <2>2, <2>3, <2>4
  <2> QED BY <1>1, <1>3, <1>5, <1>8, <1>9, <2>4, <2>5
<1> QED BY <1>1, <1>7, <1>10 DEF GuessInv

\* A window that closes gives its hits back to a window that can follow.
LEMMA TickGuess ==
  ASSUME TypeOK, TypeOK', GuessInv, WindowsOK', PlacesOK', scenario' = scenario, Tick
  PROVE  GuessInv'
<1> DEFINE l == "loginLimiter"
<1>1. /\ watch.age \in Nat /\ Length(l) \in Nat
      /\ watch \in Watch
  BY LimiterTypes DEF TypeOK, Watch
<1>2. CASE watch.state # "on"
  BY <1>2 DEF Tick, GuessInv
<1>3. CASE watch.state = "on" /\ watch.age + 1 = Length(l)
  <2>1. watch'.state = "after" /\ watch'.runs = 0
    BY <1>3 DEF Tick, Unwatched
  <2> QED BY <2>1 DEF GuessInv
<1>4. CASE watch.state = "on" /\ watch.age + 1 # Length(l)
  <2>1. /\ watch'.state = "on" /\ watch'.age = watch.age + 1
        /\ watch'.runs = watch.runs /\ watch'.restarts = watch.restarts
        /\ watch'.carried = watch.carried
    BY <1>1, <1>4 DEF Tick, Watch
  <2>2. watch.age + 1 < Length(l)
    BY <1>1, <1>4 DEF GuessInv
  <2>3. /\ \A w \in window : /\ w.left \in Nat \ {0} /\ w.hits \in Nat
                             /\ w.replica \in Replicas
        /\ \A v, w \in window : v.replica = w.replica /\ v.limiter = w.limiter => v = w
        /\ \A x \in Hits : x[2] \in Nat
    BY DEF TypeOK, Window, GuessInv, WindowsOK, Hits
  <2>4. window' = {[w EXCEPT !.left = @ - 1] : w \in {v \in window : v.left > 1}}
    BY DEF Tick
  <2>5. ASSUME NEW w \in window
        PROVE  /\ [w EXCEPT !.left = @ - 1].replica = w.replica
               /\ [w EXCEPT !.left = @ - 1].limiter = w.limiter
               /\ [w EXCEPT !.left = @ - 1].hits = w.hits
               /\ [w EXCEPT !.left = @ - 1].left = w.left - 1
    BY DEF TypeOK, Window
  <2>6. /\ \A n \in window' : \E w \in window :
               /\ w.left > 1 /\ n.left = w.left - 1 /\ n.hits = w.hits
               /\ n.replica = w.replica /\ n.limiter = w.limiter
        /\ \A w \in window : w.left > 1 => \E n \in window' :
               /\ n.left = w.left - 1 /\ n.hits = w.hits
               /\ n.replica = w.replica /\ n.limiter = w.limiter
    BY <2>4, <2>5
  <2>7. Hits' = Hits
    BY DEF Hits
  <2>8. Later' \subseteq Later
    <3> SUFFICES ASSUME NEW x \in Later' PROVE x \in Later
      OBVIOUS
    <3>1. PICK n \in window' : /\ n.replica = x[1] /\ n.limiter = l
                               /\ n.left + watch'.age < Length(l)
      BY DEF Later, Windows
    <3>2. PICK w \in window : /\ w.left > 1 /\ n.left = w.left - 1
                              /\ n.replica = w.replica /\ n.limiter = w.limiter
      BY <2>6
    <3>3. w.left + watch.age < Length(l)
      BY <1>1, <2>1, <2>3, <3>1, <3>2
    <3>4. x \in Hits /\ x[1] \in scenario.replicas
      BY <2>7 DEF Later
    <3> QED BY <3>1, <3>2, <3>3, <3>4 DEF Later, Windows
  <2>9. Left' \subseteq Left \cup (Later \ Later')
    <3> SUFFICES ASSUME NEW x \in Left', x \notin Left PROVE x \in Later \ Later'
      OBVIOUS
    <3>1. /\ x \in Hits /\ x[1] \in scenario.replicas
          /\ \A n \in window' : n.replica = x[1] /\ n.limiter = l => n.hits < x[2]
      BY <2>7 DEF Left, Windows
    <3>2. PICK w \in window : /\ w.replica = x[1] /\ w.limiter = l
                              /\ ~(w.hits < x[2])
      BY <3>1 DEF Left, Windows
    <3>3. w.left = 1
      <4>1. ~(w.left > 1)
        BY <2>6, <3>1, <3>2
      <4> QED BY <2>3, <4>1
    <3>4. x \in Later
      <4>1. w.left + watch.age < Length(l)
        BY <1>1, <2>2, <3>3
      <4> QED BY <3>1, <3>2, <4>1 DEF Later, Windows
    <3>5. x \notin Later'
      <4>1. ASSUME NEW n \in window', n.replica = x[1], n.limiter = l PROVE FALSE
        BY <2>3, <2>6, <3>2, <3>3, <4>1
      <4> QED BY <4>1 DEF Later, Windows
    <3> QED BY <3>4, <3>5
  <2>10. Cardinality(Left') + Cardinality(Later')
            <= Cardinality(Left) + Cardinality(Later)
    BY <2>8, <2>9, Counts, CountsNext, GivenBack
  <2>11. Behind' = Behind
    BY DEF Tick, Behind, Stage, StageAt
  <2>12. watch'.runs + Cardinality(Behind') + Cardinality(Left') + Cardinality(Later')
            <= watch.runs + Cardinality(Behind) + Cardinality(Left)
                          + Cardinality(Later)
    <3>1. /\ Cardinality(Left) \in Nat /\ Cardinality(Later) \in Nat
          /\ Cardinality(Behind) \in Nat /\ watch.runs \in Nat
          /\ Cardinality(Left') \in Nat /\ Cardinality(Later') \in Nat
      BY <1>1, Counts, CountsNext DEF Watch
    <3> QED BY <2>1, <2>10, <2>11, <3>1
  <2>13. watch'.runs \in Nat
    BY DEF TypeOK, Watch
  <2> QED BY <1>4, <2>1, <2>2, <2>12, <2>13, CountsNext, Balance
<1> QED BY <1>2, <1>3, <1>4

\* The hits of one process.
LEMMA Own ==
  ASSUME NEW p, NEW n \in Nat
  PROVE  IsFiniteSet({p} \X (1 .. n)) /\ Cardinality({p} \X (1 .. n)) = n
<1> DEFINE S == {p}
           T == 1 .. n
<1>1. IsFiniteSet(S) /\ Cardinality(S) = 1
  BY FS_Singleton
<1>2. IsFiniteSet(T) /\ Cardinality(T) = n
  BY FS_Interval
<1> HIDE DEF S, T
<1>3. IsFiniteSet(S \X T) /\ Cardinality(S \X T) = Cardinality(S) * Cardinality(T)
  BY <1>1, <1>2, FS_Product
<1>4. IsFiniteSet(S \X T) /\ Cardinality(S \X T) = n
  BY <1>1, <1>2, <1>3
<1> QED BY <1>4 DEF S, T

\* A process that restarts forgets at most one budget of hits.
LEMMA RestartGuess ==
  ASSUME TypeOK, TypeOK', GuessInv, WindowsOK', PlacesOK', scenario' = scenario, NEW p \in Replicas, Restart(p)
  PROVE  GuessInv'
<1> DEFINE l == "loginLimiter"
           B == Budget("loginLimiter")
           R == Cardinality(scenario.replicas)
           own == {p} \X (1 .. B)
<1>1. CASE watch.state # "on"
  BY <1>1 DEF Restart, GuessInv
<1>2. CASE watch.state = "on"
  <2>1. /\ watch'.state = "on" /\ watch'.age = watch.age
        /\ watch'.runs = watch.runs /\ watch'.carried = watch.carried
        /\ watch'.restarts = watch.restarts + 1
    BY <1>2 DEF Restart, TypeOK, Watch
  <2>2. Hits' = Hits /\ \A x \in Hits : x[1] = p => x \in own
    BY DEF Hits
  <2>3. window' = {w \in window : w.replica # p}
    BY DEF Restart
  <2>4. Later' \subseteq Later
    BY <2>1, <2>2, <2>3 DEF Later, Windows
  <2>5. Left' \subseteq Left \cup own
    <3> SUFFICES ASSUME NEW x \in Left', x[1] # p PROVE x \in Left
      BY <2>2 DEF Left
    <3> QED BY <2>2, <2>3 DEF Left, Windows
  <2>6. Behind' \subseteq Behind
    <3>1. \A s \in Requests : request'[s] = Idle \/ request'[s] = request[s]
      BY DEF Restart
    <3> QED BY <3>1, IdleElsewhere, BehindKept
  <2>7. /\ R \in Nat /\ B \in Nat /\ watch.restarts \in Nat /\ watch.carried \in Nat
        /\ watch.runs \in Nat
    BY Counts DEF TypeOK, Watch
  <2>8. IsFiniteSet(own) /\ Cardinality(own) = B
    BY <2>7, Own
  <2> HIDE DEF own, B, R
  <2>9. Cardinality(Left') <= Cardinality(Left) + B
    <3>1. /\ IsFiniteSet(Left \cup own)
          /\ Cardinality(Left \cup own) = Cardinality(Left) + B
                                            - Cardinality(Left \cap own)
      BY <2>8, Counts, FS_Union
    <3>2. Cardinality(Left \cap own) \in Nat
      BY Counts, FS_Intersection, FS_CardinalityType
    <3>3. Cardinality(Left') <= Cardinality(Left \cup own)
      BY <2>5, <3>1, FS_Subset
    <3> QED BY <2>7, <3>1, <3>2, <3>3, Counts, CountsNext
  <2>10. /\ Cardinality(Later') <= Cardinality(Later)
         /\ Cardinality(Behind') <= Cardinality(Behind)
    BY <2>4, <2>6, Counts, FS_Subset
  <2>11. Allowed' = Allowed + B
    <3>1. B * watch'.restarts = B * watch.restarts + B
      BY <2>1, <2>7
    <3>2. /\ Allowed = R * (2 * B - 1) + B * watch.restarts + watch.carried
          /\ Allowed' = R * (2 * B - 1) + B * watch'.restarts + watch'.carried
      BY DEF Allowed, R, B
    <3>3. R * (2 * B - 1) \in Int /\ B * watch.restarts \in Int
      BY <2>7
    <3> QED BY <2>1, <2>7, <3>1, <3>2, <3>3
  <2>12. Allowed \in Nat
    BY AllowedType
  <2>13. watch.runs + Cardinality(Behind) + Cardinality(Left) + Cardinality(Later)
            <= Allowed
    BY <1>2 DEF GuessInv
  <2>14. watch'.runs + Cardinality(Behind') + Cardinality(Left') + Cardinality(Later')
            <= Allowed'
    <3>1. /\ Cardinality(Left) \in Nat /\ Cardinality(Later) \in Nat
          /\ Cardinality(Behind) \in Nat /\ Cardinality(Left') \in Nat
          /\ Cardinality(Later') \in Nat /\ Cardinality(Behind') \in Nat
      BY Counts, CountsNext
    <3> QED BY <2>1, <2>7, <2>9, <2>10, <2>11, <2>12, <2>13, <3>1
  <2>15. watch'.age < Length("loginLimiter")
    BY <1>2, <2>1 DEF GuessInv
  <2> QED BY <2>1, <2>14, <2>15 DEF GuessInv
<1> QED BY <1>1, <1>2

\* A request that arrives is not behind the limiter.
LEMMA ArriveGuess ==
  ASSUME TypeOK, TypeOK', GuessInv, WindowsOK', PlacesOK', scenario' = scenario, NEW r \in Requests, Arrive(r)
  PROVE  GuessInv'
<1>1. PICK route \in scenario.routes, p \in scenario.replicas :
        request' = [request EXCEPT ![r] =
            [Idle EXCEPT !.route = route, !.replica = p, !.stage = 1]]
  BY DEF Arrive
<1>2. route \in Routes /\ p \in Replicas
  BY DEF TypeOK
<1> DEFINE n == [Idle EXCEPT !.route = route, !.replica = p, !.stage = 1]
<1>3. n \in Request /\ n.route = route /\ n.stage = 1
  BY <1>2, IdleType DEF Request
<1>4. request' = [request EXCEPT ![r] = n]
  BY <1>1
<1> HIDE DEF n
<1>5. n.stage <= Len(Chain[n.route])
  BY <1>2, <1>3, RouteTypes
<1>6. \A s \in Requests : request'[s] = IF s = r THEN n ELSE request[s]
  BY <1>3, <1>4, <1>5, MoveOne
<1>7. n.route \in Credentials => StageAt(n, n.stage) # "captcha"
  <2> DEFINE c == <<"validate", "loginLimiter", "captcha", "handler">>
             d == <<"loginLimiter", "handler">>
  <2>1. c[1] = "validate" /\ d[1] = "loginLimiter"
    OBVIOUS
  <2>2. Chain["login"] = c /\ Chain["mfaVerify"] = d
    BY NamedChains
  <2> HIDE DEF c, d
  <2> QED BY <1>3, <2>1, <2>2 DEF Credentials, StageAt
<1>8. Behind' \subseteq Behind
  BY <1>6, <1>7, BehindKept
<1>9. watch' = watch /\ window' = window
  BY DEF Arrive
<1>10. Left' = Left /\ Later' = Later
  BY <1>9, SameLeft DEF Windows
<1> QED BY <1>8, <1>9, <1>10, Quiet

LEMMA GuessNext == TypeOK /\ GuessInv /\ [Next]_vars => GuessInv'
<1> SUFFICES ASSUME TypeOK, GuessInv, [Next]_vars PROVE GuessInv'
  OBVIOUS
<1>1. TypeOK' /\ WindowsOK' /\ PlacesOK' /\ scenario' = scenario
  BY NextType, WindowsNext, PlacesNext DEF GuessInv
<1>2. ASSUME watch' = watch, window' = window,
             \A s \in Requests : /\ request'[s].route = request[s].route
                                 /\ request'[s].stage = request[s].stage
      PROVE  GuessInv'
  <2>1. Behind' \subseteq Behind
    BY <1>2, BehindKept
  <2>2. Left' = Left /\ Later' = Later
    BY <1>1, <1>2, SameLeft DEF Windows
  <2> QED BY <1>1, <1>2, <2>1, <2>2, Quiet
<1>3. ASSUME NEW b \in Backends, ComeUp(b) PROVE GuessInv'
  <2>1. watch' = watch /\ window' = window
    BY <1>3 DEF ComeUp
  <2>2. ASSUME NEW s \in Requests
        PROVE  /\ request'[s].route = request[s].route
               /\ request'[s].stage = request[s].stage
    <3>1. request[s] \in Request
      BY DEF TypeOK
    <3>2. \/ request'[s] = request[s]
          \/ request'[s] = [request[s] EXCEPT !.saw = @ \cup {b}]
      BY <1>3 DEF ComeUp
    <3> QED BY <3>1, <3>2 DEF Request
  <2> QED BY <1>2, <2>1, <2>2
<1>4. CASE UNCHANGED vars \/ \E b \in Backends : GoDown(b)
  BY <1>2, <1>4 DEF vars, GoDown
<1>5. CASE \E p \in scenario.replicas : Restart(p)
  BY <1>1, <1>5, RestartGuess DEF TypeOK
<1> QED
  BY <1>1, <1>3, <1>4, <1>5, ArriveGuess, StepGuess, StartGuess, TickGuess
     DEF Next

\* In any 15 minutes one address gets no more passwords and second factors
\* checked than two budgets of loginLimiter, less one, per process, one budget
\* more per restart, and those that waited for their CAPTCHA when the 15 minutes
\* began.
THEOREM GuessesAlwaysBounded == Spec => []GuessesBounded
<1>1. Init => GuessInv
  BY IdleType DEF Init, GuessInv, WindowsOK, PlacesOK, Stage, StageAt, Unwatched
<1>2. TypeOK /\ GuessInv => GuessesBounded
  <2> SUFFICES ASSUME TypeOK, GuessInv PROVE GuessesBounded
    OBVIOUS
  <2>1. /\ Cardinality(Left) \in Nat /\ Cardinality(Later) \in Nat
        /\ Cardinality(Behind) \in Nat /\ watch.runs \in Nat
        /\ Allowed \in Nat
    BY Counts, AllowedType DEF TypeOK, Watch
  <2>2. CASE watch.state = "on"
    <3>1. watch.runs + Cardinality(Behind) + Cardinality(Left) + Cardinality(Later)
            <= Allowed
      BY <2>2 DEF GuessInv
    <3> QED BY <2>1, <3>1 DEF GuessesBounded
  <2>3. CASE watch.state # "on"
    <3>1. watch.runs = 0
      BY <2>3 DEF GuessInv
    <3> QED BY <2>1, <3>1 DEF GuessesBounded
  <2> QED BY <2>2, <2>3
<1> QED BY <1>1, <1>2, InitType, NextType, GuessNext, PTL DEF Spec

=============================================================================
