--------------------------- MODULE Sessions_proofs ---------------------------
(***************************************************************************)
(* What holds of Sessions for every number of users, sessions and          *)
(* requests, and any lifetimes.                                            *)
(***************************************************************************)
EXTENDS Sessions, TLAPS

USE SessionsAssumption DEF SessionsAssumption

----------------------------------------------------------------------------
(* The inductive invariant.                                                *)

\* What a request is about to answer follows from where it is: its goal is
\* what its handler ends, and it was dead on arrival only if its session is
\* over by now.
RequestOK(r) ==
    LET q == request[r]
    IN  /\ q \in Request
        /\ q.pc # "idle" => q.session \in Opened
        /\ q.pc = "lookup" => q.handler \in Handlers
        /\ q.pc \in Handlers => q.pc = q.handler
        /\ q.pc = "delete" => q.handler = "find"
        /\ q.handler = "find" => q.goal = {q.target} /\ q.target \in Opened
        /\ q.handler = "deleteAll" =>
              /\ q.session \in Opened
              /\ \A s \in q.goal : owner[s] = owner[q.session]
        /\ q.handler \in {"serve", "deleteUser"} => q.goal = {}
        /\ q.pc = "sweep" => q.handler = "deleteUser"
        /\ q.handler = "deleteUser" => q.target \in Users
        /\ q.dead => /\ q.session \in Opened
                     /\ q.session \in acknowledged \/ Expired(q.session)
        /\ q.checked => ~q.dead
        /\ q.pc \in {"idle", "lookup", "touch"} => ~q.checked

RowsOK ==
    /\ accounts \subseteq Users
    /\ owner \in [SessionIds -> Users \cup {None}]
    /\ sessions \subseteq Opened
    /\ acknowledged \subseteq Opened
    /\ expiresAt \in [SessionIds -> Nat]
    /\ accessUntil \in [SessionIds -> Nat]
    /\ now \in 0 .. MaxTime
    /\ logoutFailed \in BOOLEAN

SessionsInv ==
    /\ RowsOK
    /\ request \in [Requests -> Request]
    /\ \A r \in Requests : RequestOK(r)
    /\ RevocationHolds

\* It is stronger than what is checked.
LEMMA InvStrong == SessionsInv => TypeOK /\ RevocationHolds /\ DeadNeverAdmitted
  BY DEF SessionsInv, RowsOK, RequestOK, TypeOK, DeadNeverAdmitted, Opened

LEMMA IdleType == Idle \in Request
  BY DEF Idle, Request, Labels, Admitted, Handlers

LEMMA InitInv == Init => SessionsInv
<1> SUFFICES ASSUME Init PROVE SessionsInv
  OBVIOUS
<1>1. \A r \in Requests : RequestOK(r)
  <2> SUFFICES ASSUME NEW r \in Requests PROVE RequestOK(r)
    OBVIOUS
  <2>1. request[r] = Idle
    BY DEF Init
  <2> QED BY <2>1, IdleType DEF RequestOK, Idle, Handlers
<1>2. RowsOK
  <2>1. now \in 0 .. MaxTime
    BY DEF Init
  <2>2. /\ owner \in [SessionIds -> Users \cup {None}]
        /\ expiresAt \in [SessionIds -> Nat]
        /\ accessUntil \in [SessionIds -> Nat]
    BY DEF Init
  <2> QED BY <2>1, <2>2 DEF Init, RowsOK
<1>3. request \in [Requests -> Request]
  BY IdleType DEF Init
<1> QED BY <1>1, <1>2, <1>3 DEF Init, SessionsInv, RevocationHolds

----------------------------------------------------------------------------
(* What a step does to the requests.                                       *)

\* Ids keep their owners and dates, time passes, ends stay acknowledged.
Forward ==
    /\ \A s \in Opened : owner'[s] = owner[s] /\ expiresAt'[s] = expiresAt[s]
    /\ now' \in Nat /\ now <= now'
    /\ acknowledged \subseteq acknowledged'

\* A request that takes no step stays coherent when the rest moves forward.
LEMMA RestOK ==
  ASSUME SessionsInv, Forward, NEW r \in Requests, request'[r] = request[r]
  PROVE  RequestOK(r)'
<1> DEFINE q == request[r]
<1>1. Opened \subseteq Opened'
  BY DEF Forward, Opened
<1>2. RequestOK(r) /\ q \in Request
  BY DEF SessionsInv, RequestOK
<1>3. ASSUME NEW s \in Opened PROVE owner'[s] = owner[s] /\ (Expired(s) => Expired(s)')
  BY <1>3 DEF Forward, Expired, SessionsInv, RowsOK, Opened
<1>4. q.handler = "deleteAll"
        => q.session \in Opened' /\ \A s \in q.goal : owner'[s] = owner'[q.session]
  <2> SUFFICES ASSUME q.handler = "deleteAll", NEW s \in q.goal
               PROVE  q.session \in Opened' /\ owner'[s] = owner'[q.session]
    BY <1>1, <1>2 DEF RequestOK
  <2>1. q.session \in Opened /\ owner[s] = owner[q.session] /\ s \in SessionIds
    BY <1>2 DEF RequestOK, Request
  <2>2. s \in Opened
    BY <2>1 DEF Opened
  <2> QED BY <1>1, <1>3, <2>1, <2>2
<1>5. q.dead => /\ q.session \in Opened'
                /\ q.session \in acknowledged' \/ Expired(q.session)'
  BY <1>1, <1>2, <1>3 DEF RequestOK, Forward
<1>6. Opened' = {s \in SessionIds : owner'[s] # None}
  BY DEF Opened
<1> QED BY <1>1, <1>2, <1>4, <1>5, <1>6 DEF RequestOK

\* A request that is answered is gone.
LEMMA FinishOK ==
  ASSUME SessionsInv, Forward, NEW r \in Requests, Finish(r)
  PROVE  request' \in [Requests -> Request] /\ \A x \in Requests : RequestOK(x)'
<1>1. request' \in [Requests -> Request]
  BY IdleType DEF SessionsInv, Finish
<1>2. request'[r] = Idle
  BY DEF SessionsInv, Finish
<1>3. RequestOK(r)'
  BY <1>2, IdleType DEF RequestOK, Idle, Handlers
<1>4. ASSUME NEW x \in Requests, x # r PROVE RequestOK(x)'
  BY <1>4, RestOK DEF SessionsInv, Finish
<1> QED BY <1>1, <1>3, <1>4

\* A request that is replaced is coherent when its new value is.
LEMMA ReplaceOK ==
  ASSUME SessionsInv, Forward, NEW r \in Requests, NEW q \in Request,
         request' = [request EXCEPT ![r] = q], RequestOK(r)'
  PROVE  request' \in [Requests -> Request] /\ \A x \in Requests : RequestOK(x)'
<1>1. request' \in [Requests -> Request]
  BY DEF SessionsInv
<1>2. ASSUME NEW x \in Requests, x # r PROVE RequestOK(x)'
  BY <1>2, RestOK DEF SessionsInv
<1> QED BY <1>1, <1>2

\* One that goes on to the next label, where it may go.
LEMMA MoveOK ==
  ASSUME SessionsInv, UNCHANGED <<owner, expiresAt, now>>,
         acknowledged \subseteq acknowledged',
         NEW r \in Requests, NEW label \in Labels \ {"idle", "lookup", "touch"},
         NEW b \in BOOLEAN, request[r].pc # "idle",
         label \in Handlers => label = request[r].handler,
         label = "delete" => request[r].handler = "find",
         label = "sweep" => request[r].handler = "deleteUser",
         b => ~request[r].dead,
         request' = [request EXCEPT ![r] =
                       [request[r] EXCEPT !.pc = label, !.checked = b]]
  PROVE  request' \in [Requests -> Request] /\ \A x \in Requests : RequestOK(x)'
<1> DEFINE new == [request[r] EXCEPT !.pc = label, !.checked = b]
<1>1. Forward
  BY DEF Forward, SessionsInv, RowsOK
<1>2. RequestOK(r) /\ request[r] \in Request
  BY DEF SessionsInv, RequestOK
<1>3. /\ new \in Request
      /\ new.pc = label /\ new.checked = b
      /\ new.session = request[r].session /\ new.target = request[r].target
      /\ new.handler = request[r].handler /\ new.goal = request[r].goal
      /\ new.dead = request[r].dead
  BY <1>2 DEF Request
<1>4. request'[r] = new
  BY DEF SessionsInv
<1>5. Opened' = Opened
  BY DEF Opened
<1> HIDE DEF new
<1>6. RequestOK(r)'
  BY <1>2, <1>3, <1>4, <1>5 DEF RequestOK, Expired
<1> QED BY <1>1, <1>3, <1>4, <1>6, ReplaceOK DEF new

----------------------------------------------------------------------------
(* The steps keep the invariant.                                           *)

\* The frame of every step but GenerateTokens and Tick: rows only go.
Shrinks ==
    /\ accounts' \subseteq accounts
    /\ sessions' \subseteq sessions
    /\ UNCHANGED <<owner, expiresAt, now>>
    /\ accessUntil' \in [SessionIds -> Nat]
    /\ acknowledged \subseteq acknowledged'
    /\ acknowledged' \subseteq Opened
    /\ acknowledged' \cap sessions' = {}
    /\ logoutFailed' \in BOOLEAN

LEMMA ShrinksInv ==
  ASSUME SessionsInv, Shrinks,
         request' \in [Requests -> Request], \A x \in Requests : RequestOK(x)'
  PROVE  SessionsInv'
<1>1. Opened' = Opened
  BY DEF Opened, Shrinks
<1> QED BY <1>1 DEF SessionsInv, Shrinks, RowsOK, RevocationHolds

LEMMA ShrinksForward == SessionsInv /\ Shrinks => Forward
  BY DEF Shrinks, Forward, SessionsInv, RowsOK

\* So it is enough that a step that answers its request shrinks the rows.
LEMMA FinishInv ==
  ASSUME SessionsInv, Shrinks, NEW r \in Requests, Finish(r)
  PROVE  SessionsInv'
  BY ShrinksInv, ShrinksForward, FinishOK

\* A step that leaves acknowledged alone shrinks the rows if it does nothing
\* else to them.
LEMMA QuietShrinks ==
  ASSUME SessionsInv, UNCHANGED <<owner, expiresAt, now, acknowledged>>,
         accounts' \subseteq accounts, sessions' \subseteq sessions,
         accessUntil' \in [SessionIds -> Nat], logoutFailed' \in BOOLEAN
  PROVE  Shrinks
  BY DEF SessionsInv, RowsOK, RevocationHolds, Shrinks

\* Moves of a request that is not answered yet, written with two EXCEPTs or one.
LEMMA GoToInv ==
  ASSUME SessionsInv, Shrinks, NEW r \in Requests, NEW label \in Labels,
         label \notin {"idle", "lookup", "touch"}, GoTo(r, label),
         request[r].pc # "idle",
         label \in Handlers => label = request[r].handler,
         label = "delete" => request[r].handler = "find",
         label = "sweep" => request[r].handler = "deleteUser"
  PROVE  SessionsInv'
<1>1. request[r] \in Request /\ RequestOK(r)
  BY DEF SessionsInv
<1>2. /\ request[r].checked \in BOOLEAN
      /\ request[r].checked => ~request[r].dead
  BY <1>1 DEF RequestOK, Request
<1>3. request' = [request EXCEPT ![r] =
                    [request[r] EXCEPT !.pc = label, !.checked = request[r].checked]]
  <2>1. [request[r] EXCEPT !.pc = label, !.checked = request[r].checked]
          = [request[r] EXCEPT !.pc = label]
    BY <1>1 DEF Request
  <2> QED BY <2>1 DEF GoTo, SessionsInv
<1>4. UNCHANGED <<owner, expiresAt, now>> /\ acknowledged \subseteq acknowledged'
  BY DEF Shrinks
<1>5. request' \in [Requests -> Request] /\ \A x \in Requests : RequestOK(x)'
  BY <1>2, <1>3, <1>4, MoveOK
<1> QED BY <1>5, ShrinksInv

\* A lookup that works lets in only a request that was not dead on arrival:
\* a session that was over then has no row, or is expired, now.
LEMMA LookupSessionInv ==
  ASSUME SessionsInv, NEW r \in Requests, LookupSession(r)
  PROVE  SessionsInv'
<1>1. request[r] \in Request /\ RequestOK(r)
  BY DEF SessionsInv
<1>2. request[r].handler \in Handlers
  BY <1>1 DEF LookupSession, RequestOK
<1>3. ~request[r].dead
  BY <1>1 DEF LookupSession, RequestOK, SessionsInv, RevocationHolds
<1>4. request' = [request EXCEPT ![r] =
                    [request[r] EXCEPT !.pc = request[r].handler, !.checked = TRUE]]
  <2>1. request' = [request EXCEPT ![r].pc = request[r].handler, ![r].checked = TRUE]
    BY DEF LookupSession
  <2> QED BY <2>1 DEF SessionsInv
<1>5. request[r].handler \in Labels \ {"idle", "lookup", "touch"}
        /\ request[r].handler \notin {"delete", "sweep"}
  BY <1>2 DEF Labels, Admitted, Handlers
<1>6. Shrinks
  BY QuietShrinks DEF LookupSession, table, history, SessionsInv, RowsOK
<1>7. request' \in [Requests -> Request] /\ \A x \in Requests : RequestOK(x)'
  <2>1. UNCHANGED <<owner, expiresAt, now>> /\ acknowledged \subseteq acknowledged'
        /\ request[r].pc # "idle"
    BY <1>6 DEF Shrinks, LookupSession
  <2> QED BY <2>1, <1>3, <1>4, <1>5, MoveOK
<1> QED BY <1>6, <1>7, ShrinksInv

\* A new session was never acknowledged as over: ids are drawn once.
LEMMA GenerateTokensInv ==
  ASSUME SessionsInv, NEW u \in Users, NEW s \in SessionIds,
         NEW life \in {ShortLife, LongLife}, GenerateTokens(u, s, life)
  PROVE  SessionsInv'
<1>1. s \notin Opened /\ u # None
  BY DEF GenerateTokens, Opened
<1>2. now + life \in Nat /\ now + JwtExpiry \in Nat /\ now \in Nat
  BY DEF SessionsInv, RowsOK
<1>3. Opened' = Opened \cup {s}
  BY <1>1 DEF GenerateTokens, Opened, SessionsInv, RowsOK
<1>4. Forward
  BY <1>1, <1>2 DEF GenerateTokens, Forward, SessionsInv, RowsOK, Opened, history
<1>5. \A r \in Requests : RequestOK(r)'
  BY <1>4, RestOK DEF GenerateTokens
<1>6. RowsOK'
  BY <1>2, <1>3 DEF GenerateTokens, SessionsInv, RowsOK, history
<1>7. RevocationHolds'
  BY <1>1 DEF GenerateTokens, SessionsInv, RowsOK, RevocationHolds, history
<1> QED BY <1>5, <1>6, <1>7 DEF SessionsInv, GenerateTokens

LEMMA GetSessionByTokenInv ==
  ASSUME SessionsInv, NEW r \in Requests, NEW s \in SessionIds, GetSessionByToken(r, s)
  PROVE  SessionsInv'
<1> DEFINE q == [Idle EXCEPT !.pc = "touch", !.session = s]
<1>1. Shrinks
  BY QuietShrinks DEF GetSessionByToken, table, history, SessionsInv, RowsOK
<1>2. q \in Request
  BY IdleType DEF Request, Labels
<1>3. request'[r] = q /\ s \in Opened' /\ s \in Opened
  BY DEF GetSessionByToken, SessionsInv, RowsOK, Opened, table
<1>4. RequestOK(r)'
  BY <1>2, <1>3 DEF RequestOK, Idle, Handlers
<1>5. request' = [request EXCEPT ![r] = q]
  BY DEF GetSessionByToken
<1> HIDE DEF q
<1> QED BY <1>1, <1>2, <1>4, <1>5, ReplaceOK, ShrinksForward, ShrinksInv

\* The middleware starts on a session: the goal is what the handler ends.
LEMMA VerifyTokenInv ==
  ASSUME SessionsInv, NEW r \in Requests, NEW s \in SessionIds, NEW h \in Handlers,
         NEW t \in SessionIds \cup Users \cup {None},
         h = "find" => t \in Opened, h = "deleteUser" => t \in Users,
         VerifyToken(r, s, h, t)
  PROVE  SessionsInv'
<1> DEFINE goal == CASE h = "find" -> {t}
                     [] h = "deleteAll" -> SessionsOf(owner[s])
                     [] OTHER -> {}
           over == s \in acknowledged \/ Expired(s)
           q == [pc |-> "lookup", session |-> s, target |-> t, handler |-> h,
                 goal |-> goal, dead |-> over, checked |-> FALSE]
<1>1. /\ goal \in SUBSET SessionIds
      /\ h = "find" => goal = {t}
      /\ h = "deleteAll" => \A x \in goal : owner[x] = owner[s]
      /\ h \in {"serve", "deleteUser"} => goal = {}
  BY DEF Handlers, SessionsOf, SessionsInv, RowsOK, Opened
<1>2. over \in BOOLEAN
  OBVIOUS
<1>3. request' = [request EXCEPT ![r] = q]
  BY DEF VerifyToken
<1>4. UNCHANGED <<owner, expiresAt, now, acknowledged>> /\ s \in Opened
  BY DEF VerifyToken, table, history
<1> HIDE DEF goal
<1>5. q \in Request
  BY <1>1, <1>2 DEF Request, Labels
<1>6. request'[r] = q
  BY <1>3 DEF SessionsInv
<1>7. Shrinks
  BY QuietShrinks DEF VerifyToken, table, history, SessionsInv, RowsOK
<1>8. Opened' = Opened /\ (Expired(s)' <=> Expired(s))
  BY <1>4 DEF Opened, Expired
<1>9. over => s \in acknowledged' \/ Expired(s)'
  BY <1>4, <1>8
<1>10. RequestOK(r)'
  <2>1. /\ q.pc = "lookup" /\ q.session = s /\ q.target = t /\ q.handler = h
        /\ q.goal = goal /\ q.dead = over /\ q.checked = FALSE
    OBVIOUS
  <2> HIDE DEF q
  <2> QED BY <1>1, <1>4, <1>5, <1>6, <1>8, <1>9, <2>1 DEF RequestOK, Handlers, Expired
<1> HIDE DEF q
<1> QED BY <1>3, <1>5, <1>7, <1>10, ReplaceOK, ShrinksForward, ShrinksInv

\* The handlers that answer 200 have ended what they acknowledge.
LEMMA HandlersInv ==
  ASSUME SessionsInv, NEW r \in Requests,
         \/ Serve(r) \/ FindTarget(r) \/ DeleteTarget(r)
         \/ DeleteAllSessions(r) \/ SweepSessions(r)
  PROVE  SessionsInv'
<1>1. request[r] \in Request /\ RequestOK(r)
  BY DEF SessionsInv
<1>2. request[r].goal \subseteq SessionIds
  BY <1>1 DEF Request
<1>3. ASSUME UNCHANGED <<accounts, owner, expiresAt, accessUntil, now>>,
             Succeed(r), sessions' \subseteq sessions,
             request[r].goal \subseteq Opened, request[r].goal \cap sessions' = {}
      PROVE  SessionsInv'
  <2>1. Shrinks
    BY <1>3 DEF Succeed, Shrinks, SessionsInv, RowsOK, RevocationHolds
  <2> QED BY <1>3, <2>1, FinishInv DEF Succeed
<1>4. CASE Serve(r)
  <2>1. request[r].goal = {}
    BY <1>1, <1>4 DEF Serve, RequestOK, Handlers
  <2> QED BY <1>3, <1>4, <2>1 DEF Serve, table
<1>5. CASE FindTarget(r)
  <2>1. /\ request[r].handler = "find"
        /\ request[r].goal = {request[r].target} /\ request[r].target \in Opened
    BY <1>1, <1>5 DEF FindTarget, RequestOK, Handlers
  <2>2. CASE request[r].target \in sessions
    <3>1. GoTo(r, "delete") /\ request[r].pc # "idle"
      BY <1>5, <2>2 DEF FindTarget
    <3>2. Shrinks
      BY <1>5, <2>2, QuietShrinks DEF FindTarget, table, history, SessionsInv, RowsOK
    <3>3. "delete" \in Labels /\ "delete" \notin Handlers
      BY DEF Labels, Admitted, Handlers
    <3> QED BY <2>1, <3>1, <3>2, <3>3, GoToInv
  <2>3. CASE request[r].target \notin sessions
    BY <1>3, <1>5, <2>1, <2>3 DEF FindTarget, table
  <2> QED BY <2>2, <2>3
<1>6. CASE DeleteTarget(r)
  <2>1. request[r].goal = {request[r].target} /\ request[r].target \in Opened
    BY <1>1, <1>6 DEF DeleteTarget, RequestOK
  <2> QED BY <1>3, <1>6, <2>1 DEF DeleteTarget
<1>7. CASE DeleteAllSessions(r)
  <2>1. /\ request[r].session \in Opened
        /\ \A x \in request[r].goal : owner[x] = owner[request[r].session]
    BY <1>1, <1>7 DEF DeleteAllSessions, RequestOK, Handlers
  <2>2. request[r].goal \subseteq Opened
    BY <1>2, <2>1 DEF Opened
  <2>3. request[r].goal \cap sessions' = {}
    BY <1>7, <2>1 DEF DeleteAllSessions, SessionsOf
  <2> QED BY <1>3, <1>7, <2>2, <2>3 DEF DeleteAllSessions
<1>8. CASE SweepSessions(r)
  <2> DEFINE u == request[r].target
  <2>1. u # None
    BY <1>1, <1>8 DEF SweepSessions, RequestOK
  <2>2. {x \in SessionIds : owner[x] = u} \subseteq Opened
    BY <2>1 DEF Opened
  <2>3. sessions' = sessions \ SessionsOf(u)
        /\ acknowledged' = acknowledged \cup {x \in SessionIds : owner[x] = u}
    BY <1>8 DEF SweepSessions
  <2>4. acknowledged' \cap sessions' = {}
    BY <2>3 DEF SessionsOf, SessionsInv, RevocationHolds
  <2> HIDE DEF u
  <2>5. Shrinks
    BY <1>8, <2>2, <2>3, <2>4 DEF SweepSessions, Shrinks, SessionsInv, RowsOK
  <2> QED BY <1>8, <2>5, FinishInv DEF SweepSessions
<1> QED BY <1>4, <1>5, <1>6, <1>7, <1>8

LEMMA StepInv ==
  ASSUME SessionsInv, NEW r \in Requests, Step(r)
  PROVE  SessionsInv'
<1>1. request[r] \in Request /\ RequestOK(r)
  BY DEF SessionsInv
<1>2. Handlers \subseteq Labels \ {"idle", "lookup", "touch", "delete", "sweep"}
  BY DEF Labels, Admitted, Handlers
<1>3. CASE UpdateLastActive(r)
  <2>1. Shrinks
    BY <1>3, QuietShrinks DEF UpdateLastActive, table, history, SessionsInv, RowsOK
  <2>2. "sign" \in Labels \ Handlers
    BY DEF Labels, Admitted, Handlers
  <2> QED BY <1>3, <2>1, <2>2, GoToInv DEF UpdateLastActive
<1>4. CASE SignAccessToken(r)
  <2>1. accessUntil' \in [SessionIds -> Nat]
    <3>1. now + JwtExpiry \in Nat
      BY DEF SessionsInv, RowsOK
    <3> QED BY <1>4, <3>1 DEF SignAccessToken, SessionsInv, RowsOK
  <2>2. Shrinks
    BY <1>4, <2>1, QuietShrinks DEF SignAccessToken, table, history, SessionsInv, RowsOK
  <2> QED BY <1>4, <2>2, FinishInv DEF SignAccessToken
<1>5. CASE \/ RefreshTooLate(r) \/ LookupRefuses(r) \/ DeleteTooLate(r)
           \/ DeleteUserRefused(r) \/ Fault(r)
  <2>1. Finish(r) /\ UNCHANGED <<table, accessUntil, now, acknowledged>>
    BY <1>5 DEF RefreshTooLate, LookupRefuses, DeleteTooLate, DeleteUserRefused,
                Fault, history
  <2>2. logoutFailed' \in BOOLEAN
    BY <1>5 DEF RefreshTooLate, LookupRefuses, DeleteTooLate, DeleteUserRefused,
                Fault, history, SessionsInv, RowsOK
  <2>3. Shrinks
    BY <2>1, <2>2, QuietShrinks DEF table, SessionsInv, RowsOK
  <2> QED BY <2>1, <2>3, FinishInv
<1>6. CASE LookupSession(r)
  BY <1>6, LookupSessionInv
<1>7. CASE LookupFails(r)
  <2>1. GoTo(r, request[r].handler) /\ request[r].handler \in Handlers
          /\ request[r].pc # "idle"
    BY <1>1, <1>7 DEF LookupFails, RequestOK
  <2>2. Shrinks
    BY <1>7, QuietShrinks DEF LookupFails, table, history, SessionsInv, RowsOK
  <2> QED BY <1>2, <2>1, <2>2, GoToInv
<1>8. CASE \/ Serve(r) \/ FindTarget(r) \/ DeleteTarget(r)
           \/ DeleteAllSessions(r) \/ SweepSessions(r)
  BY <1>8, HandlersInv
<1>9. CASE DeleteUser(r)
  <2>1. accounts' \subseteq accounts /\ sessions' \subseteq sessions
        /\ UNCHANGED <<owner, expiresAt, accessUntil, now, acknowledged, logoutFailed>>
    BY <1>9 DEF DeleteUser, history
  <2>2. Shrinks
    BY <2>1, QuietShrinks DEF SessionsInv, RowsOK
  <2>3. "sweep" \in Labels \ Handlers /\ request[r].handler = "deleteUser"
    BY <1>1, <1>9 DEF DeleteUser, RequestOK, Labels, Admitted, Handlers
  <2> QED BY <1>9, <2>2, <2>3, GoToInv DEF DeleteUser
<1> QED BY <1>3, <1>4, <1>5, <1>6, <1>7, <1>8, <1>9 DEF Step

LEMMA NextInv == SessionsInv /\ [Next]_vars => SessionsInv'
<1> SUFFICES ASSUME SessionsInv, [Next]_vars PROVE SessionsInv'
  OBVIOUS
<1>1. ASSUME UNCHANGED <<table, accessUntil, request, history>>,
             now' \in 0 .. MaxTime, now <= now'
      PROVE  SessionsInv'
  <2>1. Forward
    BY <1>1 DEF Forward, table, history, SessionsInv, RowsOK
  <2>2. \A r \in Requests : RequestOK(r)'
    BY <1>1, <2>1, RestOK
  <2>3. Opened' = Opened
    BY <1>1 DEF Opened, table
  <2> QED BY <1>1, <2>2, <2>3 DEF SessionsInv, RowsOK, RevocationHolds, table, history
<1>2. CASE UNCHANGED vars
  BY <1>1, <1>2 DEF vars, SessionsInv, RowsOK
<1>3. CASE Tick
  BY <1>1, <1>3 DEF Tick, SessionsInv, RowsOK
<1>4. ASSUME NEW u \in Users, NEW s \in SessionIds,
             NEW life \in {ShortLife, LongLife}, GenerateTokens(u, s, life)
      PROVE  SessionsInv'
  BY <1>4, GenerateTokensInv
<1>5. ASSUME NEW r \in Requests, NEW s \in SessionIds,
             InvalidRefreshToken(r, s) \/ TokenExpired(r, s)
      PROVE  SessionsInv'
  BY <1>2, <1>5 DEF InvalidRefreshToken, TokenExpired
<1>6. ASSUME NEW r \in Requests, NEW s \in SessionIds, GetSessionByToken(r, s)
      PROVE  SessionsInv'
  BY <1>6, GetSessionByTokenInv
<1>7. ASSUME NEW r \in Requests, NEW s \in SessionIds, NEW t \in Opened,
             VerifyToken(r, s, "find", t)
      PROVE  SessionsInv'
  BY <1>7, VerifyTokenInv DEF Handlers, Opened
<1>8. ASSUME NEW r \in Requests, NEW s \in SessionIds,
             \/ \E u \in Users : VerifyToken(r, s, "deleteUser", u)
             \/ \E h \in {"serve", "deleteAll"} : VerifyToken(r, s, h, None)
      PROVE  SessionsInv'
  BY <1>8, VerifyTokenInv DEF Handlers
<1>9. ASSUME NEW r \in Requests, Step(r) PROVE SessionsInv'
  BY <1>9, StepInv
<1> QED BY <1>2, <1>3, <1>4, <1>5, <1>6, <1>7, <1>8, <1>9 DEF Next

LEMMA Invariance == Spec => []SessionsInv
  BY InitInv, NextInv, PTL DEF Spec

----------------------------------------------------------------------------
(* The theorems.                                                           *)

\* Whatever the requests do, rows, tokens and requests keep their types.
THEOREM TypeCorrect == Spec => []TypeOK
  BY Invariance, InvStrong, PTL

\* The end of a session is final once acknowledged: no interleaving of
\* refreshes, logouts, deletions and faults of the database brings its row back.
THEOREM RevocationIsFinal == Spec => []RevocationHolds
  BY Invariance, InvStrong, PTL

\* No request gets past a working lookup with a session that was over when
\* the request came.
THEOREM DeadStayOut == Spec => []DeadNeverAdmitted
  BY Invariance, InvStrong, PTL

----------------------------------------------------------------------------
(* Sessions implements SessionRegistry.                                    *)

\* The terms that stand for the variables of SessionRegistry.
Status == [s \in SessionIds |-> IF s \in sessions THEN "open"
                                ELSE IF owner[s] = None THEN "free" ELSE "closed"]
Inside == [r \in Requests |-> IF request[r].pc = "sign" \/ request[r].checked
                              THEN request[r].session ELSE None]

\* The initial states are those of the registry.
LEMMA InitRefines == Init => Registry!Init
  BY DEF Init, Registry!Init, Idle

\* A step that removes rows closes their sessions.
LEMMA Closing ==
  ASSUME SessionsInv, sessions' \subseteq sessions, UNCHANGED owner
  PROVE  \E S \in SUBSET SessionIds : Registry!Close(S)
<1> DEFINE S == sessions \ sessions'
<1>1. S \in SUBSET SessionIds
  BY DEF SessionsInv, RowsOK, Opened
<1>2. \A s \in S : Status[s] = "open"
  BY <1>1 DEF Status
<1>3. \A s \in SessionIds :
         (IF s \in sessions' THEN "open"
          ELSE IF owner'[s] = None THEN "free" ELSE "closed")
           = IF s \in S THEN "closed" ELSE Status[s]
  BY DEF Status, SessionsInv, RowsOK, Opened
<1> HIDE DEF S
<1> QED BY <1>1, <1>2, <1>3 DEF Registry!Close, Status

\* The clients that a step leaves alone stay where they are.
LEMMA Leaving ==
  ASSUME SessionsInv, NEW r \in Requests, Finish(r)
  PROVE  Registry!Leave(r)
<1>1. request' = [request EXCEPT ![r] = Idle]
  BY DEF Finish
<1>2. Idle.pc # "sign" /\ ~Idle.checked
  BY DEF Idle
<1> QED BY <1>1, <1>2 DEF Registry!Leave, SessionsInv

\* A step that changes neither a row nor who is inside is a stutter.
LEMMA Staying ==
  ASSUME SessionsInv, UNCHANGED <<sessions, owner>>,
         \A x \in Requests : Inside[x]' = Inside[x]
  PROVE  UNCHANGED <<Status, Inside>>
  BY DEF Status, Inside

LEMMA StepRefines ==
  ASSUME SessionsInv, SessionsInv', NEW r \in Requests, Step(r)
  PROVE  Registry!Next \/ UNCHANGED <<Status, Inside>>
<1>1. request[r] \in Request /\ RequestOK(r)
  BY DEF SessionsInv
<1>2. CASE Finish(r)
  <2>1. sessions' \subseteq sessions /\ UNCHANGED owner
    BY <1>2 DEF Step, UpdateLastActive, RefreshTooLate, SignAccessToken,
       LookupSession, LookupRefuses, LookupFails, Serve, FindTarget, DeleteTarget,
       DeleteTooLate, DeleteAllSessions, DeleteUser, DeleteUserRefused,
       SweepSessions, Fault, table
  <2> QED BY <1>2, <2>1, Leaving, Closing DEF Registry!Next
<1>3. CASE UpdateLastActive(r)
  <2>1. request' = [request EXCEPT ![r].pc = "sign"]
    BY <1>3 DEF UpdateLastActive, GoTo
  <2>2. Inside[r] = None /\ Status[request[r].session] = "open"
    BY <1>1, <1>3 DEF UpdateLastActive, RequestOK, Inside, Status, SessionsInv, RowsOK,
       Opened
  <2>3. Inside' = [Inside EXCEPT ![r] = request[r].session]
    BY <1>1, <2>1 DEF Inside, SessionsInv, Request
  <2>4. UNCHANGED Status /\ request[r].session \in SessionIds
    BY <1>1, <1>3 DEF UpdateLastActive, Status, table, RequestOK, Opened
  <2> QED BY <2>2, <2>3, <2>4 DEF Registry!Next, Registry!Admit, Inside, Status
<1>4. CASE LookupSession(r)
  <2>1. /\ request'[r].checked /\ request'[r].session = request[r].session
        /\ \A x \in Requests \ {r} : request'[x] = request[x]
    BY <1>1, <1>4 DEF LookupSession, SessionsInv, Request
  <2>2. Inside[r] = None /\ Status[request[r].session] = "open"
    BY <1>1, <1>4 DEF LookupSession, RequestOK, Inside, Status, SessionsInv, RowsOK,
       Opened
  <2>3. Inside' = [Inside EXCEPT ![r] = request[r].session]
    BY <2>1 DEF Inside
  <2>4. UNCHANGED Status /\ request[r].session \in SessionIds
    BY <1>1, <1>4 DEF LookupSession, Status, table, RequestOK, Opened
  <2> QED BY <2>2, <2>3, <2>4 DEF Registry!Next, Registry!Admit, Inside, Status
<1>5. ASSUME NEW label \in Labels \ {"sign"}, GoTo(r, label), request[r].pc # "sign"
      PROVE  Inside' = Inside
  BY <1>1, <1>5 DEF GoTo, Inside, SessionsInv, Request
<1>6. CASE LookupFails(r)
  <2>1. request[r].handler \in Labels \ {"sign"}
    BY <1>1, <1>6 DEF LookupFails, RequestOK, Labels, Admitted, Handlers
  <2>2. GoTo(r, request[r].handler) /\ request[r].pc # "sign"
    BY <1>6 DEF LookupFails
  <2> QED BY <1>5, <1>6, <2>1, <2>2 DEF LookupFails, Status, table
<1>7. CASE FindTarget(r) /\ GoTo(r, "delete")
  <2>1. "delete" \in Labels \ {"sign"} /\ request[r].pc # "sign"
    BY <1>7 DEF FindTarget, Labels, Admitted, Handlers
  <2> QED BY <1>5, <1>7, <2>1 DEF FindTarget, Status, table
<1>8. CASE DeleteUser(r)
  <2>1. "sweep" \in Labels \ {"sign"} /\ request[r].pc # "sign" /\ GoTo(r, "sweep")
    BY <1>8 DEF DeleteUser, Labels, Admitted, Handlers
  <2>2. Inside' = Inside
    BY <1>5, <2>1
  <2>3. sessions' \subseteq sessions /\ UNCHANGED owner
    BY <1>8 DEF DeleteUser
  <2> QED BY <2>2, <2>3, Closing DEF Registry!Next, Inside
<1>9. \/ Finish(r) \/ UpdateLastActive(r) \/ LookupSession(r) \/ LookupFails(r)
      \/ (FindTarget(r) /\ GoTo(r, "delete"))
      \/ DeleteUser(r)
  BY DEF Step, RefreshTooLate, SignAccessToken, LookupRefuses, Serve, FindTarget,
         DeleteTarget, DeleteTooLate, DeleteAllSessions, DeleteUserRefused,
         SweepSessions, Fault, Succeed
<1> QED BY <1>2, <1>3, <1>4, <1>6, <1>7, <1>8, <1>9

LEMMA NextRefines ==
  ASSUME SessionsInv, SessionsInv', [Next]_vars
  PROVE  [Registry!Next]_<<Status, Inside>>
<1>1. ASSUME UNCHANGED <<sessions, owner, request>>
      PROVE  UNCHANGED <<Status, Inside>>
  BY <1>1 DEF Status, Inside
<1>2. CASE UNCHANGED vars
  BY <1>1, <1>2 DEF vars, table
<1>3. CASE Tick
  BY <1>1, <1>3 DEF Tick, table
<1>4. ASSUME NEW u \in Users, NEW s \in SessionIds,
             NEW life \in {ShortLife, LongLife}, GenerateTokens(u, s, life)
      PROVE  Registry!Next
  <2>1. owner' = [owner EXCEPT ![s] = u] /\ sessions' = sessions \cup {s}
        /\ owner[s] = None /\ UNCHANGED request
    BY <1>4 DEF GenerateTokens
  <2>2. Status[s] = "free"
    BY <2>1 DEF Status, SessionsInv, RowsOK, Opened
  <2>3. Status' = [Status EXCEPT ![s] = "open"]
    BY <2>1 DEF Status, SessionsInv, RowsOK
  <2> QED BY <2>1, <2>2, <2>3 DEF Registry!Next, Registry!Open, Status, Inside
<1>5. ASSUME NEW r \in Requests, NEW s \in SessionIds,
             \/ InvalidRefreshToken(r, s) \/ TokenExpired(r, s)
      PROVE  UNCHANGED <<Status, Inside>>
  BY <1>5, <1>1 DEF InvalidRefreshToken, TokenExpired, vars, table
<1>6. ASSUME NEW r \in Requests, NEW s \in SessionIds,
             \/ GetSessionByToken(r, s)
             \/ \E h \in Handlers, t \in SessionIds \cup Users \cup {None} : VerifyToken(r, s, h, t)
      PROVE  UNCHANGED <<Status, Inside>>
  <2>1. /\ request[r].pc = "idle" /\ UNCHANGED <<sessions, owner>>
        /\ request'[r].pc \in {"touch", "lookup"}
        /\ \A x \in Requests \ {r} : request'[x] = request[x]
    <3>1. CASE GetSessionByToken(r, s)
      BY <3>1 DEF GetSessionByToken, table, SessionsInv, Idle
    <3>2. ASSUME NEW h \in Handlers, NEW t \in SessionIds \cup Users \cup {None},
                 VerifyToken(r, s, h, t)
          PROVE  /\ request[r].pc = "idle" /\ UNCHANGED <<sessions, owner>>
                 /\ request'[r].pc \in {"touch", "lookup"}
                 /\ \A x \in Requests \ {r} : request'[x] = request[x]
      BY <3>2 DEF VerifyToken, table, SessionsInv
    <3> QED BY <1>6, <3>1, <3>2
  <2>2. RequestOK(r) /\ RequestOK(r)'
    BY DEF SessionsInv
  <2>3. ~request[r].checked /\ ~request'[r].checked
    BY <2>1, <2>2 DEF RequestOK
  <2> QED BY <2>1, <2>3 DEF Inside, Status
<1>7. ASSUME NEW r \in Requests, Step(r) PROVE [Registry!Next]_<<Status, Inside>>
  BY <1>7, StepRefines
<1>8. Opened \subseteq SessionIds
  BY DEF Opened
<1> QED BY <1>2, <1>3, <1>4, <1>5, <1>6, <1>7, <1>8 DEF Next, Handlers

\* The rows and requests of the code behave as SessionRegistry promises: a
\* session opens once and closes once, and a client that a lookup or a refresh
\* lets in is let in while the session's row is there.
THEOREM KeepsPromise == Spec => KeepsRegistry
<1>1. SessionsInv /\ SessionsInv' /\ [Next]_vars => [Registry!Next]_<<Status, Inside>>
  BY NextRefines
<1> QED BY <1>1, Invariance, InitRefines, PTL
        DEF Spec, KeepsRegistry, Registry!Spec, Status, Inside

=============================================================================
