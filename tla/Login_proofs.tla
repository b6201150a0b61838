---------------------------- MODULE Login_proofs ----------------------------
(***************************************************************************)
(* What holds of Login for every number of accounts, requests, attempts    *)
(* and any clock.                                                          *)
(***************************************************************************)
EXTENDS Login, Counting, TLAPS

USE LoginAssumption DEF LoginAssumption

\* The clock starts at 0 and the registered device is known: the initial
\* values have their types.
LEMMA InitType == Init => TypeOK
  BY DEF Init, TypeOK, Idle, Request, Snapshot, Labels, Results

\* A request that ends, or goes to another label, stays a request.
LEMMA FinishType ==
  ASSUME TypeOK, NEW r \in Requests, Finish(r)
  PROVE  /\ request' \in [Requests -> Request]
         /\ \A q \in Requests : request'[q].pc # "idle" => request'[q].user \in Users
  BY DEF TypeOK, Finish, Idle, Request, Snapshot, Labels, Results

LEMMA GoToType ==
  ASSUME TypeOK, NEW r \in Requests, request[r].pc # "idle",
         NEW label \in Labels, GoTo(r, label)
  PROVE  /\ request' \in [Requests -> Request]
         /\ \A q \in Requests : request'[q].pc # "idle" => request'[q].user \in Users
  <1>1. request[r] \in Request /\ request[r].user \in Users
    BY DEF TypeOK
  <1>2. request' = [request EXCEPT ![r] = [request[r] EXCEPT !.pc = label]]
    BY DEF TypeOK, GoTo
  <1>3. /\ [request[r] EXCEPT !.pc = label] \in Request
        /\ [request[r] EXCEPT !.pc = label].user = request[r].user
    BY <1>1 DEF Request
  <1> QED BY <1>1, <1>2, <1>3 DEF TypeOK

LEMMA ToCommitType ==
  ASSUME TypeOK, NEW r \in Requests, request[r].pc # "idle", NEW x \in Results,
         request' = [request EXCEPT ![r].pc = "commit", ![r].result = x]
  PROVE  /\ request' \in [Requests -> Request]
         /\ \A q \in Requests : request'[q].pc # "idle" => request'[q].user \in Users
  <1>1. request[r] \in Request /\ request[r].user \in Users
    BY DEF TypeOK
  <1>2. request' = [request EXCEPT ![r] =
                      [request[r] EXCEPT !.pc = "commit", !.result = x]]
    BY DEF TypeOK
  <1>3. /\ [request[r] EXCEPT !.pc = "commit", !.result = x] \in Request
        /\ [request[r] EXCEPT !.pc = "commit", !.result = x].user = request[r].user
    BY <1>1 DEF Request, Labels
  <1> QED BY <1>1, <1>2, <1>3 DEF TypeOK

\* Other handlers do not touch a request; they only add to what it saw.
LEMMA OthersKeepRequest ==
  ASSUME TypeOK, Others, NEW q \in Requests
  PROVE  /\ request'[q] \in Request
         /\ request'[q].pc = request[q].pc
         /\ request'[q].user = request[q].user
         /\ request'[q].password = request[q].password
         /\ request'[q].agent = request[q].agent
         /\ request'[q].read = request[q].read
         /\ request'[q].result = request[q].result
         /\ request[q].sawPassword => request'[q].sawPassword
         /\ request[q].sawNoMfa => request'[q].sawNoMfa
<1>1. request[q] \in Request
  BY DEF TypeOK
<1>2. request'[q] \in {request[q], [request[q] EXCEPT !.sawPassword = TRUE],
                       [request[q] EXCEPT !.sawNoMfa = TRUE]}
  BY DEF Others, UpdatePassword, CreateOrUpdateSecret, EnableMfa, DisableMfa,
         WriteMfa, DeleteUser, ForgetDevice
<1>3. CASE request'[q] = request[q]
  BY <1>1, <1>3
<1>4. CASE request'[q] = [request[q] EXCEPT !.sawPassword = TRUE]
  BY <1>1, <1>4 DEF Request
<1>5. CASE request'[q] = [request[q] EXCEPT !.sawNoMfa = TRUE]
  BY <1>1, <1>5 DEF Request
<1> QED BY <1>2, <1>3, <1>4, <1>5

\* Every step keeps the types.
LEMMA NextType == TypeOK /\ [Next]_vars => TypeOK'
<1> SUFFICES ASSUME TypeOK, [Next]_vars PROVE TypeOK'
  OBVIOUS
<1>1. ASSUME NEW r \in Requests, NEW u \in Users, UserNotFound(r, u)
      PROVE  TypeOK'
  BY <1>1 DEF UserNotFound, TypeOK, vars, row, mfa, history
<1>2. ASSUME NEW r \in Requests, NEW u \in Users, NEW p \in Passwords,
             NEW a \in Agents \cup {None}, FindByEmail(r, u, p, a)
      PROVE  TypeOK'
  <2>1. request' \in [Requests -> Request]
    BY <1>2 DEF FindByEmail, TypeOK, Request, Snapshot, Labels, Results
  <2>2. \A q \in Requests : request'[q].pc # "idle" => request'[q].user \in Users
    BY <1>2 DEF FindByEmail, TypeOK
  <2>3. alone' \in [Users -> BOOLEAN]
    BY <1>2 DEF FindByEmail, TypeOK
  <2> QED BY <1>2, <2>1, <2>2, <2>3 DEF FindByEmail, TypeOK, row, mfa
<1>3. ASSUME NEW r \in Requests, RejectLocked(r) PROVE TypeOK'
  BY <1>3, FinishType DEF RejectLocked, TypeOK, row, mfa, history
<1>4. ASSUME NEW r \in Requests, WrongPassword(r) PROVE TypeOK'
  <2>1. wrong' \in [Users -> Nat]
    BY <1>4 DEF WrongPassword, TypeOK
  <2> QED BY <1>4, <2>1, GoToType DEF WrongPassword, TypeOK, row, mfa, Labels
<1>5. ASSUME NEW r \in Requests, RightPassword(r) PROVE TypeOK'
  BY <1>5, GoToType DEF RightPassword, TypeOK, row, mfa, history, Labels
<1>6. ASSUME NEW r \in Requests, UpdateFailedAttempts(r) PROVE TypeOK'
  <2> DEFINE attempts == request[r].read.failedLoginAttempts + 1
  <2>1. attempts \in Nat /\ now + LockoutDuration \in Nat
    BY DEF TypeOK, Request, Snapshot
  <2>2. WriteFailure(r, attempts, attempts >= MaxAttempts)
    BY <1>6 DEF UpdateFailedAttempts
  <2>3. /\ failedLoginAttempts' \in [Users -> Nat]
        /\ lockoutUntil' \in [Users -> Nat]
        /\ streak' \in [Users -> Nat]
    BY <2>1, <2>2 DEF WriteFailure, TypeOK, mfa
  <2> QED BY <2>2, <2>3, FinishType DEF WriteFailure, TypeOK, mfa
<1>7. ASSUME NEW r \in Requests, ResetFailedAttempts(r) PROVE TypeOK'
  <2>1. WriteReset(r, 0, 0)
    BY <1>7 DEF ResetFailedAttempts
  <2>2. alone' \in [Users -> BOOLEAN]
    BY <2>1 DEF WriteReset, TypeOK
  <2>3. /\ failedLoginAttempts' \in [Users -> Nat]
        /\ lockoutUntil' \in [Users -> Nat]
        /\ streak' \in [Users -> Nat]
    BY <2>1 DEF WriteReset, TypeOK
  <2> QED BY <2>1, <2>2, <2>3, GoToType DEF WriteReset, TypeOK, mfa, Labels
<1>8. ASSUME NEW r \in Requests, FindKnownSession(r) PROVE TypeOK'
  BY <1>8, GoToType DEF FindKnownSession, TypeOK, row, mfa, history, Labels
<1>9. ASSUME NEW r \in Requests, SendAlert(r) PROVE TypeOK'
  <2>1. announced' \subseteq [user: Users, agent: Agents \cup {None}]
    BY <1>9 DEF SendAlert, TypeOK, Request
  <2>2. "mfa" \in Labels /\ request[r].pc # "idle" /\ GoTo(r, "mfa")
    BY <1>9 DEF SendAlert, Labels
  <2> QED BY <1>9, <2>1, <2>2, GoToType DEF SendAlert, TypeOK, row, mfa
<1>10. ASSUME NEW r \in Requests, ChallengeMfa(r) PROVE TypeOK'
  BY <1>10, ToCommitType DEF ChallengeMfa, TypeOK, row, mfa, history, Results
<1>11. ASSUME NEW r \in Requests, NoMfa(r) PROVE TypeOK'
  BY <1>11, GoToType DEF NoMfa, TypeOK, row, mfa, history, Labels
<1>12. ASSUME NEW r \in Requests, CreateSession(r) PROVE TypeOK'
  <2>1. sessions' \subseteq [user: Users, agent: Agents \cup {None}]
    BY <1>12 DEF CreateSession, TypeOK, Request
  <2> QED BY <1>12, <2>1, ToCommitType
          DEF CreateSession, TypeOK, row, mfa, history, Results
<1>13. ASSUME NEW r \in Requests, Commit(r) \/ RowGone(r) \/ Fault(r) PROVE TypeOK'
  <2>1. challenged' \subseteq [user: Users, agent: Agents \cup {None}]
    BY <1>13 DEF Commit, RowGone, Fault, TypeOK, Request, mfa
  <2> QED BY <1>13, <2>1, FinishType DEF Commit, RowGone, Fault, TypeOK, row, mfa, history
<1>14. ASSUME Others PROVE TypeOK'
  <2>1. changes' \in 0 .. MaxChanges
    BY <1>14 DEF Others, TypeOK
  <2>2. ASSUME NEW u \in Users, NEW p \in Passwords, UpdatePassword(u, p)
        PROVE  TypeOK'
    <3>1. /\ request' \in [Requests -> Request]
          /\ \A q \in Requests :
                request'[q].pc # "idle" => request'[q].user \in Users
      <4> SUFFICES ASSUME NEW q \in Requests
                   PROVE  /\ request'[q] \in Request
                          /\ request'[q].pc = request[q].pc
                          /\ request'[q].user = request[q].user
        BY <2>2 DEF UpdatePassword, TypeOK
      <4>1. request[q] \in Request
        BY DEF TypeOK
      <4>2. request'[q] \in {request[q], [request[q] EXCEPT !.sawPassword = TRUE]}
        BY <2>2 DEF UpdatePassword
      <4> QED BY <4>1, <4>2 DEF Request
    <3> QED BY <2>1, <2>2, <3>1 DEF UpdatePassword, TypeOK, mfa, history
  <2>3. ASSUME NEW u \in Users, NEW s \in {"disabled", "enabled"}, WriteMfa(u, s)
        PROVE  TypeOK'
    <3>1. /\ request' \in [Requests -> Request]
          /\ \A q \in Requests :
                request'[q].pc # "idle" => request'[q].user \in Users
      <4> SUFFICES ASSUME NEW q \in Requests
                   PROVE  /\ request'[q] \in Request
                          /\ request'[q].pc = request[q].pc
                          /\ request'[q].user = request[q].user
        BY <2>3 DEF WriteMfa, TypeOK
      <4>1. request[q] \in Request
        BY DEF TypeOK
      <4>2. request'[q] \in {request[q], [request[q] EXCEPT !.sawNoMfa = TRUE]}
        BY <2>3 DEF WriteMfa
      <4> QED BY <4>1, <4>2 DEF Request
    <3> QED BY <2>1, <2>3, <3>1 DEF WriteMfa, TypeOK, row, mfa, history
  <2>4. ASSUME NEW u \in Users, DeleteUser(u) PROVE TypeOK'
    BY <2>1, <2>4 DEF DeleteUser, TypeOK, mfa, history
  <2>5. ASSUME NEW s \in sessions, ForgetDevice(s) PROVE TypeOK'
    BY <2>1, <2>5 DEF ForgetDevice, TypeOK, row, mfa, history
  <2> QED BY <1>14, <2>2, <2>3, <2>4, <2>5
          DEF Others, CreateOrUpdateSecret, EnableMfa, DisableMfa
<1>15. CASE Tick
  BY <1>15 DEF Tick, TypeOK, row, mfa, history
<1>16. CASE UNCHANGED vars
  BY <1>16 DEF vars, row, mfa, history, TypeOK
<1>17. ASSUME NEW u \in Users, NEW a \in Agents \cup {None}, VerifyMfaCode(u, a)
       PROVE  TypeOK'
  BY <1>17 DEF VerifyMfaCode, TypeOK, row, history
<1>18. ASSUME NEW d \in verified, CreateMfaSession(d) PROVE TypeOK'
  BY <1>18 DEF CreateMfaSession, TypeOK, row, mfa, history
<1> QED
  BY <1>1, <1>2, <1>3, <1>4, <1>5, <1>6, <1>7, <1>8, <1>9, <1>10, <1>11,
     <1>12, <1>13, <1>14, <1>15, <1>16, <1>17, <1>18 DEF Next, Step

\* Every column, and every local variable a request keeps across an await,
\* has its type in every behaviour.
THEOREM TypeCorrect == Spec => []TypeOK
  BY InitType, NextType, PTL DEF Spec

----------------------------------------------------------------------------
(* Both columns are written together.                                      *)

LEMMA ColumnsAgreeNext ==
  ASSUME TypeOK, ColumnsAgree, [Next]_vars
  PROVE  ColumnsAgree'
<1>1. ASSUME NEW r \in Requests, UpdateFailedAttempts(r) PROVE ColumnsAgree'
  <2>1. request[r].read.failedLoginAttempts \in Nat /\ now \in Nat
    BY DEF TypeOK, Request, Snapshot
  <2> QED BY <1>1, <2>1 DEF UpdateFailedAttempts, WriteFailure, ColumnsAgree, TypeOK
<1>2. ASSUME NEW r \in Requests, ResetFailedAttempts(r) PROVE ColumnsAgree'
  BY <1>2 DEF ResetFailedAttempts, WriteReset, ColumnsAgree, TypeOK
<1>3. ASSUME UNCHANGED <<failedLoginAttempts, lockoutUntil>> PROVE ColumnsAgree'
  BY <1>3 DEF ColumnsAgree
<1> QED
  BY <1>1, <1>2, <1>3
  DEF Next, Step, Others, vars, row, UserNotFound, FindByEmail, RejectLocked,
      WrongPassword, RightPassword, FindKnownSession, SendAlert, ChallengeMfa,
      NoMfa, CreateSession, Commit, RowGone, Fault, UpdatePassword, WriteMfa,
      CreateOrUpdateSecret, EnableMfa, DisableMfa, DeleteUser, ForgetDevice,
      VerifyMfaCode, CreateMfaSession, Tick

\* A deadline is set exactly when the counter has reached MaxAttempts.
THEOREM ColumnsAlwaysAgree == Spec => []ColumnsAgree
<1>1. Init => ColumnsAgree
  BY DEF Init, ColumnsAgree
<1> QED BY <1>1, ColumnsAgreeNext, TypeCorrect, PTL DEF Spec

----------------------------------------------------------------------------
(* The counter never exceeds the wrong passwords tried.  The row alone does *)
(* not carry the induction: a request writes what it computes from the row  *)
(* it has read, so the rows that requests hold must be earned too, and one  *)
(* failure more once bcrypt.compare has found the password wrong.           *)

ReadIsEarned ==
    \A r \in Requests :
        /\ request[r].pc = "compare"
              => request[r].read.failedLoginAttempts <= wrong[request[r].user]
        /\ request[r].pc = "penalise"
              => request[r].read.failedLoginAttempts < wrong[request[r].user]

EarnedInv == TypeOK /\ CounterIsEarned /\ ReadIsEarned

\* A step of one request leaves the others alone.
LEMMA EarnedNext ==
  ASSUME EarnedInv, [Next]_vars
  PROVE  (CounterIsEarned /\ ReadIsEarned)'
<1> USE DEF EarnedInv
<1>0. /\ \A q \in Requests : /\ request[q].read.failedLoginAttempts \in Nat
                             /\ request[q].pc # "idle" => request[q].user \in Users
      /\ \A u \in Users : failedLoginAttempts[u] \in Nat /\ wrong[u] \in Nat
  BY DEF TypeOK, Request, Snapshot
<1>1. ASSUME NEW r \in Requests, NEW u \in Users, NEW p \in Passwords,
             NEW a \in Agents \cup {None}, FindByEmail(r, u, p, a)
      PROVE  (CounterIsEarned /\ ReadIsEarned)'
  BY <1>1, <1>0 DEF FindByEmail, CounterIsEarned, ReadIsEarned, TypeOK, row, mfa
<1>2. ASSUME NEW r \in Requests, WrongPassword(r)
      PROVE  (CounterIsEarned /\ ReadIsEarned)'
  <2>1. \A u \in Users : wrong'[u] \in Nat /\ wrong[u] <= wrong'[u]
    BY <1>2, <1>0 DEF WrongPassword, TypeOK
  <2>2. wrong'[request[r].user] = wrong[request[r].user] + 1
    BY <1>2, <1>0 DEF WrongPassword, TypeOK
  <2>3. CounterIsEarned'
    BY <1>2, <1>0, <2>1 DEF WrongPassword, CounterIsEarned, row
  <2>4. ReadIsEarned'
    BY <1>2, <1>0, <2>1, <2>2 DEF WrongPassword, GoTo, ReadIsEarned, TypeOK
  <2> QED BY <2>3, <2>4
<1>3. ASSUME NEW r \in Requests, UpdateFailedAttempts(r)
      PROVE  (CounterIsEarned /\ ReadIsEarned)'
  BY <1>3, <1>0 DEF UpdateFailedAttempts, WriteFailure, Finish, Idle,
                    CounterIsEarned, ReadIsEarned, TypeOK
<1>4. ASSUME NEW r \in Requests, ResetFailedAttempts(r)
      PROVE  (CounterIsEarned /\ ReadIsEarned)'
  BY <1>4, <1>0 DEF ResetFailedAttempts, WriteReset, GoTo,
                    CounterIsEarned, ReadIsEarned, TypeOK
\* Every other step writes neither the counter nor the history, and moves no
\* request to where it would write the counter.
<1>5. ASSUME UNCHANGED <<failedLoginAttempts, wrong>>,
             \A q \in Requests :
                request'[q].pc \in {"compare", "penalise"}
                   => /\ request'[q].pc = request[q].pc
                      /\ request'[q].user = request[q].user
                      /\ request'[q].read = request[q].read
      PROVE  (CounterIsEarned /\ ReadIsEarned)'
  BY <1>5 DEF CounterIsEarned, ReadIsEarned
<1>6. ASSUME NEW r \in Requests,
             \/ RejectLocked(r) \/ RightPassword(r) \/ FindKnownSession(r)
             \/ SendAlert(r) \/ ChallengeMfa(r) \/ NoMfa(r) \/ CreateSession(r)
             \/ Commit(r) \/ RowGone(r) \/ Fault(r)
      PROVE  (CounterIsEarned /\ ReadIsEarned)'
  <2>1. CASE RejectLocked(r) \/ Commit(r) \/ RowGone(r) \/ Fault(r)
    BY <2>1, <1>5 DEF RejectLocked, Commit, RowGone, Fault, Finish, Idle, row,
                      history, TypeOK
  <2>2. CASE RightPassword(r) \/ FindKnownSession(r) \/ SendAlert(r) \/ NoMfa(r)
    <3>1. UNCHANGED <<failedLoginAttempts, wrong>>
      BY <2>2 DEF RightPassword, FindKnownSession, SendAlert, NoMfa, row, history
    <3>2. PICK label \in {"reset", "mfa", "mail", "create"} : GoTo(r, label)
      BY <2>2 DEF RightPassword, FindKnownSession, SendAlert, NoMfa
    <3> QED BY <3>1, <3>2, <1>5 DEF GoTo, TypeOK
  <2>3. CASE ChallengeMfa(r) \/ CreateSession(r)
    <3>1. UNCHANGED <<failedLoginAttempts, wrong>>
      BY <2>3 DEF ChallengeMfa, CreateSession, row, history
    <3>2. PICK x \in Results : request' =
              [request EXCEPT ![r].pc = "commit", ![r].result = x]
      BY <2>3 DEF ChallengeMfa, CreateSession, Results
    <3>3. \A q \in Requests : request'[q].pc \in {"compare", "penalise"} => q # r
      BY <3>2 DEF TypeOK, Request
    <3> QED BY <3>1, <3>2, <3>3, <1>5 DEF TypeOK
  <2> QED BY <1>6, <2>1, <2>2, <2>3
<1>7. ASSUME Others
      PROVE  (CounterIsEarned /\ ReadIsEarned)'
  <2>1. UNCHANGED <<failedLoginAttempts, wrong>>
    BY <1>7 DEF Others, UpdatePassword, WriteMfa, CreateOrUpdateSecret, EnableMfa,
                DisableMfa, DeleteUser, ForgetDevice, row, history
  <2>2. \A q \in Requests : /\ request'[q].pc = request[q].pc
                            /\ request'[q].user = request[q].user
                            /\ request'[q].read = request[q].read
    BY <1>7, OthersKeepRequest
  <2> QED BY <2>1, <2>2, <1>5
<1>8. ASSUME \/ Tick \/ UNCHANGED vars
             \/ \E u \in Users, a \in Agents \cup {None} : VerifyMfaCode(u, a)
             \/ \E d \in verified : CreateMfaSession(d)
      PROVE  (CounterIsEarned /\ ReadIsEarned)'
  BY <1>8, <1>5 DEF Tick, VerifyMfaCode, CreateMfaSession, vars, row, history
<1> QED
  BY <1>1, <1>2, <1>3, <1>4, <1>6, <1>7, <1>8 DEF Next, Step, UserNotFound

\* No interleaving of requests, and no fault, locks an account that did not
\* have its wrong passwords: the counter is at most their number.
THEOREM CounterAlwaysEarned == Spec => []CounterIsEarned
<1>1. Init => EarnedInv
  BY InitType DEF Init, EarnedInv, CounterIsEarned, ReadIsEarned, Idle
<1>2. EarnedInv /\ [Next]_vars => EarnedInv'
  BY EarnedNext, NextType DEF EarnedInv
<1>3. EarnedInv => CounterIsEarned
  BY DEF EarnedInv
<1> QED BY <1>1, <1>2, <1>3, PTL DEF Spec

----------------------------------------------------------------------------
(* What a request was seen to deserve.  NoMfa lets a request go on because  *)
(* MFA is off at that instant; that it is noted then already is because it  *)
(* is noted whenever the row is read or MFA goes off.                       *)

Authenticated == {"reset", "known", "mail", "mfa", "create", "commit"}

RequestOK(q) ==
    /\ q.result # None => q.pc = "commit"
    /\ q.pc = "compare" /\ q.password = q.read.password => q.sawPassword
    /\ q.pc \in Authenticated => q.sawPassword
    /\ q.pc # "idle" /\ mfaSecret[q.user] # "enabled" => q.sawNoMfa
    /\ q.pc = "create" \/ q.result = "Tokens" => q.sawNoMfa
    /\ q.pc \in {"mfa", "create", "commit"} /\ q.agent # None
          => [user |-> q.user, agent |-> q.agent] \in Introduced

RequestsOK == \A r \in Requests : RequestOK(request[r])

JustifiedInv == TypeOK /\ DeviceAnnounced /\ RequestsOK

\* One request moves to a state it deserves; the others keep theirs, because
\* devices stay introduced.
LEMMA JustifiedStep ==
  ASSUME TypeOK, RequestsOK, NEW r \in Requests, NEW q, RequestOK(q),
         request' = [request EXCEPT ![r] = q],
         mfaSecret' = mfaSecret, Introduced \subseteq Introduced'
  PROVE  RequestsOK'
<1> SUFFICES ASSUME NEW s \in Requests PROVE RequestOK(request[s])'
  BY DEF RequestsOK
<1>1. CASE s = r
  <2>1. request'[s] = q
    BY <1>1 DEF TypeOK
  <2> QED BY <2>1 DEF RequestOK
<1>2. CASE s # r
  <2>1. request'[s] = request[s] /\ RequestOK(request[s])
    BY <1>2 DEF TypeOK, RequestsOK
  <2> QED BY <2>1 DEF RequestOK
<1> QED BY <1>1, <1>2

\* What a request is after GoTo.
LEMMA GoToFields ==
  ASSUME TypeOK, NEW r \in Requests, NEW label \in Labels
  PROVE  LET q == [request[r] EXCEPT !.pc = label]
         IN  /\ GoTo(r, label) => request' = [request EXCEPT ![r] = q]
             /\ q.pc = label /\ q.user = request[r].user
             /\ q.password = request[r].password /\ q.agent = request[r].agent
             /\ q.read = request[r].read /\ q.result = request[r].result
             /\ q.sawPassword = request[r].sawPassword
             /\ q.sawNoMfa = request[r].sawNoMfa
<1>1. request[r] \in Request /\ request \in [Requests -> Request]
  BY DEF TypeOK
<1> QED BY <1>1 DEF Request, GoTo

LEMMA IdleJustified == RequestOK(Idle)
<1>1. Idle.pc = "idle" /\ Idle.result = None
  BY DEF Idle
<1>2. None # "Tokens"
  OBVIOUS
<1> QED BY <1>1, <1>2 DEF RequestOK, Authenticated

\* Steps of the handler that only move the request.
LEMMA JustifiedMove ==
  ASSUME TypeOK, RequestsOK, NEW r \in Requests,
         \/ RejectLocked(r) \/ WrongPassword(r) \/ RightPassword(r)
         \/ UpdateFailedAttempts(r) \/ ResetFailedAttempts(r)
         \/ ChallengeMfa(r) \/ NoMfa(r) \/ CreateSession(r) \/ Commit(r)
         \/ RowGone(r) \/ Fault(r)
  PROVE  RequestsOK' /\ Introduced' = Introduced
<1> DEFINE p == request[r]
<1>0. p \in Request /\ RequestOK(p) /\ (p.pc # "idle" => p.user \in Users)
  BY DEF TypeOK, RequestsOK
<1>1. CASE RejectLocked(r) \/ Commit(r) \/ RowGone(r) \/ Fault(r)
           \/ UpdateFailedAttempts(r)
  <2>1. /\ request' = [request EXCEPT ![r] = Idle]
        /\ UNCHANGED <<mfaSecret, Introduced>>
    BY <1>1 DEF RejectLocked, Commit, RowGone, Fault, Finish, mfa, history, Introduced,
                UpdateFailedAttempts, WriteFailure
  <2> QED BY <2>1, IdleJustified, JustifiedStep
<1>2. CASE WrongPassword(r)
  <2>1. /\ GoTo(r, "penalise") /\ "penalise" \in Labels /\ p.pc = "compare"
        /\ UNCHANGED <<mfaSecret, Introduced>>
    BY <1>2 DEF WrongPassword, Labels, mfa, Introduced
  <2> DEFINE q == [p EXCEPT !.pc = "penalise"]
  <2>2. /\ request' = [request EXCEPT ![r] = q]
        /\ q.pc = "penalise" /\ q.user = p.user /\ q.result = p.result
        /\ q.sawNoMfa = p.sawNoMfa
    BY <2>1, GoToFields
  <2> HIDE DEF p, q
  <2>3. RequestOK(q)
    BY <1>0, <2>1, <2>2 DEF RequestOK, Authenticated
  <2> QED BY <2>1, <2>2, <2>3, JustifiedStep
<1>3. CASE RightPassword(r) \/ ResetFailedAttempts(r)
  <2>1. PICK label \in {"reset", "known"} :
           /\ GoTo(r, label) /\ label \in Labels
           /\ UNCHANGED <<mfaSecret, Introduced>>
           /\ p.pc \in {"compare", "reset"} /\ p.sawPassword
    <3>1. CASE RightPassword(r)
      <4>1. p.pc = "compare" /\ p.password = p.read.password /\ GoTo(r, "reset")
            /\ UNCHANGED <<mfaSecret, Introduced>>
        BY <3>1 DEF RightPassword, mfa, history, Introduced
      <4> QED BY <1>0, <4>1 DEF RequestOK, Labels
    <3>2. CASE ResetFailedAttempts(r)
      <4>1. p.pc = "reset" /\ GoTo(r, "known") /\ UNCHANGED <<mfaSecret, Introduced>>
        BY <3>2 DEF ResetFailedAttempts, WriteReset, mfa, Introduced
      <4> QED BY <1>0, <4>1 DEF RequestOK, Labels, Authenticated
    <3> QED BY <1>3, <3>1, <3>2
  <2> DEFINE q == [p EXCEPT !.pc = label]
  <2>2. /\ request' = [request EXCEPT ![r] = q]
        /\ q.pc = label /\ q.user = p.user /\ q.result = p.result
        /\ q.sawNoMfa = p.sawNoMfa /\ q.sawPassword = p.sawPassword
    BY <2>1, GoToFields
  <2> HIDE DEF p, q
  <2>3. RequestOK(q)
    BY <1>0, <2>1, <2>2 DEF RequestOK, Authenticated
  <2> QED BY <2>1, <2>2, <2>3, JustifiedStep
<1>4. CASE NoMfa(r)
  <2>1. /\ GoTo(r, "create") /\ "create" \in Labels /\ p.pc = "mfa"
        /\ mfaSecret[p.user] # "enabled"
        /\ UNCHANGED <<mfaSecret, Introduced>>
    BY <1>4 DEF NoMfa, Labels, mfa, history, Introduced
  <2> DEFINE q == [p EXCEPT !.pc = "create"]
  <2>2. /\ request' = [request EXCEPT ![r] = q]
        /\ q.pc = "create" /\ q.user = p.user /\ q.agent = p.agent
        /\ q.result = p.result
        /\ q.sawNoMfa = p.sawNoMfa /\ q.sawPassword = p.sawPassword
    BY <2>1, GoToFields
  <2> HIDE DEF p, q
  <2>3. RequestOK(q)
    BY <1>0, <2>1, <2>2 DEF RequestOK, Authenticated
  <2> QED BY <2>1, <2>2, <2>3, JustifiedStep
<1>5. CASE ChallengeMfa(r) \/ CreateSession(r)
  <2>1. PICK x \in {"MfaToken", "Tokens"} :
          /\ request' = [request EXCEPT ![r].pc = "commit", ![r].result = x]
          /\ p.pc \in {"mfa", "create"} /\ (x = "Tokens" => p.pc = "create")
          /\ UNCHANGED <<mfaSecret, Introduced>>
    BY <1>5 DEF ChallengeMfa, CreateSession, mfa, history, Introduced
  <2> DEFINE q == [p EXCEPT !.pc = "commit", !.result = x]
  <2>2. request' = [request EXCEPT ![r] = q]
    BY <2>1 DEF TypeOK
  <2>3. /\ q.pc = "commit" /\ q.user = p.user /\ q.agent = p.agent /\ q.result = x
        /\ q.sawNoMfa = p.sawNoMfa /\ q.sawPassword = p.sawPassword
    BY <1>0 DEF Request
  <2> HIDE DEF p, q
  <2>4. RequestOK(q)
    BY <1>0, <2>1, <2>3 DEF RequestOK, Authenticated
  <2> QED BY <2>1, <2>2, <2>4, JustifiedStep
<1> QED BY <1>1, <1>2, <1>3, <1>4, <1>5
        DEF RejectLocked, WrongPassword, RightPassword, UpdateFailedAttempts,
            WriteFailure, ResetFailedAttempts, WriteReset, ChallengeMfa, NoMfa,
            CreateSession, Commit, RowGone, Fault, mfa, history, Introduced

LEMMA JustifiedRead ==
  ASSUME TypeOK, RequestsOK, NEW r \in Requests, NEW u \in Users,
         NEW p \in Passwords, NEW a \in Agents \cup {None}, FindByEmail(r, u, p, a)
  PROVE  RequestsOK'
<1> DEFINE q == [pc |-> "compare", user |-> u, password |-> p, agent |-> a,
                 read |-> [password |-> password[u],
                           failedLoginAttempts |-> failedLoginAttempts[u],
                           lockoutUntil |-> lockoutUntil[u]],
                 result |-> None,
                 sawPassword |-> p = password[u],
                 sawNoMfa |-> mfaSecret[u] # "enabled"]
<1>1. request' = [request EXCEPT ![r] = q] /\ UNCHANGED <<mfaSecret, Introduced>>
  BY DEF FindByEmail, mfa, Introduced
<1>2. /\ q.pc = "compare" /\ q.user = u /\ q.password = p
      /\ q.read.password = password[u] /\ q.result = None
      /\ q.sawPassword = (p = password[u])
      /\ q.sawNoMfa = (mfaSecret[u] # "enabled")
  OBVIOUS
<1> HIDE DEF q
<1>3. RequestOK(q)
  BY <1>2 DEF RequestOK, Authenticated
<1> QED BY <1>1, <1>3, JustifiedStep

\* The device is known by a session of this user and this agent, which was
\* announced; or the alert announces it.
LEMMA JustifiedDevice ==
  ASSUME TypeOK, RequestsOK, DeviceAnnounced, NEW r \in Requests,
         FindKnownSession(r) \/ SendAlert(r)
  PROVE  RequestsOK' /\ Introduced \subseteq Introduced'
<1> DEFINE p == request[r]
<1>0. p \in Request /\ RequestOK(p)
  BY DEF TypeOK, RequestsOK
<1>1. PICK label \in {"mfa", "mail"} :
        /\ GoTo(r, label) /\ label \in Labels /\ mfaSecret' = mfaSecret
        /\ Introduced \subseteq Introduced'
        /\ p.pc \in {"known", "mail"}
        /\ label = "mfa" /\ p.agent # None
              => [user |-> p.user, agent |-> p.agent] \in Introduced'
  <2>1. CASE SendAlert(r)
    BY <2>1 DEF SendAlert, Labels, mfa, Introduced
  <2>2. CASE FindKnownSession(r)
    <3>1. /\ GoTo(r, IF KnownDevice(p.user, p.agent) THEN "mfa" ELSE "mail")
          /\ p.pc = "known" /\ UNCHANGED <<mfaSecret, Introduced>>
      BY <2>2 DEF FindKnownSession, mfa, history, Introduced
    <3>2. ASSUME KnownDevice(p.user, p.agent), p.agent # None
          PROVE  [user |-> p.user, agent |-> p.agent] \in Introduced
      <4>1. PICK s \in sessions : s.user = p.user /\ s.agent = p.agent
        BY <3>2 DEF KnownDevice
      <4>2. s \in Introduced
        BY <3>2, <4>1 DEF DeviceAnnounced
      <4>3. s = [user |-> s.user, agent |-> s.agent]
        BY DEF TypeOK
      <4> QED BY <4>1, <4>2, <4>3
    <3>3. "mfa" \in Labels /\ "mail" \in Labels
      BY DEF Labels
    <3>4. CASE KnownDevice(p.user, p.agent)
      BY <3>1, <3>2, <3>3, <3>4
    <3>5. CASE ~KnownDevice(p.user, p.agent)
      BY <3>1, <3>3, <3>5
    <3> QED BY <3>4, <3>5
  <2> QED BY <2>1, <2>2
<1> DEFINE q == [p EXCEPT !.pc = label]
<1>2. /\ request' = [request EXCEPT ![r] = q]
      /\ q.pc = label /\ q.user = p.user /\ q.agent = p.agent
      /\ q.result = p.result
      /\ q.sawNoMfa = p.sawNoMfa /\ q.sawPassword = p.sawPassword
  BY <1>1, GoToFields
<1> HIDE DEF p, q
<1>3. /\ q.result # None => q.pc = "commit"
      /\ q.sawPassword
      /\ q.pc # "idle" /\ mfaSecret[q.user] # "enabled" => q.sawNoMfa
      /\ q.pc # "create" /\ q.pc # "compare" /\ q.result # "Tokens"
  BY <1>0, <1>1, <1>2 DEF RequestOK, Authenticated
<1>4. \A s \in Requests : RequestOK(request[s])'
  <2> SUFFICES ASSUME NEW s \in Requests PROVE RequestOK(request[s])'
    OBVIOUS
  <2>1. CASE s = r
    <3>1. request'[s] = q
      BY <1>2, <2>1 DEF TypeOK
    <3> QED BY <1>1, <1>2, <1>3, <3>1 DEF RequestOK
  <2>2. CASE s # r
    <3>1. request'[s] = request[s] /\ RequestOK(request[s])
      BY <1>2, <2>2 DEF TypeOK, RequestsOK
    <3> QED BY <1>1, <3>1 DEF RequestOK
  <2> QED BY <2>1, <2>2
<1> QED BY <1>1, <1>4 DEF RequestsOK

\* MFA goes off only together with the note of it.
LEMMA JustifiedOthers ==
  ASSUME TypeOK, RequestsOK, Others
  PROVE  RequestsOK' /\ Introduced' = Introduced
<1>1. Introduced' = Introduced
  BY DEF Others, UpdatePassword, WriteMfa, CreateOrUpdateSecret, EnableMfa,
         DisableMfa, DeleteUser, ForgetDevice, mfa, history, Introduced
<1>2. ASSUME NEW q \in Requests, request[q].pc # "idle",
             mfaSecret'[request[q].user] # "enabled"
      PROVE  mfaSecret[request[q].user] # "enabled" \/ request'[q].sawNoMfa
  <2>0. request[q] \in Request /\ request[q].user \in Users
    BY <1>2 DEF TypeOK
  <2>1. CASE \E u \in Users, s \in {"disabled", "enabled"} : WriteMfa(u, s)
    <3>1. PICK u \in Users, s \in {"disabled", "enabled"} : WriteMfa(u, s)
      BY <2>1
    <3>2. CASE request[q].user = u
      <4>1. mfaSecret'[u] = s
        BY <3>1 DEF WriteMfa, TypeOK
      <4>2. request'[q] = [request[q] EXCEPT !.sawNoMfa = TRUE]
        BY <1>2, <3>1, <3>2, <4>1 DEF WriteMfa, InFlight
      <4> QED BY <2>0, <4>2 DEF Request
    <3>3. CASE request[q].user # u
      <4>1. mfaSecret'[request[q].user] = mfaSecret[request[q].user]
        BY <2>0, <3>1, <3>3 DEF WriteMfa, TypeOK
      <4> QED BY <1>2, <4>1
    <3> QED BY <3>2, <3>3
  <2>2. CASE mfaSecret' = mfaSecret
    BY <1>2, <2>2
  <2> QED
    BY <2>1, <2>2 DEF Others, UpdatePassword, CreateOrUpdateSecret, EnableMfa,
                      DisableMfa, DeleteUser, ForgetDevice, row, mfa
<1> SUFFICES ASSUME NEW q \in Requests PROVE RequestOK(request[q])'
  BY <1>1 DEF RequestsOK
<1>3. RequestOK(request[q])
  BY DEF RequestsOK
<1>4. /\ request'[q].pc = request[q].pc
      /\ request'[q].user = request[q].user
      /\ request'[q].password = request[q].password
      /\ request'[q].agent = request[q].agent
      /\ request'[q].read = request[q].read
      /\ request'[q].result = request[q].result
      /\ request[q].sawPassword => request'[q].sawPassword
      /\ request[q].sawNoMfa => request'[q].sawNoMfa
  BY OthersKeepRequest
<1> QED BY <1>1, <1>2, <1>3, <1>4 DEF RequestOK

\* A step that does not touch the requests.
LEMMA JustifiedRest ==
  ASSUME RequestsOK, UNCHANGED <<request, mfaSecret>>,
         Introduced \subseteq Introduced'
  PROVE  RequestsOK'
<1> SUFFICES ASSUME NEW q \in Requests PROVE RequestOK(request[q])'
  BY DEF RequestsOK
<1>1. RequestOK(request[q]) /\ request'[q] = request[q]
  BY DEF RequestsOK
<1> QED BY <1>1 DEF RequestOK

LEMMA JustifiedNext == JustifiedInv /\ [Next]_vars => JustifiedInv'
<1> SUFFICES ASSUME JustifiedInv, [Next]_vars PROVE JustifiedInv'
  OBVIOUS
<1> USE DEF JustifiedInv
<1>1. RequestsOK' /\ Introduced \subseteq Introduced'
  <2>1. ASSUME NEW r \in Requests, NEW u \in Users, NEW p \in Passwords,
               NEW a \in Agents \cup {None}, FindByEmail(r, u, p, a)
        PROVE  RequestsOK' /\ Introduced \subseteq Introduced'
    <3>1. Introduced' = Introduced
      BY <2>1 DEF FindByEmail, mfa, Introduced
    <3> QED BY <2>1, <3>1, JustifiedRead
  <2>2. ASSUME NEW r \in Requests, Step(r) \/ Fault(r)
        PROVE  RequestsOK' /\ Introduced \subseteq Introduced'
    BY <2>2, JustifiedMove, JustifiedDevice DEF Step
  <2>3. CASE Others
    BY <2>3, JustifiedOthers
  <2>4. CASE UNCHANGED <<request, mfaSecret>> /\ Introduced \subseteq Introduced'
    BY <2>4, JustifiedRest
  <2>5. ASSUME NEW u \in Users, NEW a \in Agents \cup {None}, VerifyMfaCode(u, a)
        PROVE  RequestsOK' /\ Introduced \subseteq Introduced'
    BY <2>4, <2>5 DEF VerifyMfaCode, history, Introduced
  <2>6. CASE \/ Tick \/ UNCHANGED vars
             \/ \E d \in verified : CreateMfaSession(d)
    BY <2>4, <2>6 DEF Tick, CreateMfaSession, vars, mfa, history, Introduced
  <2> QED BY <2>1, <2>2, <2>3, <2>5, <2>6 DEF Next, UserNotFound
<1>2. ASSUME NEW d \in sessions', d \notin sessions, d.agent # None
      PROVE  d \in Introduced
  <2>1. \/ \E r \in Requests : CreateSession(r)
        \/ \E v \in verified : CreateMfaSession(v)
    BY <1>2 DEF Next, Step, Others, vars, row, UserNotFound, FindByEmail,
         RejectLocked, WrongPassword, RightPassword, UpdateFailedAttempts,
         WriteFailure, ResetFailedAttempts, WriteReset, FindKnownSession,
         SendAlert, ChallengeMfa, NoMfa, Commit, RowGone, Fault, UpdatePassword,
         WriteMfa, CreateOrUpdateSecret, EnableMfa, DisableMfa, DeleteUser,
         ForgetDevice, VerifyMfaCode, Tick
  <2>2. ASSUME NEW r \in Requests, CreateSession(r) PROVE d \in Introduced
    <3>1. d = [user |-> request[r].user, agent |-> request[r].agent]
      BY <1>2, <2>2 DEF CreateSession
    <3> QED BY <1>2, <2>2, <3>1 DEF CreateSession, RequestsOK, RequestOK
  <2>3. ASSUME NEW v \in verified, CreateMfaSession(v) PROVE d \in Introduced
    BY <1>2, <2>3 DEF CreateMfaSession, Introduced
  <2> QED BY <2>1, <2>2, <2>3
<1>3. ASSUME NEW d \in challenged', d \notin challenged, d.agent # None
      PROVE  d \in Introduced
  <2>1. PICK r \in Requests : Commit(r)
    BY <1>3 DEF Next, Step, Others, vars, row, mfa, UserNotFound, FindByEmail,
         RejectLocked, WrongPassword, RightPassword, UpdateFailedAttempts,
         WriteFailure, ResetFailedAttempts, WriteReset, FindKnownSession,
         SendAlert, ChallengeMfa, NoMfa, CreateSession, RowGone, Fault,
         UpdatePassword, WriteMfa, CreateOrUpdateSecret, EnableMfa, DisableMfa,
         DeleteUser, ForgetDevice, VerifyMfaCode, CreateMfaSession, Tick
  <2>2. d = [user |-> request[r].user, agent |-> request[r].agent]
    BY <1>3, <2>1 DEF Commit
  <2> QED BY <1>3, <2>1, <2>2 DEF Commit, RequestsOK, RequestOK
<1>4. DeviceAnnounced'
  <2> SUFFICES ASSUME NEW d \in sessions' \cup challenged', d.agent # None
               PROVE  d \in Introduced'
    BY DEF DeviceAnnounced
  <2>1. d \in Introduced
    BY <1>2, <1>3 DEF DeviceAnnounced
  <2> QED BY <1>1, <2>1
<1> QED BY <1>1, <1>4, NextType

LEMMA AlwaysJustified == Spec => []JustifiedInv
<1>1. Init => JustifiedInv
  BY InitType, IdleJustified
     DEF Init, JustifiedInv, RequestsOK, DeviceAnnounced, Introduced
<1> QED BY <1>1, JustifiedNext, PTL DEF Spec

\* Whatever is changed between the awaits of a login, tokens only go to a
\* request that gave the account's password and met MFA switched off, and a
\* challenge only to one that gave the password.
THEOREM TokensAlwaysJustified == Spec => []TokensJustified
<1>1. JustifiedInv => TokensJustified
  <2>1. None # "Tokens" /\ None # "MfaToken"
    OBVIOUS
  <2> QED BY <2>1 DEF JustifiedInv, RequestsOK, RequestOK, TokensJustified,
                      Authenticated
<1> QED BY <1>1, AlwaysJustified, PTL

\* A device that identifies itself has a session, or a challenge for the
\* second factor, only once the owner was told of it or a second factor was
\* given there, though the look at the known devices, the alert, the challenge
\* and the session are several awaits apart.
THEOREM DeviceAlwaysAnnounced == Spec => []DeviceAnnounced
<1>1. JustifiedInv => DeviceAnnounced
  BY DEF JustifiedInv
<1> QED BY <1>1, AlwaysJustified, PTL

----------------------------------------------------------------------------
(* While requests do not overlap, one at most is in flight, and what it     *)
(* read is still what the row holds when it writes.                         *)

AloneOK(u) ==
    /\ failedLoginAttempts[u] = streak[u]
    /\ \A r, q \in InFlight(u) : r = q
    /\ \A r \in InFlight(u) : request[r].pc \in {"compare", "penalise"}
          => request[r].read.failedLoginAttempts = failedLoginAttempts[u]

IdleIsNobodys == \A r \in Requests : request[r].pc = "idle" => request[r].user = None

AloneInv ==
    /\ TypeOK
    /\ IdleIsNobodys
    /\ \A u \in Users : alone[u] => AloneOK(u)

\* A request that leaves, or goes on from what it read, overlaps with no more
\* requests than before.
LEMMA AloneMove ==
  ASSUME AloneInv, UNCHANGED <<failedLoginAttempts, streak, alone>>,
         \A q \in Requests :
            \/ request'[q].pc = "idle" /\ request'[q].user = None
            \/ /\ request'[q].user = request[q].user
               /\ request'[q].read = request[q].read
               /\ request'[q].pc = "idle" => request[q].pc = "idle"
               /\ request'[q].pc \in {"compare", "penalise"}
                     => request[q].pc \in {"compare", "penalise"}
  PROVE  IdleIsNobodys' /\ \A u \in Users : alone'[u] => AloneOK(u)'
<1>1. IdleIsNobodys'
  BY DEF AloneInv, IdleIsNobodys
<1> SUFFICES ASSUME NEW u \in Users, alone'[u] PROVE AloneOK(u)'
  BY <1>1
<1>2. AloneOK(u)
  BY DEF AloneInv
<1>3. ASSUME NEW q \in InFlight(u)'
      PROVE  /\ q \in InFlight(u)
             /\ request'[q].read = request[q].read
             /\ request'[q].pc \in {"compare", "penalise"}
                   => request[q].pc \in {"compare", "penalise"}
  <2>1. q \in Requests /\ request'[q].user = u /\ u # None
    BY <1>3 DEF InFlight
  <2> QED BY <2>1 DEF InFlight
<1> QED BY <1>2, <1>3 DEF AloneOK

\* A request that moves keeps what it has read.
LEMMA MoveFields ==
  ASSUME TypeOK, NEW r \in Requests, NEW label \in Labels, GoTo(r, label)
  PROVE  \A q \in Requests :
            /\ request'[q].user = request[q].user
            /\ request'[q].read = request[q].read
            /\ request'[q].pc = IF q = r THEN label ELSE request[q].pc
<1>1. request \in [Requests -> Request] /\ request[r] \in Request
  BY DEF TypeOK
<1> QED BY <1>1 DEF GoTo, Request

LEMMA AloneNext == AloneInv /\ [Next]_vars => AloneInv'
<1> SUFFICES ASSUME AloneInv, [Next]_vars
             PROVE  IdleIsNobodys' /\ \A u \in Users : alone'[u] => AloneOK(u)'
  BY NextType DEF AloneInv
<1> DEFINE Goal == IdleIsNobodys' /\ \A u \in Users : alone'[u] => AloneOK(u)'
<1>0. TypeOK /\ IdleIsNobodys /\ \A u \in Users : alone[u] => AloneOK(u)
  BY DEF AloneInv
<1>1. ASSUME NEW r \in Requests, NEW u \in Users, NEW p \in Passwords,
             NEW a \in Agents \cup {None}, FindByEmail(r, u, p, a)
      PROVE  Goal
  <2>1. /\ request'[r].pc = "compare" /\ request'[r].user = u
        /\ request'[r].read.failedLoginAttempts = failedLoginAttempts[u]
        /\ \A q \in Requests : q # r => request'[q] = request[q]
        /\ UNCHANGED <<failedLoginAttempts, streak>>
        /\ alone'[u] = (alone[u] /\ InFlight(u) = {})
        /\ \A v \in Users : v # u => alone'[v] = alone[v]
    BY <1>0, <1>1 DEF FindByEmail, TypeOK, row, mfa
  <2>2. IdleIsNobodys'
    BY <1>0, <2>1 DEF IdleIsNobodys
  <2>3. \A v \in Users : InFlight(v)' \subseteq InFlight(v) \cup
                            (IF v = u THEN {r} ELSE {})
    BY <2>1 DEF InFlight
  <2>4. ASSUME NEW v \in Users, alone'[v] PROVE AloneOK(v)'
    <3>1. CASE v = u
      <4>1. InFlight(u)' \subseteq {r} /\ AloneOK(u)
        BY <1>0, <2>1, <2>3, <2>4, <3>1
      <4> QED BY <2>1, <3>1, <4>1 DEF AloneOK
    <3>2. CASE v # u
      <4>1. InFlight(v)' \subseteq InFlight(v) /\ AloneOK(v)
        BY <1>0, <2>1, <2>3, <2>4, <3>2
      <4>2. \A q \in InFlight(v)' : q # r /\ q \in Requests
        BY <2>1, <3>2 DEF InFlight
      <4> QED BY <2>1, <4>1, <4>2 DEF AloneOK
    <3> QED BY <3>1, <3>2
  <2> QED BY <2>2, <2>4
<1>2. ASSUME NEW r \in Requests, UpdateFailedAttempts(r) PROVE Goal
  <2>0. PICK u \in Users : /\ u = request[r].user
                           /\ request[r] \in Request /\ request[r].pc = "penalise"
    BY <1>0, <1>2 DEF UpdateFailedAttempts, WriteFailure, TypeOK
  <2>1. /\ failedLoginAttempts'[u] = request[r].read.failedLoginAttempts + 1
        /\ streak'[u] = streak[u] + 1
        /\ \A v \in Users : v # u => /\ failedLoginAttempts'[v] = failedLoginAttempts[v]
                                     /\ streak'[v] = streak[v]
        /\ alone' = alone
        /\ request'[r].user = None /\ request'[r].pc = "idle"
        /\ \A q \in Requests : q # r => request'[q] = request[q]
    BY <1>0, <1>2, <2>0
       DEF UpdateFailedAttempts, WriteFailure, Finish, Idle, TypeOK
  <2>2. IdleIsNobodys'
    BY <1>0, <2>1 DEF IdleIsNobodys
  <2>3. \A v \in Users : InFlight(v)' = InFlight(v) \ {r}
    BY <2>1 DEF InFlight
  <2>4. ASSUME NEW v \in Users, alone'[v] PROVE AloneOK(v)'
    <3>0. AloneOK(v)
      BY <1>0, <2>1, <2>4
    <3>1. CASE v = u
      <4>1. r \in InFlight(u)
        BY <2>0 DEF InFlight
      <4>2. InFlight(u)' = {}
        BY <2>3, <3>0, <3>1, <4>1 DEF AloneOK
      <4>3. request[r].read.failedLoginAttempts = streak[u]
        BY <2>0, <3>0, <3>1, <4>1 DEF AloneOK
      <4> QED BY <2>1, <3>1, <4>2, <4>3 DEF AloneOK
    <3>2. CASE v # u
      <4>1. \A q \in InFlight(v)' : q \in InFlight(v) /\ request'[q] = request[q]
        BY <2>1, <2>3 DEF InFlight
      <4> QED BY <2>1, <3>0, <3>2, <4>1 DEF AloneOK
    <3> QED BY <3>1, <3>2
  <2> QED BY <2>2, <2>4
<1>3. ASSUME NEW r \in Requests, ResetFailedAttempts(r) PROVE Goal
  <2>0. PICK u \in Users : /\ u = request[r].user
                           /\ GoTo(r, "known") /\ "known" \in Labels
    BY <1>0, <1>3 DEF ResetFailedAttempts, WriteReset, TypeOK, Labels
  <2>1. /\ failedLoginAttempts'[u] = 0 /\ streak'[u] = 0
        /\ alone'[u] = (InFlight(u) = {r})
        /\ \A v \in Users : v # u => /\ failedLoginAttempts'[v] = failedLoginAttempts[v]
                                     /\ streak'[v] = streak[v]
                                     /\ alone'[v] = alone[v]
    BY <1>0, <1>3, <2>0 DEF ResetFailedAttempts, WriteReset, TypeOK
  <2>2. /\ request'[r].pc = "known"
        /\ \A q \in Requests : /\ request'[q].user = request[q].user
                               /\ request'[q].read = request[q].read
                               /\ q # r => request'[q].pc = request[q].pc
    BY <1>0, <2>0, MoveFields
  <2>3. IdleIsNobodys'
    BY <1>0, <2>2 DEF IdleIsNobodys
  <2>4. \A v \in Users : InFlight(v)' = InFlight(v)
    BY <2>2 DEF InFlight
  <2>5. ASSUME NEW v \in Users, alone'[v] PROVE AloneOK(v)'
    <3>1. CASE v = u
      <4>1. InFlight(u)' = {r}
        BY <2>1, <2>4, <2>5, <3>1
      <4> QED BY <2>1, <2>2, <3>1, <4>1 DEF AloneOK
    <3>2. CASE v # u
      <4>1. AloneOK(v)
        BY <1>0, <2>1, <2>5, <3>2
      <4>2. \A q \in InFlight(v) : q # r /\ q \in Requests
        BY <2>0, <3>2 DEF InFlight
      <4> QED BY <2>1, <2>2, <2>4, <3>2, <4>1, <4>2 DEF AloneOK
    <3> QED BY <3>1, <3>2
  <2> QED BY <2>3, <2>5
<1>4. ASSUME NEW r \in Requests,
             \/ RejectLocked(r) \/ Commit(r) \/ RowGone(r) \/ Fault(r)
      PROVE  Goal
  <2>1. /\ request' = [request EXCEPT ![r] = Idle]
        /\ UNCHANGED <<failedLoginAttempts, streak, alone>>
    BY <1>4 DEF RejectLocked, Commit, RowGone, Fault, Finish, row, history
  <2>2. \A q \in Requests : IF q = r THEN request'[q] = Idle
                                     ELSE request'[q] = request[q]
    BY <1>0, <2>1 DEF TypeOK
  <2>3. Idle.pc = "idle" /\ Idle.user = None
    BY DEF Idle
  <2> QED BY <2>1, <2>2, <2>3, AloneMove
<1>5. ASSUME NEW r \in Requests,
             \/ WrongPassword(r) \/ RightPassword(r) \/ FindKnownSession(r)
             \/ SendAlert(r) \/ NoMfa(r)
      PROVE  Goal
  <2>1. PICK label \in {"penalise", "reset", "mfa", "mail", "create"} :
           /\ GoTo(r, label)
           /\ label = "penalise" => request[r].pc = "compare"
           /\ UNCHANGED <<failedLoginAttempts, streak, alone>>
    BY <1>5 DEF WrongPassword, RightPassword, FindKnownSession, SendAlert, NoMfa,
                row, history
  <2>2. label \in Labels
    BY DEF Labels
  <2> QED BY <1>0, <2>1, <2>2, MoveFields, AloneMove
<1>6. ASSUME NEW r \in Requests, ChallengeMfa(r) \/ CreateSession(r)
      PROVE  Goal
  <2>1. PICK x \in {"MfaToken", "Tokens"} :
          /\ request' = [request EXCEPT ![r].pc = "commit", ![r].result = x]
          /\ UNCHANGED <<failedLoginAttempts, streak, alone>>
    BY <1>6 DEF ChallengeMfa, CreateSession, row, history
  <2>2. \A q \in Requests :
            /\ request'[q].user = request[q].user
            /\ request'[q].read = request[q].read
            /\ request'[q].pc = IF q = r THEN "commit" ELSE request[q].pc
    <3> DEFINE p == [request[r] EXCEPT !.pc = "commit", !.result = x]
    <3>1. request' = [request EXCEPT ![r] = p]
      BY <1>0, <2>1 DEF TypeOK
    <3>2. p.user = request[r].user /\ p.read = request[r].read /\ p.pc = "commit"
      BY <1>0 DEF TypeOK, Request
    <3> HIDE DEF p
    <3> QED BY <1>0, <3>1, <3>2 DEF TypeOK
  <2>3. UNCHANGED <<failedLoginAttempts, streak, alone>>
    BY <2>1
  <2> QED BY <2>2, <2>3, AloneMove
<1>7. CASE Others
  <2>1. UNCHANGED <<failedLoginAttempts, streak, alone>>
    BY <1>7 DEF Others, UpdatePassword, WriteMfa, CreateOrUpdateSecret, EnableMfa,
                DisableMfa, DeleteUser, ForgetDevice, row, history
  <2> QED BY <1>0, <1>7, <2>1, OthersKeepRequest, AloneMove
<1>8. CASE UNCHANGED <<failedLoginAttempts, streak, alone, request>>
  BY <1>8, AloneMove
<1> QED
  BY <1>1, <1>2, <1>3, <1>4, <1>5, <1>6, <1>7, <1>8
  DEF Next, Step, UserNotFound, VerifyMfaCode, CreateMfaSession, Tick, vars, row,
      history

\* As long as login requests for an account do not overlap, no failure is lost
\* or counted twice.
THEOREM AlwaysExactWhenAlone == Spec => []ExactWhenAlone
<1>1. Init => AloneInv
  <2>1. Init => IdleIsNobodys /\ \A u \in Users : AloneOK(u)
    <3> SUFFICES ASSUME Init PROVE IdleIsNobodys /\ \A u \in Users : AloneOK(u)
      OBVIOUS
    <3>1. \A r \in Requests : request[r].user = None
      BY DEF Init, Idle
    <3> QED BY <3>1 DEF Init, IdleIsNobodys, AloneOK, InFlight
  <2> QED BY <2>1, InitType DEF AloneInv
<1>2. AloneInv => ExactWhenAlone
  BY DEF AloneInv, AloneOK, ExactWhenAlone
<1> QED BY <1>1, <1>2, AloneNext, PTL DEF Spec

----------------------------------------------------------------------------
(* How many failures can be written in a row: Counting.  A request counts    *)
(* for the account whose row it holds.  What makes every write one below    *)
(* the limit is that no lock has run out: a row that was locked when it was *)
(* read is refused, and one that was not stood below MaxAttempts.           *)

\* Requests that hold the row of u and may write it, what they read, and how
\* many failures the state shows to have been written at most.
Holding(u) ==
    {r \in Requests : request[r].user = u /\ request[r].pc \in {"compare", "penalise"}}
Reads == [r \in Requests |-> request[r].read.failedLoginAttempts]
Guesses(u) ==
    Spent(Worth(Requests, Holding(u), Reads, failedLoginAttempts[u]), Requests,
          MaxAttempts)

DeadlinesLate ==
    \A u \in Users : lockoutUntil[u] > 0 => lockoutUntil[u] >= LockoutDuration

ReadOK(q) ==
    /\ q.read.lockoutUntil > 0 <=> q.read.failedLoginAttempts >= MaxAttempts
    /\ q.read.lockoutUntil > 0 => q.read.lockoutUntil >= LockoutDuration
    /\ q.pc = "penalise" => q.read.lockoutUntil <= now

ReadsOK ==
    \A r \in Requests : request[r].pc \in {"compare", "penalise"} => ReadOK(request[r])

StreaksOK == now < LockoutDuration => \A u \in Users : streak[u] <= Guesses(u)

StreakInv == TypeOK /\ ColumnsAgree /\ DeadlinesLate /\ ReadsOK /\ StreaksOK

\* Reads are numbers, now and in the next state.
LEMMA ReadsType ==
  /\ TypeOK => Reads \in [Requests -> Nat] /\ \A u \in Users : Guesses(u) \in Nat
  /\ TypeOK' => Reads' \in [Requests -> Nat] /\ \A u \in Users : Guesses(u)' \in Nat
<1>1. TypeOK => Reads \in [Requests -> Nat]
  BY DEF TypeOK, Reads, Request, Snapshot
<1>2. TypeOK' => Reads' \in [Requests -> Nat]
  BY DEF TypeOK, Reads, Request, Snapshot
<1>3. ASSUME TypeOK, NEW u \in Users PROVE Guesses(u) \in Nat
  <2>1. failedLoginAttempts[u] \in Nat
    BY <1>3 DEF TypeOK
  <2>2. Worth(Requests, Holding(u), Reads, failedLoginAttempts[u]) \in [Requests -> Nat]
    BY <1>1, <1>3, <2>1, WorthType
  <2>3. MaxAttempts \in Nat /\ IsFiniteSet(Requests)
    OBVIOUS
  <2> QED BY <2>2, <2>3, SpentBound DEF Guesses
<1>4. ASSUME TypeOK', NEW u \in Users PROVE Guesses(u)' \in Nat
  <2>1. failedLoginAttempts'[u] \in Nat
    BY <1>4 DEF TypeOK
  <2>2. Worth(Requests, Holding(u)', Reads', failedLoginAttempts'[u])
          \in [Requests -> Nat]
    BY <1>2, <1>4, <2>1, WorthType
  <2>3. MaxAttempts \in Nat /\ IsFiniteSet(Requests)
    OBVIOUS
  <2> QED BY <2>2, <2>3, SpentBound DEF Guesses
<1> QED BY <1>1, <1>2, <1>3, <1>4

\* An account whose counter stays, while requests only read it.
LEMMA GuessesStay ==
  ASSUME TypeOK, TypeOK', NEW u \in Users, streak[u] <= Guesses(u),
         failedLoginAttempts'[u] = failedLoginAttempts[u], streak'[u] = streak[u],
         \A q \in Requests : q \in Holding(u)' =>
            Reads'[q] = failedLoginAttempts[u]
              \/ (q \in Holding(u) /\ Reads'[q] = Reads[q])
  PROVE  streak'[u] <= Guesses(u)'
<1>1. /\ Reads \in [Requests -> Nat] /\ Reads' \in [Requests -> Nat]
      /\ Guesses(u) \in Nat /\ Guesses(u)' \in Nat
  BY ReadsType
<1>2. failedLoginAttempts[u] \in Nat /\ streak[u] \in Nat
  BY DEF TypeOK
<1>3. MaxAttempts \in Nat /\ IsFiniteSet(Requests)
  OBVIOUS
<1>4. Spent(Worth(Requests, Holding(u), Reads, failedLoginAttempts[u]), Requests, MaxAttempts)
        <= Spent(Worth(Requests, Holding(u)', Reads', failedLoginAttempts[u]), Requests,
                 MaxAttempts)
  BY <1>1, <1>2, <1>3, ReadSpendsNothing
<1>5. Guesses(u) <= Guesses(u)'
  BY <1>4 DEF Guesses
<1> QED BY <1>1, <1>2, <1>5

\* A step that writes no counter, and lets no request get to where it writes
\* a row but from holding it.
LEMMA StreakMove ==
  ASSUME StreakInv, TypeOK', UNCHANGED <<failedLoginAttempts, lockoutUntil, streak>>,
         now <= now',
         \A q \in Requests :
            request'[q].pc \in {"compare", "penalise"} =>
               /\ request[q].pc \in {"compare", "penalise"}
               /\ request'[q].user = request[q].user
               /\ request'[q].read = request[q].read
               /\ request'[q].pc = "penalise" =>
                     request[q].pc = "penalise" \/ request[q].read.lockoutUntil <= now
  PROVE  StreakInv'
<1> USE DEF StreakInv
<1>1. ColumnsAgree' /\ DeadlinesLate'
  BY DEF ColumnsAgree, DeadlinesLate
<1>2. /\ now \in Nat /\ now' \in Nat
      /\ \A q \in Requests : request[q].read.lockoutUntil \in Nat
  BY DEF TypeOK, Request, Snapshot
<1>3. ReadsOK'
  BY <1>2 DEF ReadsOK, ReadOK
<1>4. ASSUME now' < LockoutDuration, NEW u \in Users PROVE streak'[u] <= Guesses(u)'
  <2>1. streak[u] <= Guesses(u)
    BY <1>2, <1>4 DEF StreaksOK
  <2>2. \A q \in Requests : q \in Holding(u)' => q \in Holding(u) /\ Reads'[q] = Reads[q]
    BY DEF Holding, Reads
  <2> QED BY <2>1, <2>2, GuessesStay
<1>5. StreaksOK'
  BY <1>4 DEF StreaksOK
<1> QED BY <1>1, <1>3, <1>5

\* A request reads the row: what it is worth is the counter.
LEMMA StreakRead ==
  ASSUME StreakInv, TypeOK', NEW r \in Requests, NEW u \in Users, NEW p, NEW a,
         FindByEmail(r, u, p, a)
  PROVE  StreakInv'
<1> USE DEF StreakInv
<1>1. UNCHANGED <<failedLoginAttempts, lockoutUntil, streak, now>>
  BY DEF FindByEmail, row
<1> DEFINE q == [pc |-> "compare", user |-> u, password |-> p, agent |-> a,
                 read |-> [password |-> password[u],
                           failedLoginAttempts |-> failedLoginAttempts[u],
                           lockoutUntil |-> lockoutUntil[u]],
                 result |-> None,
                 sawPassword |-> p = password[u],
                 sawNoMfa |-> mfaSecret[u] # "enabled"]
<1>2. /\ request' = [request EXCEPT ![r] = q]
      /\ q.pc = "compare" /\ q.user = u
      /\ q.read.failedLoginAttempts = failedLoginAttempts[u]
      /\ q.read.lockoutUntil = lockoutUntil[u]
  BY DEF FindByEmail
<1> HIDE DEF q
<1>3. request'[r] = q /\ \A s \in Requests : s # r => request'[s] = request[s]
  BY <1>2 DEF TypeOK
<1>4. ColumnsAgree' /\ DeadlinesLate'
  BY <1>1 DEF ColumnsAgree, DeadlinesLate
<1>5. ReadsOK'
  BY <1>1, <1>2, <1>3 DEF ReadsOK, ReadOK, ColumnsAgree, DeadlinesLate
<1>6. ASSUME now < LockoutDuration, NEW v \in Users PROVE streak'[v] <= Guesses(v)'
  <2>1. \A s \in Requests : s \in Holding(v)' =>
           Reads'[s] = failedLoginAttempts[v]
             \/ (s \in Holding(v) /\ Reads'[s] = Reads[s])
    BY <1>2, <1>3 DEF Holding, Reads
  <2> QED BY <1>1, <1>6, <2>1, GuessesStay DEF StreaksOK
<1>7. StreaksOK'
  BY <1>1, <1>6 DEF StreaksOK
<1> QED BY <1>4, <1>5, <1>7

\* A failure is one of those the profile of its account allows.
LEMMA StreakFailure ==
  ASSUME StreakInv, TypeOK', NEW r \in Requests, UpdateFailedAttempts(r)
  PROVE  StreakInv'
<1> USE DEF StreakInv
<1>1. PICK u \in Users, n \in Nat :
        /\ u = request[r].user /\ n = request[r].read.failedLoginAttempts
        /\ request[r].pc = "penalise"
        /\ failedLoginAttempts' = [failedLoginAttempts EXCEPT ![u] = n + 1]
        /\ lockoutUntil' = [lockoutUntil EXCEPT ![u] =
              IF n + 1 >= MaxAttempts THEN now + LockoutDuration ELSE 0]
        /\ request' = [request EXCEPT ![r] = Idle]
        /\ streak' = [streak EXCEPT ![u] = @ + 1]
        /\ now' = now
  <2>1. request[r].user \in Users /\ request[r].read.failedLoginAttempts \in Nat
    BY DEF TypeOK, Request, Snapshot, UpdateFailedAttempts, WriteFailure
  <2> QED BY <2>1 DEF UpdateFailedAttempts, WriteFailure, Finish
<1>2. request'[r].pc = "idle" /\ \A s \in Requests : s # r => request'[s] = request[s]
  BY <1>1 DEF TypeOK, Idle
<1>3. ColumnsAgree'
  BY <1>1, ColumnsAgreeNext DEF Next, Step
<1>4. DeadlinesLate'
  BY <1>1 DEF DeadlinesLate, TypeOK
<1>5. ReadsOK'
  BY <1>1, <1>2 DEF ReadsOK, ReadOK
<1>6. ASSUME now < LockoutDuration, NEW v \in Users PROVE streak'[v] <= Guesses(v)'
  <2>1. \A s \in Requests : s \in Holding(v)' => s \in Holding(v) /\ Reads'[s] = Reads[s]
    BY <1>2 DEF Holding, Reads
  <2>2. CASE v # u
    <3>1. failedLoginAttempts'[v] = failedLoginAttempts[v] /\ streak'[v] = streak[v]
      BY <1>1, <2>2 DEF TypeOK
    <3> QED BY <1>6, <2>1, <3>1, GuessesStay DEF StreaksOK
  <2>3. CASE v = u
    <3>1. /\ Reads \in [Requests -> Nat] /\ Reads' \in [Requests -> Nat]
          /\ Guesses(v) \in Nat /\ Guesses(v)' \in Nat
          /\ failedLoginAttempts[v] \in Nat /\ streak[v] \in Nat
      BY ReadsType DEF TypeOK
    <3>2. n < MaxAttempts
      <4>1. request[r].read.lockoutUntil \in Nat /\ now \in Nat
        BY DEF TypeOK, Request, Snapshot
      <4> QED BY <1>1, <1>6, <4>1 DEF ReadsOK, ReadOK
    <3>3. r \in Holding(v) /\ r \notin Holding(v)' /\ Reads[r] = n
      BY <1>1, <1>2, <2>3 DEF Holding, Reads
    <3>4. failedLoginAttempts'[v] = Reads[r] + 1 /\ streak'[v] = streak[v] + 1
      BY <1>1, <2>3, <3>3 DEF TypeOK
    <3>5. MaxAttempts \in Nat /\ IsFiniteSet(Requests)
      OBVIOUS
    <3>6. Spent(Worth(Requests, Holding(v), Reads, failedLoginAttempts[v]), Requests,
                MaxAttempts) + 1
            <= Spent(Worth(Requests, Holding(v)', Reads', Reads[r] + 1), Requests, MaxAttempts)
      BY <2>1, <3>1, <3>2, <3>3, <3>5, WriteSpendsOne
    <3>7. Guesses(v) + 1 <= Guesses(v)'
      BY <3>4, <3>6 DEF Guesses
    <3>8. streak[v] <= Guesses(v)
      BY <1>6 DEF StreaksOK
    <3> QED BY <3>1, <3>4, <3>7, <3>8
  <2> QED BY <2>2, <2>3
<1>7. StreaksOK'
  BY <1>1, <1>6 DEF StreaksOK
<1> QED BY <1>3, <1>4, <1>5, <1>7

\* A success starts a new streak.
LEMMA StreakReset ==
  ASSUME StreakInv, TypeOK', NEW r \in Requests, ResetFailedAttempts(r)
  PROVE  StreakInv'
<1> USE DEF StreakInv
<1>1. PICK u \in Users :
        /\ failedLoginAttempts' = [failedLoginAttempts EXCEPT ![u] = 0]
        /\ lockoutUntil' = [lockoutUntil EXCEPT ![u] = 0]
        /\ request' = [request EXCEPT ![r].pc = "known"]
        /\ streak' = [streak EXCEPT ![u] = 0]
        /\ now' = now
  BY DEF TypeOK, ResetFailedAttempts, WriteReset, GoTo
<1>2. request'[r].pc = "known" /\ \A s \in Requests : s # r => request'[s] = request[s]
  BY <1>1 DEF TypeOK, Request
<1>3. ColumnsAgree' /\ DeadlinesLate'
  BY <1>1 DEF ColumnsAgree, DeadlinesLate, TypeOK
<1>4. ReadsOK'
  BY <1>1, <1>2 DEF ReadsOK, ReadOK
<1>5. ASSUME now < LockoutDuration, NEW v \in Users PROVE streak'[v] <= Guesses(v)'
  <2>1. CASE v # u
    <3>1. \A s \in Requests : s \in Holding(v)'
            => s \in Holding(v) /\ Reads'[s] = Reads[s]
      BY <1>2 DEF Holding, Reads
    <3>2. failedLoginAttempts'[v] = failedLoginAttempts[v] /\ streak'[v] = streak[v]
      BY <1>1, <2>1 DEF TypeOK
    <3> QED BY <1>5, <3>1, <3>2, GuessesStay DEF StreaksOK
  <2>2. CASE v = u
    <3>1. streak'[v] = 0
      BY <1>1, <2>2 DEF TypeOK
    <3>2. Guesses(v)' \in Nat
      BY ReadsType
    <3> QED BY <3>1, <3>2
  <2> QED BY <2>1, <2>2
<1>6. StreaksOK'
  BY <1>1, <1>5 DEF StreaksOK
<1> QED BY <1>3, <1>4, <1>6

\* Every step keeps the bound.
LEMMA StreakNext == StreakInv /\ [Next]_vars => StreakInv'
<1> SUFFICES ASSUME StreakInv, [Next]_vars PROVE StreakInv'
  OBVIOUS
<1>0. TypeOK' /\ TypeOK /\ now \in Nat
  BY NextType DEF StreakInv, TypeOK
<1> DEFINE Move(q) ==
      request'[q].pc \in {"compare", "penalise"} =>
         /\ request[q].pc \in {"compare", "penalise"}
         /\ request'[q].user = request[q].user
         /\ request'[q].read = request[q].read
         /\ request'[q].pc = "penalise" =>
               request[q].pc = "penalise" \/ request[q].read.lockoutUntil <= now
<1>1. ASSUME UNCHANGED <<failedLoginAttempts, lockoutUntil, streak>>, now <= now',
             \A q \in Requests : Move(q)
      PROVE  StreakInv'
  BY <1>0, <1>1, StreakMove
<1>2. CASE UNCHANGED vars
  BY <1>0, <1>1, <1>2 DEF vars, row, history
<1>3. ASSUME NEW r \in Requests, NEW u \in Users,
             UserNotFound(r, u)
               \/ \E p \in Passwords, a \in Agents \cup {None} : FindByEmail(r, u, p, a)
      PROVE  StreakInv'
  BY <1>0, <1>2, <1>3, StreakRead DEF UserNotFound
<1>4. ASSUME NEW r \in Requests,
             RejectLocked(r) \/ Commit(r) \/ RowGone(r) \/ Fault(r)
      PROVE  StreakInv'
  <2>1. /\ request' = [request EXCEPT ![r] = Idle]
        /\ UNCHANGED <<failedLoginAttempts, lockoutUntil, streak, now>>
    BY <1>4 DEF RejectLocked, Commit, RowGone, Fault, Finish, row, history
  <2>2. \A q \in Requests : Move(q)
    BY <1>0, <2>1 DEF TypeOK, Idle
  <2> QED BY <1>0, <1>1, <2>1, <2>2
<1>5. ASSUME NEW r \in Requests,
             \/ WrongPassword(r) \/ RightPassword(r) \/ FindKnownSession(r)
             \/ SendAlert(r) \/ NoMfa(r)
      PROVE  StreakInv'
  <2>1. PICK label \in {"penalise", "reset", "mfa", "mail", "create"} :
          /\ GoTo(r, label)
          /\ label = "penalise" => /\ request[r].pc = "compare"
                                   /\ request[r].read.lockoutUntil <= now
    BY <1>5 DEF WrongPassword, RightPassword, FindKnownSession, SendAlert, NoMfa
  <2>2. UNCHANGED <<failedLoginAttempts, lockoutUntil, streak, now>>
    BY <1>5 DEF WrongPassword, RightPassword, FindKnownSession, SendAlert, NoMfa,
                row, history
  <2>3. \A q \in Requests : Move(q)
    BY <1>0, <2>1 DEF GoTo, TypeOK, Request
  <2> QED BY <1>0, <1>1, <2>2, <2>3
<1>6. ASSUME NEW r \in Requests, ChallengeMfa(r) \/ CreateSession(r) PROVE StreakInv'
  <2>1. PICK x : request' = [request EXCEPT ![r].pc = "commit", ![r].result = x]
    BY <1>6 DEF ChallengeMfa, CreateSession
  <2>2. UNCHANGED <<failedLoginAttempts, lockoutUntil, streak, now>>
    BY <1>6 DEF ChallengeMfa, CreateSession, row, history
  <2>3. /\ request'[r].pc = "commit"
        /\ \A q \in Requests : q # r => request'[q] = request[q]
    BY <1>0, <2>1 DEF TypeOK, Request
  <2>4. \A q \in Requests : Move(q)
    BY <2>3
  <2> QED BY <1>0, <1>1, <2>2, <2>4
<1>7. CASE Others
  <2>1. UNCHANGED <<failedLoginAttempts, lockoutUntil, streak, now>>
    BY <1>7 DEF Others, UpdatePassword, WriteMfa, CreateOrUpdateSecret, EnableMfa,
                DisableMfa, DeleteUser, ForgetDevice, row, history
  <2>2. \A q \in Requests : Move(q)
    BY <1>0, <1>7, OthersKeepRequest
  <2> QED BY <1>0, <1>1, <2>1, <2>2
<1>8. CASE \/ Tick
           \/ \E u \in Users, a \in Agents \cup {None} : VerifyMfaCode(u, a)
           \/ \E d \in verified : CreateMfaSession(d)
  BY <1>0, <1>1, <1>8 DEF VerifyMfaCode, CreateMfaSession, Tick, row, history
<1> QED
  BY <1>0, <1>2, <1>3, <1>4, <1>5, <1>6, <1>7, <1>8, StreakFailure, StreakReset
  DEF Next, Step

\* For any numbers: k requests that overlap write at most
\* (MaxAttempts+k choose k) - 1 failures in a row on one account, whatever
\* they read and when, before the lock is beyond their reach; until one runs
\* out.
THEOREM GuessesAlwaysBounded == Spec => []GuessesBounded
<1>1. Init => StreakInv
  <2> SUFFICES ASSUME Init PROVE StreakInv
    OBVIOUS
  <2>1. TypeOK
    BY InitType
  <2>2. \A u \in Users : Guesses(u) \in Nat /\ streak[u] = 0
    BY <2>1, ReadsType DEF Init
  <2> QED BY <2>1, <2>2 DEF Init, StreakInv, ColumnsAgree, DeadlinesLate, ReadsOK,
                            StreaksOK, Idle
<1>2. StreakInv => GuessesBounded
  <2> SUFFICES ASSUME StreakInv, now < LockoutDuration, NEW u \in Users
               PROVE  streak[u] < choose(MaxAttempts + Cardinality(Requests),
                                         Cardinality(Requests))
    BY DEF GuessesBounded
  <2> DEFINE k == Cardinality(Requests)
  <2>1. /\ Reads \in [Requests -> Nat] /\ failedLoginAttempts[u] \in Nat
        /\ streak[u] \in Nat /\ MaxAttempts \in Nat /\ IsFiniteSet(Requests)
    BY ReadsType DEF StreakInv, TypeOK
  <2>2. /\ Guesses(u) \in Nat /\ choose(MaxAttempts + k, k) \in Nat
        /\ Guesses(u) < choose(MaxAttempts + k, k)
    BY <2>1, WorthType, SpentBound DEF Guesses
  <2>3. streak[u] <= Guesses(u)
    BY DEF StreakInv, StreaksOK
  <2> HIDE DEF k
  <2>4. streak[u] < choose(MaxAttempts + k, k)
    BY <2>1, <2>2, <2>3
  <2> QED BY <2>4 DEF k
<1> QED BY <1>1, <1>2, StreakNext, PTL DEF Spec

=============================================================================
