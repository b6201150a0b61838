-------------------------- MODULE UserRows_proofs --------------------------
(***************************************************************************)
(* What holds of the User rows for any sets of users, addresses, tokens    *)
(* and requests, any number of rows and keys, any page sizes and any pages *)
(* asked for: first of the endpoints that write the rows (Accounts), then  *)
(* of the list of them (Listing).                                          *)
(***************************************************************************)
EXTENDS UserRows, Sequences, Counting

USE AccountsAssumption DEF AccountsAssumption

----------------------------------------------------------------------------
(* The inductive invariant.                                                *)

TokenCalls == {"verifyEmail", "resetPassword"}

RowsOK ==
    /\ accounts \subseteq Drawn
    /\ email \in [Users -> Emails \cup {None}]
    /\ \A u, v \in accounts : email[u] = email[v] => u = v
    /\ verified \subseteq accounts
    /\ had \in [Users -> SUBSET Emails]
    /\ \A u \in Drawn : email[u] \in had[u]

\* A token was drawn for an address that its user had; a spent one was drawn.
TokensOK ==
    /\ minted \in [Tokens -> Minted \cup {None}]
    /\ live \cup mailed \cup spent \subseteq {t \in Tokens : minted[t] # None}
    /\ spent \cap live = {}
    /\ kept \subseteq Tokens
    /\ uses \in [Tokens -> 0 .. Cardinality(Requests) + 1]
    /\ \A t \in Tokens : minted[t] # None =>
          minted[t].user \in Drawn /\ minted[t].address \in had[minted[t].user]

\* What a request knows at each of its awaits.
RequestOK(q) ==
    /\ q \in Request
    /\ q.late => q.pc = "get" /\ q.token \notin live
    /\ q.pc = "get" => q.token \in mailed /\ q.call \in TokenCalls
    /\ q.pc = "del" => q.call \in TokenCalls
    /\ q.pc \in {"find", "update", "del"} /\ q.call \in TokenCalls =>
          /\ q.token \in mailed
          /\ minted[q.token].kind = KindOf(q.call)
          /\ minted[q.token].user = q.user
    /\ q.pc \in {"exists", "create"} => q.email \in Emails
    /\ q.call = "updateProfile" => q.email \in Emails
    /\ q.pc = "exists" => q.call \in {"register", "updateProfile"}
    /\ q.pc \in {"session", "setEx"} => q.user \in Drawn /\ q.email \in had[q.user]
    /\ q.pc = "mail" => q.token \in Tokens /\ minted[q.token] # None

AccountsInv ==
    /\ RowsOK
    /\ TokensOK
    /\ VerifiedEarned
    /\ request \in [Requests -> Request]
    /\ \A r \in Requests : RequestOK(request[r])

\* It is stronger than what is checked, but for UsesBounded.
LEMMA InvStrong == AccountsInv => TypeOK /\ VerifiedEarned /\ OverStaysOver
<1> SUFFICES ASSUME AccountsInv PROVE TypeOK /\ VerifiedEarned /\ OverStaysOver
  OBVIOUS
<1>1. TypeOK
  BY DEF AccountsInv, RowsOK, TokensOK, TypeOK
<1>2. OverStaysOver
  BY DEF AccountsInv, TokensOK, RequestOK, OverStaysOver
<1> QED BY <1>1, <1>2 DEF AccountsInv

LEMMA IdleOK == Idle \in Request /\ RequestOK(Idle)
<1>1. /\ Idle \in Request /\ Idle.pc = "idle" /\ Idle.call = "none"
      /\ Idle.late = FALSE
  BY DEF Idle, Request, Labels, Calls
<1> QED BY <1>1 DEF RequestOK, TokenCalls

LEMMA InitInv == Init => AccountsInv
<1> SUFFICES ASSUME Init PROVE AccountsInv
  OBVIOUS
<1>1. RowsOK
  BY DEF Init, RowsOK, Drawn
<1>2. Cardinality(Requests) \in Nat
  BY FS_CardinalityType
<1>3. TokensOK
  BY <1>2 DEF Init, TokensOK
<1>4. VerifiedEarned
  BY DEF Init, VerifiedEarned
<1>5. request \in [Requests -> Request] /\ \A r \in Requests : RequestOK(request[r])
  BY IdleOK DEF Init
<1> QED BY <1>1, <1>3, <1>4, <1>5 DEF AccountsInv

----------------------------------------------------------------------------
(* Steps.                                                                  *)

\* What every step leaves as it is: tokens that were drawn, except that they
\* may run out, and the addresses that a user has had.
Grows ==
    /\ \A t \in Tokens : minted[t] # None =>
          /\ minted'[t] = minted[t]
          /\ t \in live' => t \in live
          /\ uses[t] > 0 => uses'[t] > 0
    /\ mailed \subseteq mailed'
    /\ \A u \in Drawn : u \in Drawn' /\ had[u] \subseteq had'[u]

LEMMA OthersOK ==
  ASSUME AccountsInv, Grows, NEW q, RequestOK(q)
  PROVE  RequestOK(q)'
<1>1. mailed \subseteq {t \in Tokens : minted[t] # None}
  BY DEF AccountsInv, TokensOK
<1>2. q.late => q.pc = "get" /\ q.token \notin live'
  BY <1>1 DEF RequestOK, Grows
<1>3. q.pc = "get" => q.token \in mailed' /\ q.call \in TokenCalls
  BY DEF RequestOK, Grows
<1>4. q.pc \in {"find", "update", "del"} /\ q.call \in TokenCalls =>
         /\ q.token \in mailed'
         /\ minted'[q.token].kind = KindOf(q.call)
         /\ minted'[q.token].user = q.user
  BY <1>1 DEF RequestOK, Grows
<1>5. q.pc \in {"session", "setEx"} => q.user \in Drawn' /\ q.email \in had'[q.user]
  BY DEF RequestOK, Grows
<1>6. q.pc = "mail" => q.token \in Tokens /\ minted'[q.token] # None
  BY DEF RequestOK, Grows
<1> QED BY <1>2, <1>3, <1>4, <1>5, <1>6 DEF RequestOK

LEMMA EarnedStays ==
  ASSUME AccountsInv, Grows, verified' \subseteq verified
  PROVE  VerifiedEarned'
<1> SUFFICES ASSUME NEW u \in verified'
             PROVE  \E t \in mailed' :
                      /\ minted'[t].kind = "emailVerify" /\ minted'[t].user = u
                      /\ minted'[t].address \in had'[u]
                      /\ uses'[t] > 0
  BY DEF VerifiedEarned
<1>1. PICK t \in mailed :
        /\ minted[t].kind = "emailVerify" /\ minted[t].user = u
        /\ minted[t].address \in had[u]
        /\ uses[t] > 0
  BY DEF AccountsInv, VerifiedEarned
<1>2. t \in Tokens /\ minted[t] # None /\ u \in Drawn
  BY DEF AccountsInv, RowsOK, TokensOK
<1> QED BY <1>1, <1>2 DEF Grows

\* The request r becomes x.
LEMMA MoveOK ==
  ASSUME AccountsInv, RowsOK', TokensOK', VerifiedEarned', Grows,
         NEW r \in Requests, NEW x, request' = [request EXCEPT ![r] = x],
         RequestOK(x)'
  PROVE  AccountsInv'
<1>1. request \in [Requests -> Request] /\ x \in Request
  BY DEF AccountsInv, RequestOK
<1>2. request' \in [Requests -> Request]
  BY <1>1
<1>3. ASSUME NEW s \in Requests PROVE RequestOK(request[s])'
  <2>1. CASE s = r
    <3>1. request'[s] = x
      BY <1>1, <2>1
    <3> QED BY <3>1 DEF RequestOK
  <2>2. CASE s # r
    <3>1. request'[s] = request[s]
      BY <1>1, <2>2
    <3>2. PICK q : q = request[s]
      OBVIOUS
    <3>3. RequestOK(q)'
      BY <3>2, OthersOK DEF AccountsInv
    <3> QED BY <3>1, <3>2, <3>3 DEF RequestOK
  <2> QED BY <2>1, <2>2
<1> QED BY <1>2, <1>3 DEF AccountsInv

LEMMA QuietOK ==
  ASSUME AccountsInv, UNCHANGED <<database, redis, mailed, history>>,
         NEW r \in Requests, NEW x, request' = [request EXCEPT ![r] = x],
         RequestOK(x)
  PROVE  AccountsInv'
<1> USE DEF database, redis, history
<1>1. RowsOK'
  BY DEF AccountsInv, RowsOK, Drawn
<1>2. TokensOK'
  BY DEF AccountsInv, TokensOK, Drawn
<1>3. Grows
  BY DEF Grows, Drawn
<1>4. VerifiedEarned'
  BY <1>3, EarnedStays
<1>5. RequestOK(x)'
  BY <1>3, OthersOK
<1> QED BY <1>1, <1>2, <1>3, <1>4, <1>5, MoveOK

LEMMA FinishQuiet ==
  ASSUME AccountsInv, UNCHANGED <<database, redis, mailed, history>>,
         NEW r \in Requests, Finish(r)
  PROVE  AccountsInv'
  BY QuietOK, IdleOK DEF Finish

LEMMA SomeLabels ==
  /\ "create" \in Labels /\ "session" \in Labels /\ "setEx" \in Labels
  /\ "mail" \in Labels /\ "find" \in Labels /\ "update" \in Labels
  /\ "del" \in Labels /\ "exists" \in Labels
  BY DEF Labels

\* A request that goes on to the label l, and nothing else.
LEMMA LabelTypes ==
  ASSUME NEW q \in Request, NEW l \in Labels
  PROVE  LET x == [q EXCEPT !.pc = l]
         IN  /\ x \in Request /\ x.pc = l /\ x.call = q.call /\ x.user = q.user
             /\ x.email = q.email /\ x.token = q.token /\ x.late = q.late
  BY DEF Request

LEMMA AskingTypes ==
  ASSUME NEW l \in Labels, NEW c \in Calls, NEW u \in Users \cup {None},
         NEW e \in Emails \cup {None}, NEW t \in Tokens \cup {None}
  PROVE  LET x == Asking(l, c, u, e, t)
         IN  /\ x \in Request /\ x.pc = l /\ x.call = c /\ x.email = e
             /\ x.token = t /\ (x.late <=> t # None /\ t \notin live)
  BY DEF Asking, Request

LEMMA ArgumentsOK ==
  ASSUME AccountsInv, NEW x \in Arguments
  PROVE  RequestOK(x)
<1>1. /\ Drawn \subseteq Users /\ mailed \subseteq Tokens
      /\ "exists" \in Labels /\ "find" \in Labels /\ "get" \in Labels
      /\ "delete" \in Labels
      /\ TokenCalls \subseteq Calls
      /\ {"register", "requestReset", "resend", "updateProfile", "deleteUser"}
            \subseteq Calls
  BY DEF Drawn, AccountsInv, TokensOK, Labels, Calls, TokenCalls
<1>2. ASSUME NEW e \in Emails,
             x = Asking("exists", "register", None, e, None)
      PROVE  RequestOK(x)
  <2>1. x \in Request /\ x.pc = "exists" /\ x.call = "register" /\ x.email \in Emails
          /\ ~x.late
    BY <1>1, <1>2, AskingTypes
  <2> QED BY <2>1 DEF RequestOK, TokenCalls
<1>3. ASSUME NEW e \in Emails,
             x = Asking("find", "requestReset", None, e, None)
      PROVE  RequestOK(x)
  <2>1. x \in Request /\ x.pc = "find" /\ x.call = "requestReset" /\ ~x.late
    BY <1>1, <1>3, AskingTypes
  <2> QED BY <2>1 DEF RequestOK, TokenCalls
<1>4. ASSUME NEW u \in Drawn,
             x = Asking("find", "resend", u, None, None)
      PROVE  RequestOK(x)
  <2>1. x \in Request /\ x.pc = "find" /\ x.call = "resend" /\ ~x.late
    BY <1>1, <1>4, AskingTypes
  <2> QED BY <2>1 DEF RequestOK, TokenCalls
<1>5. ASSUME NEW u \in Drawn, NEW e \in Emails,
             x = Asking("find", "updateProfile", u, e, None)
      PROVE  RequestOK(x)
  <2>1. x \in Request /\ x.pc = "find" /\ x.call = "updateProfile" /\ x.email \in Emails
          /\ ~x.late
    BY <1>1, <1>5, AskingTypes
  <2> QED BY <2>1 DEF RequestOK, TokenCalls
<1>6. ASSUME NEW u \in Drawn,
             x = Asking("delete", "deleteUser", u, None, None)
      PROVE  RequestOK(x)
  <2>1. x \in Request /\ x.pc = "delete" /\ x.call = "deleteUser" /\ ~x.late
    BY <1>1, <1>6, AskingTypes
  <2> QED BY <2>1 DEF RequestOK, TokenCalls
<1>7. ASSUME NEW c \in TokenCalls, NEW t \in mailed,
             x = Asking("get", c, None, None, t)
      PROVE  RequestOK(x)
  <2>1. x \in Request /\ x.pc = "get" /\ x.call \in TokenCalls /\ x.token \in mailed
          /\ (x.late => x.token \notin live)
    BY <1>1, <1>7, AskingTypes
  <2> QED BY <2>1 DEF RequestOK, TokenCalls
<1> QED BY <1>2, <1>3, <1>4, <1>5, <1>6, <1>7 DEF Arguments, TokenCalls

\* The steps that only read.
LEMMA LookupInv ==
  ASSUME AccountsInv, NEW r \in Requests,
         \/ \E args \in Arguments : Receive(r, args)
         \/ EmailFree(r) \/ EmailAlreadyInUse(r)
         \/ \E u \in Users : FindByEmail(r, u)
         \/ FindUnverified(r) \/ FindProfile(r) \/ FindVerifying(r)
         \/ UserNotFound(r) \/ EmailTaken(r) \/ CreateSession(r) \/ RowGone(r)
         \/ GetToken(r) \/ InvalidToken(r)
  PROVE  AccountsInv'
<1> DEFINE q == request[r]
<1>1. /\ request \in [Requests -> Request] /\ q \in Request /\ RequestOK(q)
      /\ accounts \subseteq Drawn
  BY DEF AccountsInv, RowsOK
<1>2. ASSUME NEW args \in Arguments, Receive(r, args) PROVE AccountsInv'
  BY <1>2, ArgumentsOK, QuietOK DEF Receive
<1>3. CASE EmailAlreadyInUse(r) \/ UserNotFound(r) \/ EmailTaken(r) \/ RowGone(r)
           \/ InvalidToken(r)
  BY <1>3, FinishQuiet
  DEF EmailAlreadyInUse, UserNotFound, EmailTaken, RowGone, InvalidToken
<1>4. CASE EmailFree(r)
  <2> DEFINE l == IF q.call = "register" THEN "create" ELSE "update"
             x == [q EXCEPT !.pc = l]
  <2>1. l \in Labels /\ l \in {"create", "update"}
    BY SomeLabels
  <2>2. q.pc = "exists" /\ (l = "create" <=> q.call = "register")
    BY <1>4 DEF EmailFree, At
  <2>3. request' = [request EXCEPT ![r] = x]
    BY <1>1, <1>4 DEF EmailFree, GoTo
  <2> HIDE DEF l
  <2>4. /\ x \in Request /\ x.pc = l /\ x.call = q.call /\ x.email = q.email
        /\ x.late = q.late
    BY <1>1, <2>1, LabelTypes
  <2> HIDE DEF x
  <2>5. RequestOK(x)
    BY <1>1, <2>1, <2>2, <2>4 DEF RequestOK, TokenCalls
  <2> QED BY <1>4, <2>3, <2>5, QuietOK DEF EmailFree
<1>5. ASSUME NEW u \in Users, FindByEmail(r, u) PROVE AccountsInv'
  <2> DEFINE x == [q EXCEPT !.pc = "setEx", !.user = u]
  <2>1. request' = [request EXCEPT ![r] = x]
    BY <1>1, <1>5 DEF FindByEmail
  <2>2. /\ x \in Request /\ x.pc = "setEx" /\ x.call = q.call /\ x.user = u
        /\ x.email = q.email /\ x.late = q.late
    <3> HIDE DEF q
    <3> QED BY <1>1, SomeLabels DEF Request
  <2>3. u \in Drawn /\ q.email = email[u] /\ q.pc = "find" /\ q.call = "requestReset"
    BY <1>1, <1>5 DEF FindByEmail, UsersWith, At
  <2>4. q.email \in had[u]
    BY <2>3 DEF AccountsInv, RowsOK
  <2> HIDE DEF x
  <2>5. RequestOK(x)
    BY <1>1, <2>2, <2>3, <2>4 DEF RequestOK
  <2> QED BY <1>5, <2>1, <2>5, QuietOK DEF FindByEmail
<1>6. CASE FindUnverified(r)
  <2>1. CASE q.user \in verified
    BY <1>6, <2>1, FinishQuiet DEF FindUnverified
  <2>2. CASE q.user \notin verified
    <3> DEFINE e == email[q.user]
               x == [q EXCEPT !.pc = "setEx", !.email = e]
    <3>1. request' = [request EXCEPT ![r] = x]
      BY <1>1, <1>6, <2>2 DEF FindUnverified
    <3>2. q.user \in Drawn /\ q.pc = "find" /\ q.call = "resend"
      BY <1>1, <1>6 DEF FindUnverified, At
    <3>3. e \in had[q.user] /\ e \in Emails
      BY <3>2 DEF AccountsInv, RowsOK, Drawn
    <3> HIDE DEF e
    <3>4. /\ x \in Request /\ x.pc = "setEx" /\ x.call = q.call /\ x.user = q.user
          /\ x.email = e /\ x.late = q.late
      <4> HIDE DEF q
      <4> QED BY <1>1, <3>3, SomeLabels DEF Request
    <3> HIDE DEF x
    <3>5. RequestOK(x)
      BY <1>1, <3>2, <3>3, <3>4 DEF RequestOK
    <3> QED BY <1>6, <3>1, <3>5, QuietOK DEF FindUnverified
  <2> QED BY <2>1, <2>2
<1>7. CASE FindProfile(r)
  <2> DEFINE l == IF email[q.user] = q.email THEN "update" ELSE "exists"
             x == [q EXCEPT !.pc = l]
  <2>1. l \in Labels /\ l \in {"exists", "update"}
    BY SomeLabels
  <2>2. q.pc = "find" /\ q.call = "updateProfile"
    BY <1>7 DEF FindProfile, At
  <2>3. request' = [request EXCEPT ![r] = x]
    BY <1>1, <1>7 DEF FindProfile, GoTo
  <2> HIDE DEF l
  <2>4. /\ x \in Request /\ x.pc = l /\ x.call = q.call /\ x.email = q.email
        /\ x.late = q.late
    BY <1>1, <2>1, LabelTypes
  <2> HIDE DEF x
  <2>5. RequestOK(x)
    BY <1>1, <2>1, <2>2, <2>4 DEF RequestOK, TokenCalls
  <2> QED BY <1>7, <2>3, <2>5, QuietOK DEF FindProfile
<1>8. CASE FindVerifying(r)
  <2> DEFINE x == [q EXCEPT !.pc = "update"]
  <2>1. q.pc = "find" /\ q.call = "verifyEmail"
    BY <1>8 DEF FindVerifying, At
  <2>2. request' = [request EXCEPT ![r] = x]
    BY <1>1, <1>8 DEF FindVerifying, GoTo
  <2>3. /\ x \in Request /\ x.pc = "update" /\ x.call = q.call /\ x.user = q.user
        /\ x.token = q.token /\ x.late = q.late
    BY <1>1, SomeLabels, LabelTypes
  <2> HIDE DEF x
  <2>4. RequestOK(x)
    BY <1>1, <2>1, <2>3 DEF RequestOK, TokenCalls
  <2> QED BY <1>8, <2>2, <2>4, QuietOK DEF FindVerifying
<1>9. CASE CreateSession(r)
  <2> DEFINE x == [q EXCEPT !.pc = "setEx"]
  <2>1. q.pc = "session"
    BY <1>9 DEF CreateSession, At
  <2>2. request' = [request EXCEPT ![r] = x]
    BY <1>1, <1>9 DEF CreateSession, GoTo
  <2>3. /\ x \in Request /\ x.pc = "setEx" /\ x.call = q.call /\ x.user = q.user
        /\ x.email = q.email /\ x.late = q.late
    BY <1>1, SomeLabels, LabelTypes
  <2> HIDE DEF x
  <2>4. RequestOK(x)
    BY <1>1, <2>1, <2>3 DEF RequestOK
  <2> QED BY <1>9, <2>2, <2>4, QuietOK DEF CreateSession
<1>10. CASE GetToken(r)
  <2> DEFINE t == q.token
             u == minted[t].user
             l == IF q.call = "verifyEmail" THEN "find" ELSE "update"
             x == [q EXCEPT !.user = u, !.pc = l]
  <2>1. l \in Labels /\ l \in {"find", "update"}
    BY SomeLabels
  <2>2. /\ q.pc = "get" /\ q.token \in live /\ minted[t].kind = KindOf(q.call)
        /\ request' = [request EXCEPT ![r] = x]
    BY <1>1, <1>10 DEF GetToken, At
  <2>3. u \in Users
    BY <2>2 DEF AccountsInv, TokensOK, Drawn
  <2>4. q.token \in mailed /\ q.call \in TokenCalls /\ ~q.late
    BY <1>1, <2>2 DEF RequestOK, Request
  <2> HIDE DEF l, u
  <2>5. /\ x \in Request /\ x.pc = l /\ x.call = q.call /\ x.user = u
        /\ x.token = q.token /\ x.late = q.late
    <3> HIDE DEF q
    <3> QED BY <1>1, <2>1, <2>3 DEF Request
  <2> HIDE DEF x
  <2>6. RequestOK(x)
    BY <2>1, <2>2, <2>4, <2>5 DEF RequestOK, TokenCalls, u
  <2> QED BY <1>10, <2>2, <2>6, QuietOK DEF GetToken
<1> QED BY <1>2, <1>3, <1>4, <1>5, <1>6, <1>7, <1>8, <1>9, <1>10

\* The steps that write rows.
LEMMA RowInv ==
  ASSUME AccountsInv, NEW r \in Requests,
         \/ \E u \in Users : CreateUser(r, u)
         \/ UpdateProfile(r) \/ VerifyUser(r) \/ UpdatePassword(r) \/ DeleteUser(r)
  PROVE  AccountsInv'
<1> DEFINE q == request[r]
<1>1. /\ request \in [Requests -> Request] /\ q \in Request /\ RequestOK(q)
      /\ accounts \subseteq Drawn /\ Drawn \subseteq Users
  BY DEF AccountsInv, RowsOK, Drawn
<1>2. ASSUME NEW u \in Users, CreateUser(r, u) PROVE AccountsInv'
  <2> DEFINE e == q.email
             x == [q EXCEPT !.pc = "session", !.user = u]
  <2>1. /\ q.pc = "create" /\ e \in Emails /\ UsersWith(e) = {} /\ email[u] = None
        /\ accounts' = accounts \cup {u} /\ email' = [email EXCEPT ![u] = e]
        /\ had' = [had EXCEPT ![u] = {e}]
        /\ UNCHANGED <<verified, minted, live, mailed, uses, spent, kept>>
        /\ request' = [request EXCEPT ![r] = x]
    BY <1>1, <1>2 DEF CreateUser, At, RequestOK, redis, history
  <2>2. /\ x \in Request /\ x.pc = "session" /\ x.call = q.call /\ x.user = u
        /\ x.email = e /\ x.late = q.late
    <3> HIDE DEF q
    <3> QED BY <1>1, SomeLabels DEF Request
  <2> HIDE DEF e, x
  <2> PICK y : y = x
    OBVIOUS
  <2>3. /\ Drawn' = Drawn \cup {u} /\ u \notin Drawn
        /\ \A v \in Drawn : email'[v] = email[v] /\ had'[v] = had[v]
        /\ email'[u] = e /\ had'[u] = {e}
    BY <2>1 DEF AccountsInv, RowsOK, Drawn
  <2>4. RowsOK'
    <3>1. \A v \in accounts : email[v] # e
      BY <2>1 DEF UsersWith
    <3>2. \A v, w \in accounts' : email'[v] = email'[w] => v = w
      BY <1>1, <2>1, <2>3, <3>1 DEF AccountsInv, RowsOK
    <3>3. had' \in [Users -> SUBSET Emails] /\ email' \in [Users -> Emails \cup {None}]
      BY <2>1 DEF AccountsInv, RowsOK
    <3> QED BY <2>1, <2>3, <3>2, <3>3 DEF AccountsInv, RowsOK
  <2>5. TokensOK'
    BY <2>1, <2>3 DEF AccountsInv, TokensOK
  <2>6. Grows
    BY <2>1, <2>3 DEF Grows
  <2>7. VerifiedEarned'
    BY <2>1, <2>6, EarnedStays
  <2>8. RequestOK(y)' /\ request' = [request EXCEPT ![r] = y]
    BY <1>1, <2>1, <2>2, <2>3 DEF RequestOK
  <2> QED BY <2>1, <2>4, <2>5, <2>6, <2>7, <2>8, MoveOK
<1>3. CASE UpdateProfile(r)
  <2> DEFINE e == q.email
             u == q.user
  <2>1. /\ e \in Emails /\ u \in accounts /\ UsersWith(e) \subseteq {u}
        /\ email' = [email EXCEPT ![u] = e] /\ had' = [had EXCEPT ![u] = @ \cup {e}]
        /\ UNCHANGED <<accounts, verified, minted, live, mailed, uses, spent, kept>>
        /\ request' = [request EXCEPT ![r] = Idle]
    BY <1>1, <1>3 DEF UpdateProfile, RequestOK, redis, history, Finish
  <2> HIDE DEF e, u
  <2>2. /\ Drawn' = Drawn /\ u \in Drawn
        /\ \A v \in Drawn : had[v] \subseteq had'[v] /\ (v # u => email'[v] = email[v])
        /\ email'[u] = e /\ e \in had'[u]
    BY <1>1, <2>1 DEF AccountsInv, RowsOK, Drawn
  <2>3. RowsOK'
    <3>1. \A v \in accounts \ {u} : email[v] # e
      BY <2>1 DEF UsersWith
    <3>2. \A v, w \in accounts' : email'[v] = email'[w] => v = w
      BY <1>1, <2>1, <2>2, <3>1 DEF AccountsInv, RowsOK
    <3>3. had' \in [Users -> SUBSET Emails] /\ email' \in [Users -> Emails \cup {None}]
      BY <1>1, <2>1 DEF AccountsInv, RowsOK
    <3>4. \A v \in Drawn' : email'[v] \in had'[v]
      BY <2>2 DEF AccountsInv, RowsOK
    <3> QED BY <2>1, <2>2, <3>2, <3>3, <3>4 DEF AccountsInv, RowsOK
  <2>4. TokensOK'
    BY <2>1, <2>2 DEF AccountsInv, TokensOK
  <2>5. Grows
    BY <2>1, <2>2 DEF Grows
  <2>6. VerifiedEarned'
    BY <2>1, <2>5, EarnedStays
  <2>7. RequestOK(Idle)'
    BY <2>5, IdleOK, OthersOK
  <2> QED BY <2>1, <2>3, <2>4, <2>5, <2>6, <2>7, MoveOK
<1>4. CASE VerifyUser(r) \/ UpdatePassword(r)
  <2> DEFINE t == q.token
             x == [q EXCEPT !.pc = "del"]
  <2>1. /\ q.pc = "update" /\ q.call \in TokenCalls /\ q.user \in accounts
        /\ CountUse(t) /\ request' = [request EXCEPT ![r] = x]
        /\ UNCHANGED <<accounts, email, had, minted, live, mailed, spent, kept>>
        /\ \/ verified' = verified
           \/ q.call = "verifyEmail" /\ verified' = verified \cup {q.user}
    BY <1>1, <1>4
    DEF VerifyUser, UpdatePassword, At, GoTo, TokenCalls, database, redis
  <2>2. /\ t \in mailed /\ minted[t].kind = KindOf(q.call) /\ minted[t].user = q.user
        /\ t \in Tokens /\ minted[t] # None
    BY <1>1, <2>1 DEF RequestOK, AccountsInv, TokensOK
  <2>3. /\ x \in Request /\ x.pc = "del" /\ x.call = q.call /\ x.user = q.user
        /\ x.token = t /\ x.late = q.late
    BY <1>1, SomeLabels, LabelTypes
  <2> HIDE DEF t, x
  <2> PICK y : y = x
    OBVIOUS
  <2>4. /\ uses' \in [Tokens -> 0 .. Cardinality(Requests) + 1]
        /\ uses'[t] > 0 /\ \A s \in Tokens : uses[s] > 0 => uses'[s] > 0
    <3>1. Cardinality(Requests) \in Nat
      BY FS_CardinalityType
    <3> QED BY <2>1, <2>2, <3>1 DEF CountUse, AccountsInv, TokensOK
  <2>5. RowsOK'
    BY <2>1 DEF AccountsInv, RowsOK, Drawn
  <2>6. TokensOK'
    BY <2>1, <2>4 DEF AccountsInv, TokensOK, Drawn
  <2>7. Grows
    BY <2>1, <2>4 DEF Grows, Drawn
  <2>8. VerifiedEarned'
    <3>1. CASE verified' = verified
      BY <2>7, <3>1, EarnedStays
    <3>2. CASE q.call = "verifyEmail" /\ verified' = verified \cup {q.user}
      <4>1. /\ minted[t].kind = "emailVerify"
            /\ minted[t].address \in had[q.user]
        BY <2>2, <3>2 DEF KindOf, AccountsInv, TokensOK
      <4>2. ASSUME NEW u \in verified
            PROVE  \E s \in mailed :
                     /\ minted[s].kind = "emailVerify" /\ minted[s].user = u
                     /\ minted[s].address \in had[u] /\ uses'[s] > 0
        BY <2>4 DEF AccountsInv, VerifiedEarned, TokensOK
      <4> QED BY <2>1, <2>2, <2>4, <3>2, <4>1, <4>2 DEF VerifiedEarned
    <3> QED BY <2>1, <3>1, <3>2
  <2>9. RequestOK(y)' /\ request' = [request EXCEPT ![r] = y]
    <3>1. ~q.late /\ q.call # "updateProfile"
      BY <1>1, <2>1 DEF RequestOK, Request, TokenCalls
    <3>2. y \in Request /\ y.pc = "del" /\ y.call \in TokenCalls /\ ~y.late
      BY <2>1, <2>3, <3>1
    <3>3. /\ y.token \in mailed' /\ minted'[y.token].kind = KindOf(y.call)
          /\ minted'[y.token].user = y.user /\ y.call # "updateProfile"
      BY <2>1, <2>2, <2>3, <3>1
    <3> QED BY <2>1, <3>2, <3>3 DEF RequestOK
  <2> QED BY <2>1, <2>5, <2>6, <2>7, <2>8, <2>9, MoveOK
<1>5. CASE DeleteUser(r)
  <2>1. /\ accounts' \subseteq accounts /\ verified' \subseteq verified
        /\ verified' \subseteq accounts'
        /\ UNCHANGED <<email, had, minted, live, mailed, uses, spent, kept>>
        /\ request' = [request EXCEPT ![r] = Idle]
    BY <1>5 DEF DeleteUser, Finish, redis, history, AccountsInv, RowsOK
  <2>2. RowsOK'
    BY <2>1 DEF AccountsInv, RowsOK, Drawn
  <2>3. TokensOK'
    BY <2>1 DEF AccountsInv, TokensOK, Drawn
  <2>4. Grows
    BY <2>1 DEF Grows, Drawn
  <2>5. VerifiedEarned'
    BY <2>1, <2>4, EarnedStays
  <2>6. RequestOK(Idle)'
    BY <2>4, IdleOK, OthersOK
  <2> QED BY <2>1, <2>2, <2>3, <2>4, <2>5, <2>6, MoveOK
<1> QED BY <1>2, <1>3, <1>4, <1>5

\* The steps that write tokens.
LEMMA TokenInv ==
  ASSUME AccountsInv, NEW r \in Requests,
         \/ \E t \in Tokens : SetToken(r, t)
         \/ SendEmail(r) \/ DeleteToken(r) \/ Fault(r)
  PROVE  AccountsInv'
<1> DEFINE q == request[r]
<1>1. /\ request \in [Requests -> Request] /\ q \in Request /\ RequestOK(q)
  BY DEF AccountsInv
<1>2. ASSUME NEW t \in Tokens, SetToken(r, t) PROVE AccountsInv'
  <2> DEFINE m == [kind |-> KindOf(q.call), user |-> q.user, address |-> q.email]
             x == [q EXCEPT !.pc = "mail", !.token = t]
  <2>1. /\ q.pc = "setEx" /\ minted[t] = None
        /\ minted' = [minted EXCEPT ![t] = m] /\ live' = live \cup {t}
        /\ UNCHANGED <<accounts, email, verified, had, mailed, uses, spent, kept>>
        /\ request' = [request EXCEPT ![r] = x]
    BY <1>1, <1>2 DEF SetToken, At, database, history
  <2>2. q.user \in Drawn /\ q.email \in had[q.user] /\ ~q.late
    BY <1>1, <2>1 DEF RequestOK, Request
  <2>3. m \in Minted /\ m.user = q.user /\ m.address = q.email /\ m # None
    <3>1. q.user \in Users /\ q.email \in Emails
      BY <2>2 DEF AccountsInv, RowsOK, Drawn
    <3>2. m \in Minted /\ m.user = q.user /\ m.address = q.email
      BY <3>1 DEF Minted, KindOf, Kinds
    <3>3. m # None
      BY <3>2, AccountsAssumption
    <3> QED BY <3>2, <3>3
  <2>4. /\ x \in Request /\ x.pc = "mail" /\ x.call = q.call /\ x.token = t
        /\ x.late = q.late /\ x.email = q.email
    <3> HIDE DEF q
    <3> QED BY <1>1, SomeLabels DEF Request
  <2> HIDE DEF m, x
  <2> PICK y : y = x
    OBVIOUS
  <2>5. /\ minted'[t] = m /\ \A s \in Tokens \ {t} : minted'[s] = minted[s]
        /\ minted' \in [Tokens -> Minted \cup {None}]
    BY <2>1, <2>3 DEF AccountsInv, TokensOK
  <2>6. RowsOK'
    BY <2>1 DEF AccountsInv, RowsOK, Drawn
  <2>7. t \notin live /\ t \notin mailed /\ t \notin spent
    BY <2>1 DEF AccountsInv, TokensOK
  <2>8. TokensOK'
    BY <2>1, <2>2, <2>3, <2>5, <2>7 DEF AccountsInv, TokensOK, Drawn
  <2>9. Grows
    BY <2>1, <2>5 DEF Grows, Drawn
  <2>10. VerifiedEarned'
    BY <2>1, <2>9, EarnedStays
  <2>11. RequestOK(y)' /\ request' = [request EXCEPT ![r] = y]
    BY <1>1, <2>1, <2>2, <2>3, <2>4, <2>5 DEF RequestOK
  <2> QED BY <2>1, <2>6, <2>8, <2>9, <2>10, <2>11, MoveOK
<1>3. CASE SendEmail(r) \/ DeleteToken(r) \/ Fault(r)
  <2>1. /\ UNCHANGED <<accounts, email, verified, had, minted, uses>>
        /\ request' = [request EXCEPT ![r] = Idle] /\ live' \subseteq live
    BY <1>3 DEF SendEmail, DeleteToken, Fault, Finish, database, redis, history
  <2>2. RowsOK'
    BY <2>1 DEF AccountsInv, RowsOK, Drawn
  <2>3. /\ mailed \subseteq mailed'
        /\ mailed' \subseteq {t \in Tokens : minted[t] # None}
        /\ spent' \subseteq {t \in Tokens : minted[t] # None} /\ spent' \cap live' = {}
        /\ kept' \subseteq Tokens
    <3>1. CASE SendEmail(r)
      <4>1. q.token \in Tokens /\ minted[q.token] # None
        BY <1>1, <3>1 DEF SendEmail, At, RequestOK
      <4> QED BY <3>1, <4>1 DEF SendEmail, redis, history, AccountsInv, TokensOK
    <3>2. CASE DeleteToken(r)
      <4>1. q.token \in mailed
        BY <1>1, <3>2 DEF DeleteToken, At, RequestOK
      <4> QED BY <3>2, <4>1 DEF DeleteToken, AccountsInv, TokensOK
    <3>3. CASE Fault(r)
      <4>1. At(r, "del") => q.token \in Tokens
        BY <1>1 DEF At, RequestOK, AccountsInv, TokensOK
      <4> QED BY <3>3, <4>1 DEF Fault, redis, AccountsInv, TokensOK
    <3> QED BY <1>3, <3>1, <3>2, <3>3
  <2>4. TokensOK'
    BY <2>1, <2>3 DEF AccountsInv, TokensOK, Drawn
  <2>5. Grows
    BY <2>1, <2>3 DEF Grows, Drawn
  <2>6. VerifiedEarned'
    BY <2>1, <2>5, EarnedStays
  <2>7. RequestOK(Idle)'
    BY <2>5, IdleOK, OthersOK
  <2> QED BY <2>1, <2>2, <2>4, <2>5, <2>6, <2>7, MoveOK
<1> QED BY <1>2, <1>3

\* A token that runs out.
LEMMA ExpireInv ==
  ASSUME AccountsInv, NEW t \in Tokens, Expire(t)
  PROVE  AccountsInv'
<1>1. /\ UNCHANGED <<accounts, email, verified, had, minted, mailed, uses, spent,
                     kept, request>>
      /\ live' \subseteq live
  BY DEF Expire, database, history
<1>2. RowsOK' /\ TokensOK'
  BY <1>1 DEF AccountsInv, RowsOK, TokensOK, Drawn
<1>3. Grows
  BY <1>1 DEF Grows, Drawn
<1>4. VerifiedEarned'
  BY <1>1, <1>3, EarnedStays
<1>5. ASSUME NEW s \in Requests PROVE RequestOK(request[s])'
  <2>1. PICK q : q = request[s]
    OBVIOUS
  <2>2. RequestOK(q)'
    BY <1>3, <2>1, OthersOK DEF AccountsInv
  <2> QED BY <1>1, <2>1, <2>2 DEF RequestOK
<1> QED BY <1>1, <1>2, <1>4, <1>5 DEF AccountsInv

LEMMA NextInv == AccountsInv /\ [Next]_vars => AccountsInv'
<1> SUFFICES ASSUME AccountsInv, [Next]_vars PROVE AccountsInv'
  OBVIOUS
<1>1. ASSUME NEW r \in Requests, Step(r) PROVE AccountsInv'
  BY <1>1, LookupInv, RowInv, TokenInv DEF Step
<1>2. CASE UNCHANGED vars
  BY <1>2 DEF vars, database, redis, history, AccountsInv, RowsOK, TokensOK, Drawn,
              VerifiedEarned, RequestOK
<1> QED BY <1>1, <1>2, ExpireInv DEF Next

LEMMA Invariance == Spec => []AccountsInv
  BY InitInv, NextInv, PTL DEF Spec

\* Every variable keeps its type and no two accounts have one address,
\* whatever registrations and address changes overlap.
THEOREM TypeCorrect == Spec => []TypeOK
  BY Invariance, InvStrong, PTL

\* Nobody is verified who was not mailed a verification token, that was used,
\* at an address of theirs.
THEOREM VerifiedIsEarned == Spec => []VerifiedEarned
  BY Invariance, InvStrong, PTL

\* A token whose use was answered 200, or that ran out, is never read again.
THEOREM OverIsOver == Spec => []OverStaysOver
  BY Invariance, InvStrong, PTL

----------------------------------------------------------------------------
(* The bound on uses.  While the key is there, whoever used the token has   *)
(* its deletion ahead; from then on only the requests that read it before   *)
(* can use it.                                                              *)

Waits(q, t) == q.pc \in {"find", "update"} /\ q.call \in TokenCalls /\ q.token = t
Used(q, t) == q.pc = "del" /\ q.token = t

Waiting(t) == {r \in Requests : Waits(request[r], t)}
Using(t) == {r \in Requests : Used(request[r], t)}

UseOK(t) ==
    IF t \in live
    THEN uses[t] <= Cardinality(Using(t))
    ELSE uses[t] + Cardinality(Waiting(t)) <= Cardinality(Requests)

UseInv ==
    /\ \A t \in Tokens : minted[t] = None => uses[t] = 0
    /\ \A t \in Tokens \ kept : UseOK(t)

LEMMA UseCounts ==
  ASSUME NEW t
  PROVE  /\ IsFiniteSet(Using(t)) /\ IsFiniteSet(Waiting(t))
         /\ Cardinality(Using(t)) \in Nat /\ Cardinality(Waiting(t)) \in Nat
         /\ IsFiniteSet(Using(t)') /\ IsFiniteSet(Waiting(t)')
         /\ Cardinality(Using(t)') \in Nat /\ Cardinality(Waiting(t)') \in Nat
         /\ Cardinality(Requests) \in Nat
         /\ Cardinality(Using(t)) + Cardinality(Waiting(t)) <= Cardinality(Requests)
<1>1. /\ Using(t) \subseteq Requests /\ Waiting(t) \subseteq Requests
      /\ Using(t)' \subseteq Requests /\ Waiting(t)' \subseteq Requests
      /\ Using(t) \cap Waiting(t) = {}
  BY DEF Using, Waiting, Used, Waits
<1>2. /\ IsFiniteSet(Using(t)) /\ IsFiniteSet(Waiting(t))
      /\ IsFiniteSet(Using(t)') /\ IsFiniteSet(Waiting(t)')
  BY <1>1, FS_Subset
<1>3. /\ Cardinality(Using(t)) \in Nat /\ Cardinality(Waiting(t)) \in Nat
      /\ Cardinality(Using(t)') \in Nat /\ Cardinality(Waiting(t)') \in Nat
      /\ Cardinality(Requests) \in Nat
  BY <1>2, FS_CardinalityType
<1>4. /\ Cardinality(Using(t) \cup Waiting(t))
            = Cardinality(Using(t)) + Cardinality(Waiting(t))
      /\ Cardinality(Using(t) \cup Waiting(t)) <= Cardinality(Requests)
  <2>1. Using(t) \cup Waiting(t) \subseteq Requests
    BY <1>1
  <2>2. Cardinality(Using(t) \cup Waiting(t)) <= Cardinality(Requests)
    BY <2>1, FS_Subset
  <2>3. Cardinality(Using(t) \cup Waiting(t))
          = Cardinality(Using(t)) + Cardinality(Waiting(t))
              - Cardinality(Using(t) \cap Waiting(t))
    BY <1>2, FS_Union
  <2>4. Cardinality(Using(t) \cap Waiting(t)) = 0
    BY <1>1, FS_EmptySet
  <2> QED BY <1>3, <2>2, <2>3, <2>4
<1> QED BY <1>2, <1>3, <1>4

\* A step that uses no token: whoever used one that is still there keeps its
\* deletion ahead, and nobody comes to wait who read a token that is gone.
LEMMA UseKept ==
  ASSUME AccountsInv, UseInv,
         NEW r \in Requests, NEW x, request' = [request EXCEPT ![r] = x],
         uses' = uses, kept \subseteq kept',
         \A t \in Tokens : minted'[t] = None => minted[t] = None,
         \A t \in Tokens \ kept' :
            /\ t \in live' => t \in live \/ minted[t] = None
            /\ t \in live' /\ Used(request[r], t) => Used(x, t)
            /\ t \notin live' /\ Waits(x, t) => Waits(request[r], t)
  PROVE  UseInv'
<1>1. \A s \in Requests : request'[s] = IF s = r THEN x ELSE request[s]
  BY DEF AccountsInv
<1>2. ASSUME NEW t \in Tokens \ kept' PROVE UseOK(t)'
  <2>0. uses[t] \in Nat /\ uses'[t] = uses[t]
    BY DEF AccountsInv, TokensOK
  <2>1. CASE t \in live' /\ minted[t] = None
    <3>1. uses[t] = 0
      BY <2>1 DEF UseInv
    <3> QED BY <2>0, <2>1, <3>1, UseCounts DEF UseOK
  <2>2. CASE t \in live' /\ t \in live
    <3>1. Using(t) \subseteq Using(t)'
      BY <1>1, <2>2 DEF Using
    <3>2. Cardinality(Using(t)) <= Cardinality(Using(t)')
      BY <3>1, UseCounts, FS_Subset
    <3>3. uses[t] <= Cardinality(Using(t))
      BY <2>2 DEF UseInv, UseOK
    <3> QED BY <2>0, <2>2, <3>2, <3>3, UseCounts DEF UseOK
  <2>3. CASE t \notin live'
    <3>1. Waiting(t)' \subseteq Waiting(t)
      BY <1>1, <2>3 DEF Waiting
    <3>2. Cardinality(Waiting(t)') <= Cardinality(Waiting(t))
      BY <3>1, UseCounts, FS_Subset
    <3>3. uses[t] + Cardinality(Waiting(t)) <= Cardinality(Requests)
      <4>1. CASE t \in live
        BY <2>0, <4>1, UseCounts DEF UseInv, UseOK
      <4>2. CASE t \notin live
        BY <4>2 DEF UseInv, UseOK
      <4> QED BY <4>1, <4>2
    <3> QED BY <2>0, <2>3, <3>2, <3>3, UseCounts DEF UseOK
  <2> QED BY <2>1, <2>2, <2>3
<1>3. \A t \in Tokens : minted'[t] = None => uses'[t] = 0
  BY DEF UseInv
<1> QED BY <1>2, <1>3 DEF UseInv

\* A request that is over.
LEMMA UseFinished ==
  ASSUME AccountsInv, UseInv, NEW r \in Requests, Finish(r),
         UNCHANGED <<minted, uses>>, kept \subseteq kept', live' \subseteq live,
         At(r, "del") => request[r].token \in kept' \/ request[r].token \notin live'
  PROVE  UseInv'
<1>1. \A t : ~Waits(Idle, t)
  BY DEF Waits, Idle
<1>2. \A t : Used(request[r], t) => t \in kept' \/ t \notin live'
  BY DEF Used, At
<1> QED BY <1>1, <1>2, UseKept DEF Finish

\* A request that goes on, before it has used a token.
LEMMA UseMoved ==
  ASSUME AccountsInv, UseInv, NEW r \in Requests, NEW x,
         request' = [request EXCEPT ![r] = x], request[r].pc # "del",
         UNCHANGED <<redis, uses, kept>>,
         \A t \in Tokens : t \notin live /\ Waits(x, t) => Waits(request[r], t)
  PROVE  UseInv'
<1>1. \A t : ~Used(request[r], t)
  BY DEF Used
<1> QED BY <1>1, UseKept DEF redis

\* verifyEmail and resetPassword use the token they read.
LEMMA UseCounted ==
  ASSUME AccountsInv, UseInv, NEW r \in Requests,
         At(r, "update"), request[r].call \in TokenCalls,
         CountUse(request[r].token), GoTo(r, "del"), UNCHANGED <<redis, kept>>
  PROVE  UseInv'
<1> PICK q, x, k : /\ q = request[r] /\ x = [q EXCEPT !.pc = "del"] /\ k = q.token
  OBVIOUS
<1>1. /\ q \in Request /\ request \in [Requests -> Request]
      /\ k \in Tokens /\ minted[k] # None /\ q.pc = "update"
  BY DEF AccountsInv, RequestOK, At, TokensOK
<1>2. x.pc = "del" /\ x.call = q.call /\ x.token = k
  BY <1>1 DEF Request
<1>3. \A s \in Requests : request'[s] = IF s = r THEN x ELSE request[s]
  BY <1>1 DEF GoTo
<1>4. /\ uses \in [Tokens -> Nat] /\ live' = live /\ kept' = kept /\ minted' = minted
      /\ uses'[k] \in Nat /\ uses'[k] <= uses[k] + 1
      /\ \A t \in Tokens \ {k} : uses'[t] = uses[t]
  BY <1>1 DEF CountUse, AccountsInv, TokensOK, redis
<1>5. Waits(q, k) /\ ~Used(q, k) /\ Used(x, k) /\ ~Waits(x, k)
  BY <1>1, <1>2 DEF Waits, Used
<1>6. \A t : t # k => ~Waits(q, t) /\ ~Used(q, t) /\ ~Used(x, t) /\ ~Waits(x, t)
  BY <1>2 DEF Waits, Used
<1>7. ASSUME NEW t \in Tokens \ kept PROVE UseOK(t)'
  <2>0. UseOK(t)
    BY DEF UseInv
  <2>1. CASE t # k
    <3>1. Using(t)' = Using(t) /\ Waiting(t)' = Waiting(t)
      BY <1>3, <1>6, <2>1 DEF Using, Waiting
    <3> QED BY <1>4, <2>0, <2>1, <3>1 DEF UseOK
  <2>2. CASE t = k
    <3>1. /\ Using(k)' = Using(k) \cup {r} /\ r \notin Using(k)
          /\ Waiting(k)' = Waiting(k) \ {r} /\ r \in Waiting(k)
      BY <1>3, <1>5 DEF Using, Waiting
    <3>2. /\ Cardinality(Using(k)') = Cardinality(Using(k)) + 1
          /\ Cardinality(Waiting(k)') = Cardinality(Waiting(k)) - 1
      <4>1. IsFiniteSet(Using(k)) /\ IsFiniteSet(Waiting(k))
        BY UseCounts
      <4>2. Cardinality(Using(k) \cup {r}) = Cardinality(Using(k)) + 1
        BY <3>1, <4>1, FS_AddElement
      <4>3. Cardinality(Waiting(k) \ {r}) = Cardinality(Waiting(k)) - 1
        BY <3>1, <4>1, FS_RemoveElement
      <4> QED BY <3>1, <4>2, <4>3
    <3>3. uses[k] \in Nat
      BY <1>1, <1>4
    <3>4. CASE k \in live
      <4>1. uses[k] <= Cardinality(Using(k))
        BY <2>0, <2>2, <3>4 DEF UseOK
      <4>2. uses'[k] <= Cardinality(Using(k)')
        BY <1>4, <3>2, <3>3, <4>1, UseCounts
      <4> QED BY <1>4, <2>2, <3>4, <4>2 DEF UseOK
    <3>5. CASE k \notin live
      <4>1. uses[k] + Cardinality(Waiting(k)) <= Cardinality(Requests)
        BY <2>0, <2>2, <3>5 DEF UseOK
      <4>2. uses'[k] + Cardinality(Waiting(k)') <= Cardinality(Requests)
        BY <1>4, <3>2, <3>3, <4>1, UseCounts
      <4> QED BY <1>4, <2>2, <3>5, <4>2 DEF UseOK
    <3> QED BY <3>4, <3>5
  <2> QED BY <2>1, <2>2
<1>8. \A t \in Tokens : minted'[t] = None => uses'[t] = 0
  BY <1>1, <1>4 DEF UseInv
<1> QED BY <1>4, <1>7, <1>8 DEF UseInv

LEMMA UseGoTo ==
  ASSUME AccountsInv, UseInv, NEW r \in Requests, NEW l \in Labels, GoTo(r, l),
         request[r].pc \notin {"del", "get"}, UNCHANGED <<minted, live, uses, kept>>,
         \/ request[r].call \notin TokenCalls
         \/ l \notin {"find", "update"}
         \/ request[r].pc = "find"
  PROVE  UseInv'
<1> PICK q, x : q = request[r] /\ x = [q EXCEPT !.pc = l]
  OBVIOUS
<1>1. q \in Request /\ request \in [Requests -> Request]
  BY DEF AccountsInv
<1>2. request' = [request EXCEPT ![r] = x]
  BY <1>1 DEF GoTo
<1>3. x.pc = l /\ x.call = q.call /\ x.token = q.token
  BY <1>1, LabelTypes
<1>4. \A t \in Tokens : Waits(x, t) => Waits(q, t)
  BY <1>3 DEF Waits
<1> QED BY <1>2, <1>4, UseMoved DEF redis

LEMMA UseStep ==
  ASSUME AccountsInv, UseInv, NEW r \in Requests, Step(r)
  PROVE  UseInv'
<1> DEFINE q == request[r]
<1> USE DEF database, redis, history
<1>1. /\ q \in Request /\ request \in [Requests -> Request] /\ RequestOK(q)
      /\ \A l \in Labels : LET x == [q EXCEPT !.pc = l]
                           IN  x.pc = l /\ x.call = q.call /\ x.token = q.token
  BY LabelTypes DEF AccountsInv
<1>2. ASSUME NEW x \in Arguments, Receive(r, x) PROVE UseInv'
  <2>1. x.pc \notin {"find", "update"} \/ x.call \notin TokenCalls
    BY DEF Arguments, Asking, TokenCalls
  <2> QED BY <1>2, <2>1, UseMoved DEF Receive, At, Waits
<1>3. CASE EmailFree(r)
  <2>1. q.pc = "exists" /\ q.call \notin TokenCalls
    BY <1>1, <1>3 DEF EmailFree, At, RequestOK, TokenCalls
  <2>2. PICK l \in {"create", "update"} : GoTo(r, l)
    BY <1>3 DEF EmailFree
  <2>3. UNCHANGED <<minted, live, uses, kept>>
    BY <1>3 DEF EmailFree
  <2> QED BY <2>1, <2>2, <2>3, SomeLabels, UseGoTo
<1>4. CASE FindProfile(r)
  BY <1>4, SomeLabels, UseGoTo DEF FindProfile, At, TokenCalls
<1>5. CASE FindVerifying(r)
  BY <1>5, SomeLabels, UseGoTo DEF FindVerifying, At, TokenCalls
<1>6. CASE CreateSession(r)
  <2>1. q.pc = "session" /\ GoTo(r, "setEx") /\ UNCHANGED <<minted, live, uses, kept>>
    BY <1>6 DEF CreateSession, At
  <2>2. q.pc \notin {"del", "get"} /\ "setEx" \notin {"find", "update"}
    BY <2>1
  <2> QED BY <2>1, <2>2, SomeLabels, UseGoTo
<1>7. ASSUME NEW x, request' = [request EXCEPT ![r] = x], q.pc # "del",
             UNCHANGED <<redis, uses, kept>>, x.pc \notin {"find", "update"}
      PROVE  UseInv'
  BY <1>7, UseMoved DEF Waits
<1>8. ASSUME NEW u \in Users, FindByEmail(r, u) \/ CreateUser(r, u) PROVE UseInv'
  <2>1. PICK l \in {"setEx", "session"} :
          request' = [request EXCEPT ![r].pc = l, ![r].user = u]
    BY <1>8 DEF FindByEmail, CreateUser
  <2> DEFINE x == [q EXCEPT !.pc = l, !.user = u]
  <2>2. request' = [request EXCEPT ![r] = x] /\ x.pc = l
    BY <1>1, <2>1 DEF Request
  <2> HIDE DEF x
  <2> QED BY <1>7, <1>8, <2>2 DEF FindByEmail, CreateUser, At
<1>9. CASE FindUnverified(r)
  <2>1. q.pc = "find" /\ UNCHANGED <<redis, uses, kept>>
    BY <1>9 DEF FindUnverified, At
  <2>2. CASE Finish(r)
    BY <2>1, <2>2, UseFinished DEF At
  <2>3. CASE ~Finish(r)
    <3>1. request' = [request EXCEPT ![r].pc = "setEx", ![r].email = email[q.user]]
      BY <1>9, <2>3 DEF FindUnverified
    <3> DEFINE x == [q EXCEPT !.pc = "setEx", !.email = email[q.user]]
    <3>2. request' = [request EXCEPT ![r] = x] /\ x.pc = "setEx"
      BY <1>1, <3>1 DEF Request
    <3> HIDE DEF x
    <3> QED BY <1>7, <2>1, <3>2
  <2> QED BY <2>2, <2>3
<1>10. ASSUME NEW t \in Tokens, SetToken(r, t) PROVE UseInv'
  <2> DEFINE x == [q EXCEPT !.pc = "mail", !.token = t]
             m == [kind |-> KindOf(q.call), user |-> q.user, address |-> q.email]
  <2>1. /\ q.pc = "setEx" /\ minted[t] = None
        /\ minted' = [minted EXCEPT ![t] = m] /\ live' = live \cup {t}
        /\ UNCHANGED <<uses, kept>>
        /\ request' = [request EXCEPT ![r] = x]
    BY <1>1, <1>10 DEF SetToken, At
  <2>2. x.pc = "mail"
    BY <1>1 DEF Request
  <2> HIDE DEF m, x
  <2>3. \A s \in Tokens : s # t => minted'[s] = minted[s]
    BY <2>1 DEF AccountsInv, TokensOK
  <2>4. \A s : ~Used(q, s) /\ ~Waits(x, s)
    BY <2>1, <2>2 DEF Used, Waits
  <2>5. \A s \in Tokens : s \in live' => s \in live \/ minted[s] = None
    BY <2>1
  <2>6. \A s \in Tokens : minted'[s] = None => minted[s] = None
    BY <2>1, <2>3
  <2> QED BY <2>1, <2>4, <2>5, <2>6, UseKept
<1>11. CASE GetToken(r)
  <2>1. PICK l \in {"find", "update"} :
          request' = [request EXCEPT ![r].user = minted[q.token].user, ![r].pc = l]
    BY <1>11 DEF GetToken
  <2> DEFINE x == [q EXCEPT !.user = minted[q.token].user, !.pc = l]
  <2>2. request' = [request EXCEPT ![r] = x] /\ x.token = q.token
    BY <1>1, <2>1 DEF Request
  <2> HIDE DEF x
  <2>3. q.pc = "get" /\ q.token \in live /\ UNCHANGED <<redis, uses, kept>>
    BY <1>11 DEF GetToken, At
  <2>4. \A t \in Tokens : t \notin live => ~Waits(x, t)
    BY <2>2, <2>3 DEF Waits
  <2> QED BY <2>2, <2>3, <2>4, UseMoved
<1>12. CASE VerifyUser(r) \/ UpdatePassword(r)
  BY <1>12, UseCounted DEF VerifyUser, UpdatePassword, TokenCalls
<1>13. CASE \/ EmailAlreadyInUse(r) \/ UserNotFound(r) \/ EmailTaken(r)
            \/ UpdateProfile(r) \/ RowGone(r) \/ DeleteUser(r)
            \/ SendEmail(r) \/ InvalidToken(r)
  <2>1. Finish(r) /\ UNCHANGED <<redis, uses, kept>> /\ ~At(r, "del")
    BY <1>13 DEF EmailAlreadyInUse, UserNotFound, EmailTaken, UpdateProfile, RowGone,
                 DeleteUser, SendEmail, InvalidToken, At
  <2> QED BY <2>1, UseFinished
<1>14. CASE DeleteToken(r)
  BY <1>14, UseFinished DEF DeleteToken
<1>15. CASE Fault(r)
  BY <1>15, UseFinished DEF Fault
<1> QED
  BY <1>2, <1>3, <1>4, <1>5, <1>6, <1>8, <1>9, <1>10, <1>11, <1>12, <1>13, <1>14,
     <1>15 DEF Step

LEMMA UseNext == AccountsInv /\ UseInv /\ [Next]_vars => UseInv'
<1> SUFFICES ASSUME AccountsInv, UseInv, [Next]_vars PROVE UseInv'
  OBVIOUS
<1>1. ASSUME NEW t \in Tokens, Expire(t) PROVE UseInv'
  <2>1. /\ UNCHANGED <<minted, uses, kept, request>> /\ live' \subseteq live
    BY <1>1 DEF Expire, database, history
  <2>2. ASSUME NEW s \in Tokens \ kept PROVE UseOK(s)'
    <3>1. Using(s)' = Using(s) /\ Waiting(s)' = Waiting(s) /\ UseOK(s)
      BY <2>1 DEF Using, Waiting, UseInv
    <3>2. uses[s] \in Nat
      BY DEF AccountsInv, TokensOK
    <3> QED BY <2>1, <3>1, <3>2, UseCounts DEF UseOK
  <2> QED BY <2>1, <2>2 DEF UseInv
<1>2. CASE UNCHANGED vars
  BY <1>2 DEF vars, database, redis, history, UseInv, UseOK, Using, Waiting
<1> QED BY <1>1, <1>2, UseStep DEF Next

\* However many requests present a token at once, it changes a row at most as
\* often as there are requests in flight, unless a deletion of it fails.
THEOREM UsesAlwaysBounded == Spec => []UsesBounded
<1>1. Init => UseInv
  <2> SUFFICES ASSUME Init PROVE UseInv
    OBVIOUS
  <2>1. \A t \in Tokens : uses[t] = 0 /\ t \notin live
    BY DEF Init
  <2>2. ASSUME NEW t \in Tokens PROVE UseOK(t)
    <3>1. Waiting(t) = {}
      BY DEF Init, Waiting, Waits, Idle
    <3>2. Cardinality(Waiting(t)) = 0 /\ Cardinality(Requests) \in Nat
      BY <3>1, FS_EmptySet, FS_CardinalityType
    <3> QED BY <2>1, <3>2 DEF UseOK
  <2> QED BY <2>1, <2>2 DEF UseInv
<1>2. AccountsInv /\ UseInv => UsesBounded
  <2> SUFFICES ASSUME AccountsInv, UseInv, NEW t \in Tokens \ kept
               PROVE  uses[t] <= Cardinality(Requests)
    BY DEF UsesBounded
  <2>1. uses[t] \in Nat /\ UseOK(t)
    BY DEF AccountsInv, TokensOK, UseInv
  <2> QED BY <2>1, UseCounts DEF UseOK
<1> QED BY <1>1, <1>2, InitInv, NextInv, UseNext, PTL DEF Spec

\* The steps of the endpoints beside those of the list: what was proved of
\* Accounts holds of the User rows.
LEMMA BothIsAccounts == BothSpec => Spec
<1>1. BothInit => Init
  BY DEF BothInit
<1>2. [BothNext]_<<vars, listVars>> => [Next]_vars
  BY DEF BothNext
<1> QED BY <1>1, <1>2, PTL DEF BothSpec, Spec

----------------------------------------------------------------------------
(* Listing: pages and walks.                                               *)

\* The rows that come before a in the order, and how many they are: where no
\* two rows tie, its rank decides the page that a is on.
Ahead(k, order, a) ==
    {b \in DOMAIN k : IF order = "desc" THEN k[b] > k[a] ELSE k[b] < k[a]}
Rank(k, order, a) == Cardinality(Ahead(k, order, a))

\* What a request has been answered so far, and what a walk can be.
ListTypeOK ==
    /\ limit \in Nat \ {0}
    /\ walking \in BOOLEAN
    /\ DOMAIN key \subseteq 1 .. MaxRows
    /\ IsFiniteSet(DOMAIN key)
    /\ key \in [DOMAIN key -> Nat]
    /\ page \in Nat \ {0}
    /\ pending \in SUBSET {"page", "count"}
    /\ total \in Nat \cup {-1}
    /\ "count" \in pending => total = -1
    /\ pending = {"page"} => total # -1
    /\ "page" \in pending \/ (pending = {} /\ total = -1) => data = <<>>
    /\ there \subseteq DOMAIN key
    /\ done \in BOOLEAN /\ repeated \in BOOLEAN /\ quiet \in BOOLEAN
    /\ mayMiss \in BOOLEAN /\ mayRepeat \in BOOLEAN
    /\ ~walking => seen = {} /\ ~repeated /\ ~done
    /\ done => pending = {} /\ total = -1

\* The request has its rows already.
PageRead == pending = {"count"} \/ (pending = {} /\ total >= 0)

\* As long as nobody wrote, the answers still agree with the table.
ExactInv ==
    quiet =>
        /\ PageRead => \E o \in List!Orderings : data = List!Take(o)
        /\ total >= 0 => total = Cardinality(DOMAIN key)

\* The rows that were there all the time: those with fewer than page - 1 full
\* pages of rows before them were shown; once the request has its rows, so
\* were, or are about to be, those of this page; and when the count says that
\* there is no next page, these are all of them.
CompleteInv ==
    walking /\ ~mayMiss =>
        /\ ~List!Tied(key)
        /\ done => there \subseteq seen
        /\ ~done => \A a \in there :
              Rank(key, sortOrder, a) < (page - 1) * limit => a \in seen
        /\ PageRead => \A a \in there :
              Rank(key, sortOrder, a) < page * limit => a \in seen \cup List!ToSet(data)
        /\ pending = {"page"} => total = Cardinality(DOMAIN key)
        /\ pending = {} /\ total >= 0 /\ total <= page * limit =>
              there \subseteq seen \cup List!ToSet(data)

\* What the walk was shown has its place before the page it asks for, and
\* what it is about to be shown, on that page.
NoRepeatInv ==
    walking /\ ~mayRepeat =>
        /\ ~List!Tied(key)
        /\ ~repeated
        /\ ~done => \A a \in seen \cap DOMAIN key :
              Rank(key, sortOrder, a) < (page - 1) * limit
        /\ \A a \in List!ToSet(data) \cap DOMAIN key :
              Rank(key, sortOrder, a) < page * limit
        /\ seen \cap List!ToSet(data) = {}

ListInv == ListTypeOK /\ ExactInv /\ CompleteInv /\ NoRepeatInv

----------------------------------------------------------------------------
(* An ordering, the page taken from it, and the ranks of its rows.         *)

\* The instance has the operators of the modules that Listing extends.
LEMMA SameCardinality == \A S : List!Cardinality(S) = Cardinality(S)
BY DEF List!Cardinality, Cardinality

\* An ordering lists every row once, smaller ones first.
LEMMA OrderingFacts ==
    ASSUME IsFiniteSet(DOMAIN key), NEW o \in List!Orderings
    PROVE  /\ Cardinality(DOMAIN key) \in Nat
           /\ Len(o) = Cardinality(DOMAIN key)
           /\ o \in Seq(DOMAIN key)
           /\ DOMAIN o = 1 .. Cardinality(DOMAIN key)
           /\ o \in [1 .. Cardinality(DOMAIN key) -> DOMAIN key]
           /\ \A i, j \in DOMAIN o : i # j => o[i] # o[j]
           /\ \A i, j \in DOMAIN o : List!Precedes(o[i], o[j]) => i < j
           /\ \A a \in DOMAIN key : \E i \in DOMAIN o : o[i] = a
<1> DEFINE R == DOMAIN key
           n == Cardinality(R)
<1>1. n \in Nat
  BY FS_CardinalityType
<1>2. /\ o \in [1 .. n -> R]
      /\ \A i, j \in 1 .. n : i # j => o[i] # o[j]
      /\ \A i, j \in DOMAIN o : List!Precedes(o[i], o[j]) => i < j
  <2>1. o \in List!SetToSeqs(R)
    BY DEF List!Orderings, List!Rows
  <2>2. \A i, j \in DOMAIN o : List!Precedes(o[i], o[j]) => i < j
    BY DEF List!Orderings
  <2> HIDE DEF R
  <2>3. n = List!Cardinality(R)
    BY SameCardinality
  <2> HIDE DEF n
  <2>4. o \in {f \in [1 .. n -> R] : \A i, j \in 1 .. n : i # j => f[i] # f[j]}
    BY <2>1, <2>3 DEF List!SetToSeqs
  <2> QED BY <2>2, <2>4
<1>3. o \in Seq(R) /\ Len(o) = n /\ DOMAIN o = 1 .. n
  <2> HIDE DEF n, R
  <2> QED BY <1>1, <1>2
<1>4. \A a \in R : \E i \in DOMAIN o : o[i] = a
  <2>1. IsFiniteSet(1 .. n) /\ Cardinality(1 .. n) = n
    <3> HIDE DEF n, R
    <3>1. 1 \in Int /\ n \in Int
      BY <1>1
    <3>2. IsFiniteSet(1 .. n) /\ Cardinality(1 .. n) = IF 1 > n THEN 0 ELSE n - 1 + 1
      BY <3>1, FS_Interval
    <3> QED BY <1>1, <3>2
  <2>2. o \in Injection(1 .. n, R)
    <3> HIDE DEF n, R
    <3> QED BY <1>2 DEF Injection, IsInjective
  <2>3. o \in Surjection(1 .. n, R)
    <3>1. IsFiniteSet(R) /\ Cardinality(1 .. n) = Cardinality(R)
      BY <2>1
    <3> HIDE DEF n, R
    <3> QED BY <2>2, <3>1, FS_Injection
  <2> QED BY <2>3, <1>3 DEF Surjection
<1> QED BY <1>1, <1>2, <1>3, <1>4

\* Without ties there is one ordering: each row stands at its rank.
LEMMA RankInOrdering ==
    ASSUME IsFiniteSet(DOMAIN key), key \in [DOMAIN key -> Nat], ~List!Tied(key),
           NEW o \in List!Orderings, NEW i \in DOMAIN o
    PROVE  Rank(key, sortOrder, o[i]) = i - 1
<1> DEFINE n == Cardinality(DOMAIN key)
           h == [j \in 1 .. i - 1 |-> o[j]]
           A == Ahead(key, sortOrder, o[i])
<1>1. /\ n \in Nat /\ DOMAIN o = 1 .. n /\ o \in [1 .. n -> DOMAIN key]
      /\ \A j, l \in 1 .. n : j # l => o[j] # o[l]
      /\ \A j, l \in 1 .. n : List!Precedes(o[j], o[l]) => j < l
      /\ \A a \in DOMAIN key : \E j \in 1 .. n : o[j] = a
  BY OrderingFacts
<1> HIDE DEF n
<1>2. i \in 1 .. n
  BY <1>1
<1>3. ASSUME NEW j \in 1 .. n PROVE o[j] \in A <=> j < i
  <2>1. o[j] \in A <=> List!Precedes(o[j], o[i])
    BY <1>1 DEF Ahead, List!Precedes
  <2>2. ASSUME j < i PROVE List!Precedes(o[j], o[i])
    <3>1. o[j] # o[i] /\ o[j] \in DOMAIN key /\ o[i] \in DOMAIN key
      BY <1>1, <1>2, <2>2
    <3>2. key[o[j]] # key[o[i]] /\ key[o[j]] \in Nat /\ key[o[i]] \in Nat
      BY <3>1 DEF List!Tied
    <3>3. ~List!Precedes(o[i], o[j])
      BY <1>1, <1>2, <2>2
    <3> QED BY <3>2, <3>3 DEF List!Precedes
  <2>3. List!Precedes(o[j], o[i]) => j < i
    BY <1>1, <1>2
  <2> QED BY <2>1, <2>2, <2>3
<1>4. A \subseteq DOMAIN key
  BY DEF Ahead
<1>5. ExistsBijection(1 .. i - 1, A)
  <2> HIDE DEF A
  <2>1. \A j \in 1 .. i - 1 : j \in 1 .. n /\ j < i
    <3>1. n \in Nat /\ i \in Nat /\ i <= n
      BY <1>1, <1>2
    <3> QED BY <3>1
  <2>2. h \in [1 .. i - 1 -> A]
    BY <1>3, <2>1
  <2>3. \A j, l \in 1 .. i - 1 : h[j] = h[l] => j = l
    BY <1>1, <2>1
  <2>4. \A a \in A : \E j \in 1 .. i - 1 : h[j] = a
    <3> TAKE a \in A
    <3>1. PICK j \in 1 .. n : o[j] = a
      BY <1>1, <1>4
    <3>2. j \in 1 .. i - 1
      BY <1>2, <1>3, <3>1
    <3> QED BY <3>1, <3>2
  <2> HIDE DEF h
  <2> QED
    BY <2>2, <2>3, <2>4 DEF ExistsBijection, Bijection, Injection, Surjection,
       IsInjective
<1>6. IsFiniteSet(1 .. i - 1) /\ Cardinality(1 .. i - 1) = i - 1
  <2>1. 1 \in Int /\ i - 1 \in Int /\ i \in Nat /\ i >= 1
    BY <1>2
  <2>2. /\ IsFiniteSet(1 .. i - 1)
        /\ Cardinality(1 .. i - 1) = IF 1 > i - 1 THEN 0 ELSE (i - 1) - 1 + 1
    BY <2>1, FS_Interval
  <2> QED BY <2>1, <2>2
<1>7. Cardinality(A) = i - 1
  <2> HIDE DEF A
  <2> QED BY <1>5, <1>6, FS_Bijection
<1> QED BY <1>7 DEF Rank

\* A page shows the places from (page - 1) * limit up to page * limit.
LEMMA TakeIndices ==
    ASSUME ListTypeOK, NEW o \in List!Orderings
    PROVE  List!ToSet(List!Take(o))
             = {o[i] : i \in {j \in DOMAIN o : (page - 1) * limit < j
               /\ j <= page * limit}}
<1> DEFINE n == Cardinality(DOMAIN key)
           s == (page - 1) * limit
           to == IF s + limit < n THEN s + limit ELSE n
<1>1. n \in Nat /\ DOMAIN o = 1 .. n /\ Len(o) = n /\ o \in Seq(DOMAIN key)
  BY OrderingFacts DEF ListTypeOK
<1>2. s \in Nat /\ page * limit = s + limit /\ limit \in Nat
  <2>1. page - 1 \in Nat /\ limit \in Nat /\ page \in Nat
    BY DEF ListTypeOK
  <2> QED BY <2>1
<1>3. List!Take(o) = SubSeq(o, s + 1, to)
  BY <1>1 DEF List!Take, List!TakeUpTo, List!Skip
<1> HIDE DEF n, s
<1>4. to \in Nat /\ to <= Len(o) /\ s + 1 \in Nat \ {0}
  BY <1>1, <1>2
<1>5. \A j \in Nat : s < j /\ j <= s + limit /\ j \in 1 .. n <=> j \in s + 1 .. to
  BY <1>1, <1>2
<1> HIDE DEF to
<1>6. /\ DOMAIN SubSeq(o, s + 1, to) = 1 .. (1 + to - (s + 1))
      /\ \A i \in 1 .. (1 + to - (s + 1)) : SubSeq(o, s + 1, to)[i] = o[i + (s + 1) - 1]
  BY <1>1, <1>4
<1>7. List!ToSet(SubSeq(o, s + 1, to)) = {o[i] : i \in s + 1 .. to}
  <2>1. ASSUME NEW i \in 1 .. (1 + to - (s + 1)) PROVE i + (s + 1) - 1 \in s + 1 .. to
    BY <1>2, <1>4
  <2>2. ASSUME NEW j \in s + 1 .. to
        PROVE  j - s \in 1 .. (1 + to - (s + 1)) /\ (j - s) + (s + 1) - 1 = j
    BY <1>2, <1>4
  <2> DEFINE c == SubSeq(o, s + 1, to)
  <2>3. /\ DOMAIN c = 1 .. (1 + to - (s + 1))
        /\ \A i \in DOMAIN c : c[i] = o[i + (s + 1) - 1]
    BY <1>6
  <2> HIDE DEF c
  <2>4. \A i \in DOMAIN c : \E j \in s + 1 .. to : c[i] = o[j]
    BY <2>1, <2>3
  <2>5. \A j \in s + 1 .. to : \E i \in DOMAIN c : c[i] = o[j]
    BY <2>2, <2>3
  <2>6. List!ToSet(c) = {c[i] : i \in DOMAIN c}
    BY DEF List!ToSet
  <2>7. List!ToSet(c) = {o[i] : i \in s + 1 .. to}
    BY <2>4, <2>5, <2>6
  <2> QED BY <2>7 DEF c
<1>8. {j \in DOMAIN o : s < j /\ j <= s + limit} = s + 1 .. to
  <2>1. \A j \in 1 .. n : s < j /\ j <= s + limit => j \in s + 1 .. to
    BY <1>5
  <2>2. \A j \in s + 1 .. to : j \in 1 .. n /\ s < j /\ j <= s + limit
    <3>1. \A j \in s + 1 .. to : j \in Nat
      BY <1>4
    <3> QED BY <1>5, <3>1
  <2> QED BY <1>1, <2>1, <2>2
<1> QED BY <1>2, <1>3, <1>7, <1>8 DEF s

\* So without ties it shows the rows of these ranks.
LEMMA TakeRanks ==
    ASSUME ListTypeOK, ~List!Tied(key), NEW o \in List!Orderings
    PROVE  List!ToSet(List!Take(o))
             = {a \in DOMAIN key : /\ (page - 1) * limit <= Rank(key, sortOrder, a)
                                   /\ Rank(key, sortOrder, a) < page * limit}
<1> DEFINE s == (page - 1) * limit
           e == page * limit
<1>1. s \in Nat /\ e \in Nat
  BY DEF ListTypeOK
<1>2. List!ToSet(List!Take(o)) = {o[i] : i \in {j \in DOMAIN o : s < j /\ j <= e}}
  BY TakeIndices
<1> HIDE DEF s, e
<1>3. ASSUME NEW i \in DOMAIN o
      PROVE  /\ o[i] \in DOMAIN key /\ i \in Nat
             /\ Rank(key, sortOrder, o[i]) = i - 1
  BY OrderingFacts, RankInOrdering DEF ListTypeOK
<1>4. \A a \in DOMAIN key : \E i \in DOMAIN o : o[i] = a
  BY OrderingFacts DEF ListTypeOK
<1>5. ASSUME NEW a \in List!ToSet(List!Take(o))
      PROVE  a \in DOMAIN key /\ s <= Rank(key, sortOrder, a)
               /\ Rank(key, sortOrder, a) < e
  <2>1. PICK i \in DOMAIN o : s < i /\ i <= e /\ a = o[i]
    BY <1>2
  <2> QED BY <1>1, <1>3, <2>1
<1>6. ASSUME NEW a \in DOMAIN key, s <= Rank(key, sortOrder, a),
             Rank(key, sortOrder, a) < e
      PROVE  a \in List!ToSet(List!Take(o))
  <2>1. PICK i \in DOMAIN o : o[i] = a
    BY <1>4
  <2>2. s < i /\ i <= e
    BY <1>1, <1>3, <1>6, <2>1
  <2> QED BY <1>2, <2>1, <2>2
<1> QED BY <1>5, <1>6 DEF s, e

\* A rank is less than the number of rows.
LEMMA RankBound ==
    ASSUME NEW k, IsFiniteSet(DOMAIN k), k \in [DOMAIN k -> Nat], NEW order,
           NEW a \in DOMAIN k
    PROVE  Rank(k, order, a) \in Nat /\ Rank(k, order, a) < Cardinality(DOMAIN k)
<1> DEFINE A == Ahead(k, order, a)
<1>1. A \in SUBSET DOMAIN k /\ a \notin A
  BY DEF Ahead
<1> HIDE DEF A
<1>2. /\ IsFiniteSet(A) /\ Cardinality(A) <= Cardinality(DOMAIN k)
      /\ Cardinality(DOMAIN k) = Cardinality(A) => DOMAIN k = A
  BY <1>1, FS_Subset
<1>3. Cardinality(A) \in Nat /\ Cardinality(DOMAIN k) \in Nat
  BY <1>2, FS_CardinalityType
<1>4. Cardinality(A) < Cardinality(DOMAIN k)
  BY <1>1, <1>2, <1>3
<1> QED BY <1>3, <1>4 DEF Rank, A

\* More rows, higher ranks.
LEMMA RankGrows ==
    ASSUME NEW k, NEW k2, IsFiniteSet(DOMAIN k2), DOMAIN k \subseteq DOMAIN k2,
           \A b \in DOMAIN k : k2[b] = k[b], NEW order, NEW a \in DOMAIN k
    PROVE  Rank(k, order, a) <= Rank(k2, order, a)
<1>1. Ahead(k, order, a) \in SUBSET Ahead(k2, order, a)
  BY DEF Ahead
<1>2. IsFiniteSet(Ahead(k2, order, a))
  <2>1. Ahead(k2, order, a) \in SUBSET DOMAIN k2
    BY DEF Ahead
  <2> QED BY <2>1, FS_Subset
<1> QED BY <1>1, <1>2, FS_Subset DEF Rank

\* Of n rows, l on a page, row i is on the page (i-1) \div l + 1, and there
\* are rows after page p if and only if it is before page (n+l-1) \div l.
LEMMA PageNumbers ==
    ASSUME NEW l \in Nat \ {0}, NEW n \in Nat
    PROVE  /\ \A i \in 1 .. n : /\ (i - 1) \div l + 1 \in Nat \ {0}
                                /\ \A p \in Nat \ {0} : (i - 1) \div l + 1 = p
                                     <=> (p - 1) * l < i /\ i <= p * l
           /\ (n + l - 1) \div l \in Nat
           /\ \A p \in Nat : p < (n + l - 1) \div l <=> p * l < n
<1>1. \A x \in Nat : x \div l \in Nat /\ l * (x \div l) <= x /\ x < l * (x \div l + 1)
  OBVIOUS
<1>2. ASSUME NEW a \in Nat, NEW b \in Nat, a <= b PROVE a * l <= b * l
  <2>1. PICK d \in Nat : b = a + d
    <3>1. b - a \in Nat /\ b = a + (b - a)
      BY <1>2
    <3> QED BY <3>1
  <2>2. b * l = a * l + d * l /\ d * l \in Nat /\ a * l \in Nat
    BY <2>1
  <2> QED BY <2>2
<1>3. ASSUME NEW i \in 1 .. n
      PROVE  /\ (i - 1) \div l + 1 \in Nat \ {0}
             /\ \A p \in Nat \ {0} : (i - 1) \div l + 1 = p
                  <=> (p - 1) * l < i /\ i <= p * l
  <2> DEFINE q == (i - 1) \div l
  <2>1. i - 1 \in Nat /\ i \in Nat
    OBVIOUS
  <2>2. q \in Nat /\ l * q <= i - 1 /\ i - 1 < l * (q + 1)
    BY <1>1, <2>1
  <2> HIDE DEF q
  <2>3. q * l < i /\ i <= (q + 1) * l
    <3>1. l * q = q * l /\ l * (q + 1) = (q + 1) * l /\ l * q \in Nat
            /\ l * (q + 1) \in Nat
      BY <2>2
    <3> QED BY <2>1, <2>2, <3>1
  <2>4. ASSUME NEW p \in Nat \ {0}, (p - 1) * l < i, i <= p * l PROVE q + 1 = p
    <3>1. p - 1 \in Nat /\ q + 1 \in Nat /\ p \in Nat
      BY <2>2
    <3>2. q * l \in Nat /\ p * l \in Nat /\ (p - 1) * l \in Nat /\ (q + 1) * l \in Nat
      BY <2>2, <3>1
    <3>3. ~ (p <= q)
      BY <1>2, <2>1, <2>2, <2>3, <2>4, <3>1, <3>2
    <3>4. ~ (q + 1 <= p - 1)
      BY <1>2, <2>1, <2>2, <2>3, <2>4, <3>1, <3>2
    <3> QED BY <2>2, <3>1, <3>3, <3>4
  <2>5. (q + 1) - 1 = q /\ q + 1 \in Nat \ {0}
    BY <2>2
  <2> QED BY <2>3, <2>4, <2>5 DEF q
<1> DEFINE t == (n + l - 1) \div l
<1>4. n + l - 1 \in Nat
  OBVIOUS
<1>5. t \in Nat /\ l * t <= n + l - 1 /\ n + l - 1 < l * (t + 1)
  BY <1>1, <1>4
<1> HIDE DEF t
<1>6. /\ l * t = t * l /\ l * (t + 1) = t * l + l /\ t * l \in Nat
  BY <1>5
<1>7. t * l < n + l /\ n <= t * l
  BY <1>5, <1>6
<1>8. ASSUME NEW p \in Nat PROVE p < t <=> p * l < n
  <2>1. p * l \in Nat /\ (p + 1) * l = p * l + l /\ p + 1 \in Nat
    OBVIOUS
  <2>2. ASSUME p < t PROVE p * l < n
    <3>1. (p + 1) * l <= t * l
      BY <1>2, <1>5, <2>1, <2>2
    <3> QED BY <1>6, <1>7, <2>1, <3>1
  <2>3. ASSUME t <= p PROVE n <= p * l
    <3>1. t * l <= p * l
      BY <1>2, <1>5, <2>3
    <3> QED BY <1>6, <1>7, <2>1, <3>1
  <2> QED BY <1>5, <2>1, <2>2, <2>3
<1> QED BY <1>3, <1>5, <1>8 DEF t

----------------------------------------------------------------------------
(* The writes.                                                             *)

LEMMA KeysCounted ==
    ASSUME ListTypeOK PROVE Cardinality(DOMAIN key) \in Nat
BY FS_CardinalityType DEF ListTypeOK

LEMMA LimitsCounted ==
    ASSUME ListTypeOK PROVE page * limit \in Nat /\ (page - 1) * limit \in Nat
BY DEF ListTypeOK

LEMMA RanksCounted ==
    ASSUME ListTypeOK, NEW a \in DOMAIN key
    PROVE  /\ Rank(key, sortOrder, a) \in Nat
           /\ Rank(key, sortOrder, a) < Cardinality(DOMAIN key)
BY RankBound DEF ListTypeOK

\* A new row has a name of its own and leaves the others as they are.
LEMMA InsertFacts ==
    ASSUME ListTypeOK, NEW k \in 1 .. MaxKey, List!Insert(k)
    PROVE  \E new : /\ List!Write(new, FALSE, TRUE)
                    /\ DOMAIN key \subseteq DOMAIN new
                    /\ DOMAIN new \subseteq 1 .. MaxRows
                    /\ IsFiniteSet(DOMAIN new)
                    /\ new \in [DOMAIN new -> Nat]
                    /\ \A b \in DOMAIN key : new[b] = key[b]
<1> DEFINE R == DOMAIN key
           Free == 1 .. MaxRows \ R
           id == CHOOSE x \in Free : \A y \in Free : x =< y
           new == [other \in R \cup {id} |-> IF other = id THEN k ELSE key[other]]
<1>1. /\ R # 1 .. MaxRows /\ R \subseteq 1 .. MaxRows /\ IsFiniteSet(R)
      /\ key \in [R -> Nat]
  BY DEF List!Insert, List!Ids, List!Rows, ListTypeOK
<1>2. List!Write(new, FALSE, TRUE)
  <2>1. id = List!Min(List!Ids \ List!Rows)
    BY DEF List!Min, List!Ids, List!Rows
  <2> QED BY <2>1 DEF List!Insert, List!Rows
<1> HIDE DEF R
<1>3. id \in Free
  <2>1. Free \subseteq Nat
    BY UserRowsAssumption
  <2>2. Free # {}
    <3>1. ASSUME Free = {} PROVE R = 1 .. MaxRows
      <4>1. \A x \in 1 .. MaxRows : x \in R
        BY <3>1
      <4> QED BY <1>1, <4>1
    <3> QED BY <1>1, <3>1
  <2> HIDE DEF Free
  <2>3. \E x \in Free : \A y \in Free : x =< y
    BY <2>1, <2>2, Least
  <2> QED BY <2>3
<1> HIDE DEF id
<1>4. IsFiniteSet(R \cup {id})
  BY <1>1, FS_AddElement
<1>5. k \in Nat
  OBVIOUS
<1>6. /\ DOMAIN new = R \cup {id}
      /\ R \cup {id} \subseteq 1 .. MaxRows
      /\ new \in [R \cup {id} -> Nat]
      /\ \A b \in R : new[b] = key[b]
  BY <1>1, <1>3, <1>5
<1> HIDE DEF new
<1> QED BY <1>2, <1>4, <1>6 DEF R

\* What stays when rows are written.
LEMMA WriteType ==
    ASSUME ListTypeOK, NEW k, NEW out \in BOOLEAN, NEW in \in BOOLEAN,
           List!Write(k, out, in), DOMAIN k \subseteq 1 .. MaxRows,
           IsFiniteSet(DOMAIN k), k \in [DOMAIN k -> Nat]
    PROVE  ListTypeOK'
<1>1. /\ key' = k /\ quiet' = FALSE /\ there' = there \cap DOMAIN k
      /\ mayMiss' \in BOOLEAN /\ mayRepeat' \in BOOLEAN
      /\ UNCHANGED <<limit, walking, page, pending, data, total, seen, done, repeated>>
  BY DEF List!Write, List!rigid, List!call, List!walk, ListTypeOK
<1> QED BY <1>1 DEF ListTypeOK

\* A deletion takes a row away and leaves the others as they are.
LEMMA DeleteFacts ==
    ASSUME ListTypeOK, NEW id, List!Delete(id)
    PROVE  \E new : /\ List!Write(new, TRUE, FALSE)
                    /\ DOMAIN new \subseteq DOMAIN key
                    /\ IsFiniteSet(DOMAIN new)
                    /\ new \in [DOMAIN new -> Nat]
                    /\ \A b \in DOMAIN new : new[b] = key[b]
<1> DEFINE new == [other \in DOMAIN key \ {id} |-> key[other]]
<1>1. List!Write(new, TRUE, FALSE)
  BY DEF List!Delete, List!Rows
<1>2. IsFiniteSet(DOMAIN key \ {id})
  BY FS_RemoveElement DEF ListTypeOK
<1>3. /\ DOMAIN new = DOMAIN key \ {id} /\ new \in [DOMAIN key \ {id} -> Nat]
      /\ \A b \in DOMAIN new : new[b] = key[b]
  BY DEF ListTypeOK
<1> HIDE DEF new
<1> QED BY <1>1, <1>2, <1>3

\* A change of a row keeps their number.
LEMMA UpdateFacts ==
    ASSUME ListTypeOK, NEW id, NEW k \in 1 .. MaxKey, List!Update(id, k)
    PROVE  \E new : /\ List!Write(new, TRUE, TRUE)
                    /\ DOMAIN new = DOMAIN key
                    /\ new \in [DOMAIN new -> Nat]
<1>1. List!Write([key EXCEPT ![id] = k], TRUE, TRUE)
  BY DEF List!Update
<1>2. [key EXCEPT ![id] = k] \in [DOMAIN key -> Nat]
  <2>1. k \in Nat
    BY UserRowsAssumption
  <2>2. key \in [DOMAIN key -> Nat]
    BY DEF ListTypeOK
  <2> QED BY <2>1, <2>2
<1> QED BY <1>1, <1>2

LEMMA ListInitType == List!Init => ListTypeOK
<1> SUFFICES ASSUME List!Init PROVE ListTypeOK
  OBVIOUS
<1>1. PICK n \in 0 .. MaxRows : key \in [1 .. n -> 1 .. MaxKey]
  BY DEF List!Init
<1>2. IsFiniteSet(1 .. n)
  BY FS_Interval, UserRowsAssumption
<1>3. DOMAIN key = 1 .. n /\ 1 .. n \subseteq 1 .. MaxRows /\ key \in [1 .. n -> Nat]
  BY <1>1, UserRowsAssumption
<1>4. limit \in Nat \ {0}
  BY UserRowsAssumption DEF List!Init
<1>5. List!Tied(key) \in BOOLEAN
  BY DEF List!Tied
<1>6. /\ walking \in BOOLEAN /\ page = 1 /\ pending = {} /\ data = <<>> /\ total = -1
      /\ seen = {} /\ done = FALSE /\ quiet = TRUE /\ there = DOMAIN key
      /\ repeated = FALSE /\ mayMiss \in BOOLEAN /\ mayRepeat \in BOOLEAN
  BY <1>5 DEF List!Init, List!Rows
<1>7. IsFiniteSet(DOMAIN key) /\ DOMAIN key \subseteq 1 .. MaxRows
      /\ key \in [DOMAIN key -> Nat]
  BY <1>2, <1>3
<1>8. pending \in SUBSET {"page", "count"} /\ "count" \notin pending
      /\ pending # {"page"} /\ "page" \notin pending
  BY <1>6
<1>9. page \in Nat \ {0} /\ total \in Nat \cup {-1} /\ there \subseteq DOMAIN key
  BY <1>6
<1>10. /\ done \in BOOLEAN /\ repeated \in BOOLEAN /\ quiet \in BOOLEAN
       /\ ~repeated /\ ~done
  BY <1>6
<1> QED BY <1>4, <1>6, <1>7, <1>8, <1>9, <1>10 DEF ListTypeOK

LEMMA ListNextType == ListTypeOK /\ [List!Next]_listVars => ListTypeOK'
<1> SUFFICES ASSUME ListTypeOK, [List!Next]_listVars PROVE ListTypeOK'
  OBVIOUS
<1>1. ASSUME NEW p \in 1 .. MaxPage, List!Ask(p) PROVE ListTypeOK'
  <2>1. /\ page' = p /\ pending' = {"page", "count"} /\ quiet' = TRUE /\ ~done
        /\ pending = {} /\ total = -1
        /\ UNCHANGED <<limit, walking, key, data, total, seen, done, repeated, there,
                       mayMiss, mayRepeat>>
    BY <1>1 DEF List!Ask, List!rigid, List!walk
  <2>2. pending' \in SUBSET {"page", "count"} /\ "count" \in pending'
    BY <2>1
  <2>3. pending' # {"page"} /\ pending' # {}
    BY <2>2
  <2>4. page' \in Nat \ {0}
    BY <2>1, UserRowsAssumption
  <2> QED BY <2>1, <2>2, <2>3, <2>4 DEF ListTypeOK
<1>2. ASSUME UNCHANGED listVars PROVE ListTypeOK'
  BY <1>2 DEF listVars, ListTypeOK
<1>3. CASE List!AskNotANumber
  <2>1. UNCHANGED listVars
    BY <1>3 DEF List!AskNotANumber, List!vars, List!rigid, List!call, List!walk,
       List!history, listVars
  <2> QED BY <1>2, <2>1
<1>4. CASE List!QueryPage
  BY <1>4 DEF List!QueryPage, List!rigid, List!walk, List!history, ListTypeOK
<1>5. CASE List!QueryCount
  <2>1. total' \in Nat
    BY <1>5, KeysCounted, SameCardinality DEF List!QueryCount, List!Rows
  <2> QED BY <1>5, <2>1
       DEF List!QueryCount, List!rigid, List!walk, List!history, ListTypeOK
<1>6. CASE List!Answer
  BY <1>6 DEF List!Answer, List!Answered, List!rigid, List!walk, List!history,
     ListTypeOK
<1>7. CASE List!Fault
  BY <1>7 DEF List!Fault, List!rigid, List!walk, List!history, ListTypeOK
<1>8. ASSUME NEW k \in 1 .. MaxKey, List!Insert(k) PROVE ListTypeOK'
  BY <1>8, InsertFacts, WriteType
<1>9. ASSUME NEW k \in 1 .. MaxKey, NEW id, List!Update(id, k) PROVE ListTypeOK'
  <2>1. DOMAIN key \subseteq 1 .. MaxRows /\ IsFiniteSet(DOMAIN key)
    BY DEF ListTypeOK
  <2>2. PICK new : /\ List!Write(new, TRUE, TRUE) /\ DOMAIN new = DOMAIN key
                   /\ new \in [DOMAIN new -> Nat]
    BY <1>9, UpdateFacts
  <2> QED BY <2>1, <2>2, WriteType
<1>10. ASSUME NEW id, List!Delete(id) PROVE ListTypeOK'
  <2>1. DOMAIN key \subseteq 1 .. MaxRows
    BY DEF ListTypeOK
  <2> QED BY <1>10, <2>1, DeleteFacts, WriteType
<1> QED
  BY <1>1, <1>2, <1>3, <1>4, <1>5, <1>6, <1>7, <1>8, <1>9, <1>10 DEF List!Next

----------------------------------------------------------------------------
(* The inductive invariant.                                                *)

LEMMA ListInitInv == List!Init => ListInv
<1> SUFFICES ASSUME List!Init PROVE ListInv
  OBVIOUS
<1>1. ListTypeOK
  BY ListInitType
<1>2. /\ page = 1 /\ pending = {} /\ data = <<>> /\ total = -1 /\ seen = {}
      /\ done = FALSE
      /\ repeated = FALSE /\ mayMiss = List!Tied(key) /\ mayRepeat = List!Tied(key)
  BY DEF List!Init
<1>3. ~PageRead /\ ~(total >= 0) /\ pending # {"page"}
  BY <1>2 DEF PageRead
<1>4. limit \in Nat /\ (page - 1) * limit = 0
  BY <1>1, <1>2 DEF ListTypeOK
<1>5. \A a \in DOMAIN key : Rank(key, sortOrder, a) \in Nat
  BY <1>1, RankBound DEF ListTypeOK
<1>6. there \subseteq DOMAIN key
  BY <1>1 DEF ListTypeOK
<1>7. \A a \in DOMAIN key : ~ (Rank(key, sortOrder, a) < (page - 1) * limit)
  BY <1>4, <1>5
<1>8. ExactInv
  BY <1>3 DEF ExactInv
<1>9. CompleteInv
  BY <1>2, <1>3, <1>6, <1>7 DEF CompleteInv
<1>10. List!ToSet(data) = {}
  BY <1>2 DEF List!ToSet
<1>11. NoRepeatInv
  BY <1>2, <1>10 DEF NoRepeatInv
<1> QED BY <1>1, <1>8, <1>9, <1>11 DEF ListInv

\* Every write ends the quiet, and the answers are given back at the end.
LEMMA ExactStep == ListTypeOK /\ ExactInv /\ [List!Next]_listVars => ExactInv'
<1> SUFFICES ASSUME ListTypeOK, ExactInv, [List!Next]_listVars PROVE ExactInv'
  OBVIOUS
<1> USE DEF List!rigid, List!call, List!walk, List!history
<1>1. ASSUME NEW p \in 1 .. MaxPage, List!Ask(p) PROVE ExactInv'
  <2>1. pending' = {"page", "count"} /\ total' = -1
    BY <1>1 DEF List!Ask
  <2>2. "page" \in pending' /\ "page" \notin {"count"} /\ ~(total' >= 0)
    BY <2>1
  <2>3. ~PageRead'
    BY <2>2 DEF PageRead
  <2> QED BY <2>2, <2>3 DEF ExactInv
<1>2. ASSUME UNCHANGED <<sortOrder, limit, key, page, pending, data, total, quiet>>
      PROVE  ExactInv'
  BY <1>2 DEF ExactInv, PageRead, List!Orderings, List!Precedes, List!Rows,
     List!Take, List!TakeUpTo, List!Skip
<1>3. CASE List!AskNotANumber
  BY <1>2, <1>3 DEF List!AskNotANumber, List!vars
<1>4. CASE List!QueryPage
  <2>1. /\ UNCHANGED <<sortOrder, limit, key, page, total, quiet>>
        /\ \E o \in List!Orderings : data' = List!Take(o)
    BY <1>4 DEF List!QueryPage
  <2> QED BY <2>1 DEF ExactInv, List!Orderings, List!Precedes, List!Rows,
          List!Take, List!TakeUpTo, List!Skip
<1>5. CASE List!QueryCount
  <2>1. /\ UNCHANGED <<sortOrder, limit, key, page, data, quiet>>
        /\ total' = Cardinality(DOMAIN key) /\ "count" \in pending
        /\ pending' = pending \ {"count"}
    BY <1>5, SameCardinality DEF List!QueryCount, List!Rows
  <2>2. PageRead' => PageRead
    BY <2>1 DEF PageRead, ListTypeOK
  <2> QED BY <2>1, <2>2 DEF ExactInv, List!Orderings, List!Precedes, List!Rows,
          List!Take, List!TakeUpTo, List!Skip
<1>6. ASSUME pending' = {}, total' = -1 PROVE ExactInv'
  <2>1. ~PageRead' /\ ~(total' >= 0)
    BY <1>6 DEF PageRead
  <2> QED BY <2>1 DEF ExactInv
<1>7. CASE List!Answer
  BY <1>6, <1>7 DEF List!Answer, List!Answered
<1>8. CASE List!Fault
  BY <1>6, <1>8 DEF List!Fault
<1>9. ASSUME NEW k, NEW out, NEW in, List!Write(k, out, in) PROVE ExactInv'
  BY <1>9 DEF List!Write, ExactInv
<1>10. ASSUME NEW k \in 1 .. MaxKey,
              List!Insert(k) \/ \E id \in List!Ids : List!Update(id, k)
       PROVE  ExactInv'
  BY <1>9, <1>10 DEF List!Insert, List!Update
<1>11. ASSUME NEW id \in List!Ids, List!Delete(id) PROVE ExactInv'
  BY <1>9, <1>11 DEF List!Delete
<1>12. CASE UNCHANGED listVars
  BY <1>2, <1>12 DEF listVars
<1> QED
  BY <1>1, <1>3, <1>4, <1>5, <1>7, <1>8, <1>10, <1>11, <1>12 DEF List!Next

\* Ranks only grow where nothing is deleted or moved, so no row that was there
\* moves to a page that was shown already.
LEMMA CompleteStep == ListTypeOK /\ CompleteInv /\ [List!Next]_listVars => CompleteInv'
<1> SUFFICES ASSUME ListTypeOK, CompleteInv, [List!Next]_listVars, walking', ~mayMiss'
             PROVE  CompleteInv'
  BY DEF CompleteInv
<1> USE DEF List!rigid, List!call, List!walk, List!history
<1>1. ASSUME NEW p \in 1 .. MaxPage, List!Ask(p) PROVE CompleteInv'
  <2>1. /\ UNCHANGED <<sortOrder, limit, walking, key, total, seen, done, there,
                       mayMiss, data>>
        /\ page' = page /\ pending' = {"page", "count"} /\ ~done
    BY <1>1 DEF List!Ask
  <2>2. "page" \in pending' /\ "page" \notin {"count"} /\ "count" \notin {"page"}
    BY <2>1
  <2>3. ~PageRead' /\ pending' # {} /\ pending' # {"page"}
    BY <2>1, <2>2 DEF PageRead
  <2> QED BY <2>1, <2>3 DEF CompleteInv
<1>2. ASSUME UNCHANGED <<sortOrder, limit, walking, key, page, pending, data, total,
                         seen,
                         done, there, mayMiss>>
      PROVE  CompleteInv'
  BY <1>2 DEF CompleteInv, PageRead
<1>3. CASE List!AskNotANumber
  BY <1>2, <1>3 DEF List!AskNotANumber, List!vars
<1>4. CASE List!QueryPage
  <2>1. /\ UNCHANGED <<sortOrder, limit, walking, key, page, total, seen, done, there,
                       mayMiss>>
        /\ "page" \in pending /\ pending' = pending \ {"page"}
    BY <1>4 DEF List!QueryPage
  <2>2. PICK o \in List!Orderings : data' = List!Take(o)
    BY <1>4 DEF List!QueryPage
  <2>3. /\ walking /\ ~mayMiss /\ ~List!Tied(key)
        /\ done => there \subseteq seen
        /\ ~done => \A a \in there :
              Rank(key, sortOrder, a) < (page - 1) * limit => a \in seen
        /\ pending = {"page"} => total = Cardinality(DOMAIN key)
    BY <2>1 DEF CompleteInv
  <2>4. ~done
    BY <2>1 DEF ListTypeOK
  <2>5. List!ToSet(data')
          = {a \in DOMAIN key : /\ (page - 1) * limit <= Rank(key, sortOrder, a)
                                /\ Rank(key, sortOrder, a) < page * limit}
    BY <2>2, <2>3, TakeRanks
  <2>6. /\ \A a \in DOMAIN key : /\ Rank(key, sortOrder, a) \in Nat
                                 /\ Rank(key, sortOrder, a) < Cardinality(DOMAIN key)
        /\ page * limit \in Nat /\ (page - 1) * limit \in Nat
        /\ Cardinality(DOMAIN key) \in Nat
    BY RanksCounted, LimitsCounted, KeysCounted
  <2>7. there \subseteq DOMAIN key
    BY DEF ListTypeOK
  <2>8. \A a \in there : Rank(key, sortOrder, a) < page * limit
          => a \in seen \cup List!ToSet(data')
    BY <2>3, <2>4, <2>5, <2>6, <2>7
  <2>9. pending' = {} => pending = {"page"}
    BY <2>1
  <2>10. pending' = {} /\ total <= page * limit
           => there \subseteq seen \cup List!ToSet(data')
    BY <2>3, <2>6, <2>7, <2>8, <2>9
  <2>11. pending' # {"page"}
    BY <2>1
  <2> QED BY <2>1, <2>3, <2>4, <2>8, <2>10, <2>11 DEF CompleteInv
<1>5. CASE List!QueryCount
  <2>1. /\ UNCHANGED <<sortOrder, limit, walking, key, page, data, seen, done, there,
                       mayMiss>>
        /\ total' = Cardinality(DOMAIN key) /\ "count" \in pending
        /\ pending' = pending \ {"count"}
    BY <1>5, SameCardinality DEF List!QueryCount, List!Rows
  <2>2. /\ PageRead' => PageRead
        /\ pending' = {} => PageRead
    BY <2>1 DEF PageRead, ListTypeOK
  <2>3. /\ walking /\ ~mayMiss /\ ~List!Tied(key)
        /\ done => there \subseteq seen
        /\ ~done => \A a \in there :
              Rank(key, sortOrder, a) < (page - 1) * limit => a \in seen
        /\ PageRead => \A a \in there :
              Rank(key, sortOrder, a) < page * limit => a \in seen \cup List!ToSet(data)
    BY <2>1 DEF CompleteInv
  <2>4. /\ \A a \in there : /\ Rank(key, sortOrder, a) \in Nat
                            /\ Rank(key, sortOrder, a) < Cardinality(DOMAIN key)
        /\ page * limit \in Nat /\ Cardinality(DOMAIN key) \in Nat
    <3>1. there \subseteq DOMAIN key
      BY DEF ListTypeOK
    <3> QED BY <3>1, RanksCounted, LimitsCounted, KeysCounted
  <2>5. pending' = {} /\ total' <= page * limit
          => there \subseteq seen \cup List!ToSet(data)
    BY <2>1, <2>2, <2>3, <2>4
  <2> QED BY <2>1, <2>2, <2>3, <2>5 DEF CompleteInv
<1>6. CASE List!Answer
  <2>1. /\ UNCHANGED <<sortOrder, limit, walking, key, pending, there, mayMiss>>
        /\ pending = {} /\ total >= 0 /\ total' = -1
        /\ seen' = seen \cup List!ToSet(data) /\ done' = ~List!HasNext
        /\ page' = IF List!HasNext THEN page + 1 ELSE page
    BY <1>6 DEF List!Answer, List!Answered
  <2>2. /\ walking /\ ~mayMiss /\ ~List!Tied(key)
        /\ \A a \in there :
              Rank(key, sortOrder, a) < page * limit => a \in seen \cup List!ToSet(data)
        /\ total <= page * limit => there \subseteq seen \cup List!ToSet(data)
    BY <2>1 DEF CompleteInv, PageRead
  <2>3. total \in Nat /\ page \in Nat \ {0} /\ limit \in Nat \ {0}
    BY <2>1 DEF ListTypeOK
  <2>4. ~PageRead' /\ pending' # {"page"} /\ ~(total' >= 0)
    BY <2>1 DEF PageRead
  <2>5. CASE List!HasNext
    <3>1. page' = page + 1 /\ ~done'
      BY <2>1, <2>5, Zenon
    <3>2. page' - 1 = page
      BY <2>3, <3>1
    <3> QED BY <2>1, <2>2, <2>4, <3>1, <3>2 DEF CompleteInv
  <2>6. CASE ~List!HasNext
    <3>1. page \in Nat /\ ~ (page < (total + limit - 1) \div limit)
      BY <2>3, <2>6 DEF List!HasNext, List!TotalPages
    <3>2. ~ (page * limit < total)
      BY <2>3, <3>1, PageNumbers
    <3>3. total <= page * limit
      BY <2>3, <3>2
    <3>4. done' /\ there' \subseteq seen'
      BY <2>1, <2>2, <2>6, <3>3
    <3> QED BY <2>1, <2>2, <2>4, <3>4 DEF CompleteInv
  <2> QED BY <2>5, <2>6
<1>7. CASE List!Fault
  <2>1. /\ UNCHANGED <<sortOrder, limit, walking, key, page, seen, done, there,
                       mayMiss>>
        /\ pending' = {} /\ total' = -1
    BY <1>7 DEF List!Fault
  <2>2. ~PageRead' /\ pending' # {"page"} /\ ~(total' >= 0)
    BY <2>1 DEF PageRead
  <2> QED BY <2>1, <2>2 DEF CompleteInv
<1>8. ASSUME NEW k \in 1 .. MaxKey, List!Insert(k) PROVE CompleteInv'
  <2>1. PICK new : /\ List!Write(new, FALSE, TRUE)
                   /\ DOMAIN key \subseteq DOMAIN new
                   /\ IsFiniteSet(DOMAIN new)
                   /\ \A b \in DOMAIN key : new[b] = key[b]
    BY <1>8, InsertFacts
  <2>2. /\ UNCHANGED <<sortOrder, limit, walking, page, pending, data, total, seen,
                       done>>
        /\ key' = new /\ there' = there \cap DOMAIN new
        /\ ~mayMiss /\ ~List!Tied(new) /\ Cardinality(pending) # 1
    BY <2>1, SameCardinality DEF List!Write
  <2>3. pending # {"page"} /\ pending # {"count"}
    BY <2>2, FS_Singleton
  <2>4. there' = there /\ there \subseteq DOMAIN key
    BY <2>1, <2>2 DEF ListTypeOK
  <2>5. ASSUME NEW a \in there
        PROVE  /\ Rank(key, sortOrder, a) \in Nat /\ Rank(new, sortOrder, a) \in Nat
               /\ Rank(key, sortOrder, a) <= Rank(new, sortOrder, a)
    <3>1. a \in DOMAIN key
      BY <2>4
    <3>2. Rank(key, sortOrder, a) \in Nat
      BY <3>1, RankBound DEF ListTypeOK
    <3>3. Rank(new, sortOrder, a) \in Nat
      <4>1. Ahead(new, sortOrder, a) \in SUBSET DOMAIN new
        BY DEF Ahead
      <4>2. IsFiniteSet(Ahead(new, sortOrder, a))
        BY <2>1, <4>1, FS_Subset
      <4> QED BY <4>2, FS_CardinalityType DEF Rank
    <3>4. Rank(key, sortOrder, a) <= Rank(new, sortOrder, a)
      BY <2>1, <3>1, RankGrows
    <3> QED BY <3>2, <3>3, <3>4
  <2>6. page * limit \in Nat /\ (page - 1) * limit \in Nat
    BY LimitsCounted
  <2>7. /\ done => there \subseteq seen
        /\ ~done => \A a \in there :
              Rank(key, sortOrder, a) < (page - 1) * limit => a \in seen
        /\ PageRead => \A a \in there :
              Rank(key, sortOrder, a) < page * limit => a \in seen \cup List!ToSet(data)
        /\ pending = {} /\ total >= 0 /\ total <= page * limit =>
              there \subseteq seen \cup List!ToSet(data)
    BY <2>2 DEF CompleteInv
  <2>8. ~done => \A a \in there : Rank(new, sortOrder, a) < (page - 1) * limit
          => a \in seen
    BY <2>5, <2>6, <2>7
  <2>9. PageRead => \A a \in there :
              Rank(new, sortOrder, a) < page * limit => a \in seen \cup List!ToSet(data)
    BY <2>5, <2>6, <2>7
  <2>10. PageRead' <=> PageRead
    BY <2>2 DEF PageRead
  <2> QED BY <2>2, <2>3, <2>4, <2>7, <2>8, <2>9, <2>10 DEF CompleteInv
<1>9. ASSUME NEW k, NEW id, List!Update(id, k) \/ List!Delete(id) PROVE FALSE
  BY <1>9 DEF List!Update, List!Delete, List!Write
<1>10. CASE UNCHANGED listVars
  BY <1>2, <1>10 DEF listVars
<1> QED
  BY <1>1, <1>3, <1>4, <1>5, <1>6, <1>7, <1>8, <1>9, <1>10 DEF List!Next

\* Ranks only shrink where nothing is inserted or moved, so no row that was
\* shown moves to a page still to come.
LEMMA NoRepeatStep == ListTypeOK /\ NoRepeatInv /\ [List!Next]_listVars => NoRepeatInv'
<1> SUFFICES ASSUME ListTypeOK, NoRepeatInv, [List!Next]_listVars, walking', ~mayRepeat'
             PROVE  NoRepeatInv'
  BY DEF NoRepeatInv
<1> USE DEF List!rigid, List!call, List!walk, List!history
<1>1. ASSUME UNCHANGED <<sortOrder, limit, walking, key, page, seen, done, repeated,
                         mayRepeat>>,
             data' = data \/ data' = <<>>
      PROVE  NoRepeatInv'
  <2>1. List!ToSet(data') \subseteq List!ToSet(data)
    BY <1>1 DEF List!ToSet
  <2> QED BY <1>1, <2>1 DEF NoRepeatInv
<1>2. ASSUME NEW p \in 1 .. MaxPage, List!Ask(p) PROVE NoRepeatInv'
  <2>1. page' = page
    BY <1>2 DEF List!Ask
  <2> QED BY <1>1, <1>2, <2>1 DEF List!Ask
<1>3. CASE List!AskNotANumber
  BY <1>1, <1>3 DEF List!AskNotANumber, List!vars
<1>4. CASE List!QueryPage
  <2>1. /\ UNCHANGED <<sortOrder, limit, walking, key, page, seen, done, repeated,
                       mayRepeat>>
        /\ "page" \in pending
    BY <1>4 DEF List!QueryPage
  <2>2. PICK o \in List!Orderings : data' = List!Take(o)
    BY <1>4 DEF List!QueryPage
  <2>3. ~done
    BY <2>1 DEF ListTypeOK
  <2>4. /\ walking /\ ~mayRepeat /\ ~List!Tied(key) /\ ~repeated
        /\ \A a \in seen \cap DOMAIN key :
              Rank(key, sortOrder, a) < (page - 1) * limit
    BY <2>1, <2>3 DEF NoRepeatInv
  <2>5. List!ToSet(data')
          = {a \in DOMAIN key : /\ (page - 1) * limit <= Rank(key, sortOrder, a)
                                /\ Rank(key, sortOrder, a) < page * limit}
    BY <2>2, <2>4, TakeRanks
  <2>6. /\ \A a \in DOMAIN key : Rank(key, sortOrder, a) \in Nat
        /\ (page - 1) * limit \in Nat
    BY RankBound DEF ListTypeOK
  <2>7. seen \cap List!ToSet(data') = {}
    BY <2>4, <2>5, <2>6
  <2>8. \A a \in List!ToSet(data') \cap DOMAIN key :
           Rank(key, sortOrder, a) < page * limit
    BY <2>5
  <2> QED BY <2>1, <2>4, <2>7, <2>8 DEF NoRepeatInv
<1>5. CASE List!QueryCount
  BY <1>1, <1>5 DEF List!QueryCount
<1>6. CASE List!Answer
  <2>1. /\ UNCHANGED <<sortOrder, limit, walking, key, mayRepeat>>
        /\ pending = {} /\ total >= 0 /\ data' = <<>>
        /\ seen' = seen \cup List!ToSet(data) /\ done' = ~List!HasNext
        /\ repeated' = (repeated \/ seen \cap List!ToSet(data) # {})
        /\ page' = IF List!HasNext THEN page + 1 ELSE page
    BY <1>6 DEF List!Answer, List!Answered
  <2>2. ~done
    BY <2>1 DEF ListTypeOK
  <2>3. /\ walking /\ ~mayRepeat /\ ~List!Tied(key) /\ ~repeated
        /\ \A a \in seen \cap DOMAIN key :
              Rank(key, sortOrder, a) < (page - 1) * limit
        /\ \A a \in List!ToSet(data) \cap DOMAIN key :
              Rank(key, sortOrder, a) < page * limit
        /\ seen \cap List!ToSet(data) = {}
    BY <2>1, <2>2 DEF NoRepeatInv
  <2>4. /\ \A a \in DOMAIN key : Rank(key, sortOrder, a) \in Nat
        /\ page \in Nat \ {0} /\ limit \in Nat
        /\ page * limit = (page - 1) * limit + limit /\ (page - 1) * limit \in Nat
    <3>1. page \in Nat \ {0} /\ limit \in Nat /\ page - 1 \in Nat
      BY DEF ListTypeOK
    <3>2. page * limit = (page - 1) * limit + limit /\ (page - 1) * limit \in Nat
      BY <3>1
    <3> QED BY <3>1, <3>2, RankBound DEF ListTypeOK
  <2>5. List!ToSet(data') = {}
    BY <2>1 DEF List!ToSet
  <2>6. ~repeated'
    BY <2>1, <2>3
  <2>7. ~done' => page' - 1 = page
    <3>1. ~done' => page' = page + 1
      BY <2>1, Zenon
    <3> QED BY <2>4, <3>1
  <2>8. \A a \in seen' \cap DOMAIN key : Rank(key, sortOrder, a) < page * limit
    BY <2>1, <2>3, <2>4
  <2> QED BY <2>1, <2>3, <2>5, <2>6, <2>7, <2>8 DEF NoRepeatInv
<1>7. CASE List!Fault
  BY <1>1, <1>7 DEF List!Fault
<1>8. ASSUME NEW id, List!Delete(id) PROVE NoRepeatInv'
  <2>1. PICK new : /\ List!Write(new, TRUE, FALSE)
                   /\ DOMAIN new \subseteq DOMAIN key
                   /\ IsFiniteSet(DOMAIN new)
                   /\ \A b \in DOMAIN new : new[b] = key[b]
    BY <1>8, DeleteFacts
  <2>2. /\ UNCHANGED <<sortOrder, limit, walking, page, data, seen, done, repeated>>
        /\ key' = new /\ ~mayRepeat /\ ~List!Tied(new)
    BY <2>1 DEF List!Write
  <2>3. ASSUME NEW a \in DOMAIN new
        PROVE  /\ Rank(key, sortOrder, a) \in Nat /\ Rank(new, sortOrder, a) \in Nat
               /\ Rank(new, sortOrder, a) <= Rank(key, sortOrder, a)
    <3>1. a \in DOMAIN key
      BY <2>1
    <3>2. Rank(key, sortOrder, a) \in Nat
      BY <3>1, RankBound DEF ListTypeOK
    <3>3. Rank(new, sortOrder, a) \in Nat
      <4>1. Ahead(new, sortOrder, a) \in SUBSET DOMAIN new
        BY DEF Ahead
      <4>2. IsFiniteSet(Ahead(new, sortOrder, a))
        BY <2>1, <4>1, FS_Subset
      <4> QED BY <4>2, FS_CardinalityType DEF Rank
    <3>4. IsFiniteSet(DOMAIN key) /\ \A b \in DOMAIN new : key[b] = new[b]
      BY <2>1 DEF ListTypeOK
    <3>5. Rank(new, sortOrder, a) <= Rank(key, sortOrder, a)
      BY <2>1, <3>4, RankGrows
    <3> QED BY <3>2, <3>3, <3>5
  <2>4. page * limit \in Nat /\ (page - 1) * limit \in Nat
    BY LimitsCounted
  <2>5. /\ walking /\ ~repeated
        /\ ~done => \A a \in seen \cap DOMAIN key :
              Rank(key, sortOrder, a) < (page - 1) * limit
        /\ \A a \in List!ToSet(data) \cap DOMAIN key :
              Rank(key, sortOrder, a) < page * limit
        /\ seen \cap List!ToSet(data) = {}
    BY <2>2 DEF NoRepeatInv
  <2>6. ~done => \A a \in seen \cap DOMAIN new :
           Rank(new, sortOrder, a) < (page - 1) * limit
    BY <2>1, <2>3, <2>4, <2>5
  <2>7. \A a \in List!ToSet(data) \cap DOMAIN new :
           Rank(new, sortOrder, a) < page * limit
    BY <2>1, <2>3, <2>4, <2>5
  <2> QED BY <2>2, <2>5, <2>6, <2>7 DEF NoRepeatInv
<1>9. ASSUME NEW k, NEW id, List!Update(id, k) \/ List!Insert(k) PROVE FALSE
  BY <1>9 DEF List!Update, List!Insert, List!Write
<1>10. CASE UNCHANGED listVars
  BY <1>1, <1>10 DEF listVars
<1> QED
  BY <1>1, <1>2, <1>3, <1>4, <1>5, <1>6, <1>7, <1>8, <1>9, <1>10 DEF List!Next

\* What the invariant says of an answer without a write during the request.
LEMMA AnswerExact ==
    ListTypeOK /\ ExactInv => List!PageExactWhenQuiet
<1> SUFFICES ASSUME ListTypeOK, ExactInv, List!Answered, quiet
             PROVE  \E o \in List!Orderings :
                       LET PageOf(i) == (i - 1) \div limit + 1 IN
                       /\ total = Len(o)
                       /\ List!ToSet(data)
                            = {o[i] : i \in {j \in DOMAIN o : PageOf(j) = page}}
                       /\ List!TotalPages(total)
                            = List!Cardinality({PageOf(i) : i \in DOMAIN o})
                       /\ List!HasNext <=> \E i \in DOMAIN o : PageOf(i) > page
  BY DEF List!PageExactWhenQuiet
<1> DEFINE n == Cardinality(DOMAIN key)
           PageOf(i) == (i - 1) \div limit + 1
           T == (n + limit - 1) \div limit
<1>1. PageRead /\ total >= 0
  BY DEF List!Answered, PageRead
<1>2. PICK o \in List!Orderings : data = List!Take(o)
  BY <1>1 DEF ExactInv
<1>3. total = n
  BY <1>1 DEF ExactInv
<1>4. n \in Nat /\ Len(o) = n /\ DOMAIN o = 1 .. n
  BY OrderingFacts DEF ListTypeOK
<1>5. limit \in Nat \ {0} /\ page \in Nat \ {0}
  BY DEF ListTypeOK
<1>6. List!ToSet(data)
        = {o[i] : i \in {j \in DOMAIN o : (page - 1) * limit < j /\ j <= page * limit}}
  BY <1>2, TakeIndices
<1>7. List!TotalPages(total) = T /\ (List!HasNext <=> page < T)
  BY <1>3 DEF List!HasNext, List!TotalPages
<1> HIDE DEF n
<1>8. /\ \A i \in 1 .. n : /\ PageOf(i) \in Nat \ {0}
                           /\ \A p \in Nat \ {0} : PageOf(i) = p
                                <=> (p - 1) * limit < i /\ i <= p * limit
      /\ T \in Nat
      /\ \A p \in Nat : p < T <=> p * limit < n
  BY <1>4, <1>5, PageNumbers
<1> HIDE DEF PageOf, T
<1>9. {j \in DOMAIN o : (page - 1) * limit < j /\ j <= page * limit}
        = {j \in DOMAIN o : PageOf(j) = page}
  BY <1>4, <1>5, <1>8
\* A row is on a page of 1 .. T, and each of them has its first row.
<1>10. ASSUME NEW i \in 1 .. n PROVE PageOf(i) \in 1 .. T
  <2>1. PICK q \in Nat : PageOf(i) = q + 1
    <3>1. PageOf(i) - 1 \in Nat /\ PageOf(i) = (PageOf(i) - 1) + 1
      BY <1>8
    <3> QED BY <3>1
  <2>2. q + 1 \in Nat \ {0} /\ (q + 1) - 1 = q
    BY <2>1
  <2>3. q * limit < i
    BY <1>8, <2>1, <2>2
  <2>4. q * limit < n
    BY <1>4, <1>5, <2>1, <2>3
  <2>5. q < T
    BY <1>8, <2>1, <2>4
  <2> QED BY <1>8, <2>1, <2>5
<1>11. ASSUME NEW p \in Nat, p < T PROVE \E i \in 1 .. n : PageOf(i) = p + 1
  <2>1. p * limit < n /\ p * limit \in Nat /\ (p + 1) * limit = p * limit + limit
    BY <1>5, <1>8, <1>11
  <2>2. p * limit + 1 \in 1 .. n /\ p + 1 \in Nat \ {0} /\ (p + 1) - 1 = p
    BY <1>4, <2>1
  <2>3. p * limit < p * limit + 1 /\ p * limit + 1 <= (p + 1) * limit
    BY <1>5, <2>1
  <2> QED BY <1>8, <2>2, <2>3
<1>12. {PageOf(i) : i \in DOMAIN o} = 1 .. T
  <2>1. ASSUME NEW p \in 1 .. T PROVE \E i \in DOMAIN o : PageOf(i) = p
    <3>1. p - 1 \in Nat /\ p - 1 < T /\ (p - 1) + 1 = p
      BY <1>8
    <3> QED BY <1>4, <1>11, <3>1
  <2>2. \A i \in DOMAIN o : PageOf(i) \in 1 .. T
    BY <1>4, <1>10
  <2> QED BY <2>1, <2>2
<1>13. List!Cardinality({PageOf(i) : i \in DOMAIN o}) = T
  <2>1. 1 \in Int /\ T \in Int
    BY <1>8
  <2>2. Cardinality(1 .. T) = IF 1 > T THEN 0 ELSE T - 1 + 1
    BY <2>1, FS_Interval
  <2>3. Cardinality(1 .. T) = T
    BY <1>8, <2>2
  <2> QED BY <1>12, <2>3, SameCardinality
<1>14. page < T <=> \E i \in DOMAIN o : PageOf(i) > page
  <2>1. ASSUME page < T PROVE \E i \in DOMAIN o : PageOf(i) > page
    <3>1. PICK i \in 1 .. n : PageOf(i) = page + 1
      BY <1>5, <1>11, <2>1
    <3> QED BY <1>4, <1>5, <3>1
  <2>2. ASSUME NEW i \in DOMAIN o, PageOf(i) > page PROVE page < T
    <3>1. PageOf(i) \in 1 .. T
      BY <1>4, <1>10
    <3> QED BY <1>5, <1>8, <2>2, <3>1
  <2> QED BY <2>1, <2>2
<1>15. /\ total = Len(o)
       /\ List!ToSet(data) = {o[i] : i \in {j \in DOMAIN o : PageOf(j) = page}}
       /\ List!TotalPages(total) = List!Cardinality({PageOf(i) : i \in DOMAIN o})
       /\ List!HasNext <=> \E i \in DOMAIN o : PageOf(i) > page
  <2>1. total = Len(o)
    BY <1>3, <1>4
  <2>2. List!ToSet(data) = {o[i] : i \in {j \in DOMAIN o : PageOf(j) = page}}
    BY <1>6, <1>9
  <2> QED BY <2>1, <2>2, <1>7, <1>13, <1>14
<1> QED BY <1>15 DEF PageOf

LEMMA ListInvariance == BothSpec => []ListInv
<1>1. BothInit => ListInv
  BY ListInitInv DEF BothInit
<1>2. ListInv /\ [BothNext]_<<vars, listVars>> => ListInv'
  <2>1. [BothNext]_<<vars, listVars>> => [List!Next]_listVars
    BY DEF BothNext
  <2> QED BY <2>1, ListNextType, ExactStep, CompleteStep, NoRepeatStep DEF ListInv
<1> QED BY <1>1, <1>2, PTL DEF BothSpec

\* An answer of GET /admin/users is exact if nobody writes during the request,
\* for every number of rows, page size and page.
THEOREM PagesAlwaysExact == BothSpec => []PageExactWhenQuiet
<1>1. ListInv => PageExactWhenQuiet
  BY AnswerExact DEF ListInv, PageExactWhenQuiet
<1> QED BY <1>1, ListInvariance, PTL

\* A client that follows hasNext misses no row that was there all the time,
\* whatever was inserted meanwhile.
THEOREM WalksAlwaysComplete == BothSpec => []WalkComplete
<1>1. ListInv => WalkComplete
  BY DEF ListInv, ListTypeOK, CompleteInv, WalkComplete, List!WalkComplete
<1> QED BY <1>1, ListInvariance, PTL

\* It sees no row twice, whatever is deleted meanwhile.
THEOREM WalksNeverRepeat == BothSpec => []WalkNoRepeat
<1>1. ListInv => WalkNoRepeat
  BY DEF ListInv, ListTypeOK, NoRepeatInv, WalkNoRepeat, List!WalkNoRepeat
<1> QED BY <1>1, ListInvariance, PTL

=============================================================================
