------------------------- MODULE SecondFactor_proofs -------------------------
(***************************************************************************)
(* The invariants of Totp, for any numbers of requests, secrets and        *)
(* attempts and any lifetimes; and those of Otp, with the proof that it    *)
(* implements SingleUseCode.                                               *)
(***************************************************************************)
EXTENDS SecondFactor, Counting, TLAPS

(* What a request knows at each await.  While it waits for the row it has  *)
(* seen every instant at which its code was good; once a code was found    *)
(* valid it was good at such an instant; what it will write is below the   *)
(* limit; and a confirmation holds a secret that was shown, or was         *)
(* overtaken.                                                              *)
RequestOK(q) ==
    /\ q.pc = "row" /\ enabled /\ q.code = secret => q.sawCurrent
    /\ q.pc \in {"attempts", "write"} /\ q.isValid => q.sawCurrent
    /\ q.pc = "accepted" => q.sawCurrent
    /\ q.pc = "write" => q.attempts < MaxAttempts
    /\ q.pc = "enable" => secret # None /\ (confirmed \/ overtaken)

RequestsOK == \A r \in Requests : RequestOK(request[r])

TotpInv == TypeOK /\ ConfirmedUnlessOvertaken /\ RequestsOK

----------------------------------------------------------------------------

\* The fields of a request after each kind of change.
LEMMA Records ==
    /\ Idle \in Request /\ Idle.pc = "idle"
    /\ \A q \in Request, l \in Labels :
          /\ [q EXCEPT !.pc = l] \in Request
          /\ [q EXCEPT !.pc = l].pc = l
          /\ [q EXCEPT !.pc = l].sawCurrent = q.sawCurrent
  BY TotpAssumption DEF Request, Idle, Labels, Kinds

\* A step of one request that leaves the row and its history alone.
LEMMA RequestStep ==
    ASSUME TotpInv, NEW r \in Requests, NEW q \in Request, RequestOK(q),
           request' = [request EXCEPT ![r] = q],
           UNCHANGED <<secret, enabled, confirmed, overtaken>>
    PROVE  request' \in [Requests -> Request] /\ RequestsOK'
<1>1. request' \in [Requests -> Request]
  BY DEF TotpInv, TypeOK
<1>2. ASSUME NEW s \in Requests PROVE RequestOK(request[s])'
  <2>1. CASE s = r
    BY <2>1 DEF TotpInv, TypeOK, RequestOK
  <2>2. CASE s # r
    BY <2>2 DEF TotpInv, TypeOK, RequestsOK, RequestOK
  <2> QED BY <2>1, <2>2
<1> QED BY <1>1, <1>2 DEF RequestsOK

\* The same, with the counter alone too.
LEMMA QuietStep ==
    ASSUME TotpInv, NEW r \in Requests, NEW q \in Request, RequestOK(q),
           request' = [request EXCEPT ![r] = q],
           UNCHANGED <<row, counter, challengeLeft, history>>
    PROVE  TotpInv'
  BY RequestStep
  DEF TotpInv, TypeOK, ConfirmedUnlessOvertaken, row, counter, history

\* What a request keeps when the row changes.
Keeps(p, q) ==
    /\ p.pc = q.pc /\ p.code = q.code
    /\ p.isValid = q.isValid /\ p.attempts = q.attempts
    /\ q.sawCurrent => p.sawCurrent

\* What the requests see of a change of the row: their types stay, and what
\* they have read; those that wait with the right code remember it.
LEMMA WitnessOK ==
    ASSUME TypeOK, NEW s, NEW e, NEW r \in Requests
    PROVE  /\ Witness(s, e) \in [Requests -> Request]
           /\ Keeps(Witness(s, e)[r], request[r])
           /\ request[r].pc = "row" /\ e /\ request[r].code = s
                 => Witness(s, e)[r].sawCurrent
<1>1. \A t \in Requests : request[t] \in Request
  BY DEF TypeOK
<1>2. \A q \in Request :
        LET p == [q EXCEPT !.sawCurrent = TRUE] IN
        p \in Request /\ p.sawCurrent /\ Keeps(p, q)
  BY DEF Request, Keeps
<1>3. Witness(s, e) \in [Requests -> Request]
  BY <1>1, <1>2 DEF Witness
<1>4. CASE request[r].pc = "row" /\ e /\ request[r].code = s
  <2>1. Witness(s, e)[r] = [request[r] EXCEPT !.sawCurrent = TRUE]
    BY <1>4 DEF Witness
  <2> QED BY <1>1, <1>2, <1>3, <2>1
<1>5. CASE ~(request[r].pc = "row" /\ e /\ request[r].code = s)
  BY <1>3, <1>5 DEF Witness, Keeps
<1> QED BY <1>4, <1>5

----------------------------------------------------------------------------
(* The invariant.                                                          *)

\* Totp starts in it.
LEMMA InitInv == Init => TotpInv
<1> SUFFICES ASSUME Init PROVE TotpInv
  OBVIOUS
<1>1. request \in [Requests -> Request]
  BY Records DEF Init
<1>2. TypeOK
  <2>1. /\ attempts \in 0 .. MaxAttempts /\ attemptsLeft \in 0 .. AttemptsTtl
        /\ attempts > 0 <=> attemptsLeft > 0
        /\ challengeLeft \in 0 .. ChallengeTtl /\ streak \in Nat
    BY TotpAssumption DEF Init
  <2>2. /\ secret \in Secrets \cup {None} /\ enabled \in BOOLEAN
        /\ enabled => secret # None
        /\ confirmed \in BOOLEAN /\ overtaken \in BOOLEAN
    BY DEF Init
  <2> QED BY <1>1, <2>1, <2>2 DEF TypeOK
<1>3. RequestsOK
  BY Records DEF Init, RequestsOK, RequestOK
<1> QED BY <1>2, <1>3 DEF Init, TotpInv, ConfirmedUnlessOvertaken

\* Drawing a secret keeps it: the new one is off, and confirmations that are
\* between their read and their write are marked as overtaken.
LEMMA GenerateInv == TotpInv /\ GenerateSecret => TotpInv'
<1> SUFFICES ASSUME TotpInv, NEW s \in Secrets, Upsert(s, FALSE) PROVE TotpInv'
  BY DEF GenerateSecret
<1>1. /\ secret' = s /\ enabled' = FALSE /\ s # None
      /\ request' = Witness(s, FALSE)
      /\ confirmed' = FALSE /\ overtaken' = Confirming
      /\ UNCHANGED <<attempts, attemptsLeft, challengeLeft, streak>>
  BY TotpAssumption DEF Upsert, counter
<1>0. TypeOK
  BY DEF TotpInv
<1>2. request' \in [Requests -> Request]
  <2>1. PICK t : t = Witness(s, FALSE)
    OBVIOUS
  <2>2. ASSUME NEW r \in Requests PROVE t \in [Requests -> Request]
    BY <1>0, <2>1, WitnessOK, Zenon
  <2>3. ASSUME Requests = {} PROVE t \in [Requests -> Request]
    BY <2>1, <2>3 DEF Witness
  <2> QED BY <1>1, <2>1, <2>2, <2>3
<1>3. ASSUME NEW r \in Requests PROVE RequestOK(request[r])'
  <2>0. PICK p : p = Witness(s, FALSE)[r]
    OBVIOUS
  <2>1. Keeps(p, request[r])
    BY <1>0, <2>0, WitnessOK, Zenon
  <2>3. request'[r] = p
    BY <1>1, <2>0
  <2>2. request[r].pc = "enable" => Confirming
    BY DEF Confirming
  <2> QED BY <1>1, <2>1, <2>2, <2>3 DEF TotpInv, RequestsOK, RequestOK, Keeps
<1> QED
  BY <1>1, <1>2, <1>3
  DEF TotpInv, TypeOK, ConfirmedUnlessOvertaken, RequestsOK, Confirming

\* Disabling keeps it.
LEMMA DisableInv == TotpInv /\ Disable => TotpInv'
<1> SUFFICES ASSUME TotpInv, Disable PROVE TotpInv'
  OBVIOUS
<1>1. /\ enabled' = FALSE /\ secret' = secret /\ request' = request
      /\ confirmed' = confirmed /\ overtaken' = overtaken /\ streak' = streak
      /\ UNCHANGED <<attempts, attemptsLeft, challengeLeft>>
  BY DEF Disable, counter, history
<1>2. ASSUME NEW r \in Requests PROVE RequestOK(request[r])'
  BY <1>1 DEF TotpInv, RequestsOK, RequestOK
<1> QED
  BY <1>1, <1>2 DEF TotpInv, TypeOK, ConfirmedUnlessOvertaken, RequestsOK

\* A confirmation that found the right code keeps it.
LEMMA ReadForConfirmInv ==
    ASSUME TotpInv, NEW r \in Requests, NEW code, ReadForConfirm(r, code)
    PROVE  TotpInv'
<1> DEFINE q == [Idle EXCEPT !.pc = "enable", !.kind = "confirm"]
<1>1. /\ request' = [request EXCEPT ![r] = q]
      /\ secret' = secret /\ enabled' = enabled /\ confirmed' = TRUE
      /\ overtaken' = overtaken /\ streak' = streak /\ secret # None
      /\ UNCHANGED <<attempts, attemptsLeft, challengeLeft>>
  BY DEF ReadForConfirm, row, counter
<1>2. q \in Request /\ q.pc = "enable"
  BY Records DEF Request, Labels, Kinds
<1> HIDE DEF q
<1>3. request' \in [Requests -> Request]
  BY <1>1, <1>2 DEF TotpInv, TypeOK
<1>4. ASSUME NEW s \in Requests PROVE RequestOK(request[s])'
  <2>1. CASE s = r
    BY <1>1, <1>2, <2>1 DEF TotpInv, TypeOK, RequestOK
  <2>2. CASE s # r
    BY <1>1, <2>2 DEF TotpInv, TypeOK, RequestsOK, RequestOK
  <2> QED BY <2>1, <2>2
<1> QED
  BY <1>1, <1>3, <1>4
  DEF TotpInv, TypeOK, ConfirmedUnlessOvertaken, RequestsOK

\* Turning the secret on keeps it: it was shown, or overtook the one that
\* was, and requests that wait with a code of it are told.
LEMMA EnableInv ==
    ASSUME TotpInv, NEW r \in Requests, EnableMfa(r)
    PROVE  TotpInv'
<1>1. /\ request' = [Witness(secret, TRUE) EXCEPT ![r] = Idle]
      /\ secret' = secret /\ enabled' = TRUE /\ confirmed' = confirmed
      /\ overtaken' = overtaken /\ streak' = streak
      /\ UNCHANGED <<attempts, attemptsLeft, challengeLeft>>
      /\ request[r].pc = "enable"
  BY DEF EnableMfa, counter, history
<1>2. secret # None /\ (confirmed \/ overtaken)
  BY <1>1 DEF TotpInv, RequestsOK, RequestOK
<1>0. TypeOK
  BY DEF TotpInv
<1>3. Witness(secret, TRUE) \in [Requests -> Request]
  BY <1>0, WitnessOK, Zenon
<1>4. request' \in [Requests -> Request]
  BY <1>1, <1>3, Records
<1>5. ASSUME NEW s \in Requests PROVE RequestOK(request[s])'
  <2>1. CASE s = r
    <3>1. request'[s] = Idle
      BY <1>1, <1>3, <2>1
    <3> QED BY <3>1, Records DEF RequestOK
  <2>2. CASE s # r
    <3>0. PICK p : p = Witness(secret, TRUE)[s]
      OBVIOUS
    <3>1. request'[s] = p
      BY <1>1, <1>3, <2>2, <3>0
    <3>2. /\ Keeps(p, request[s])
          /\ request[s].pc = "row" /\ request[s].code = secret => p.sawCurrent
      BY <1>0, <3>0, WitnessOK, Zenon
    <3> QED BY <1>1, <1>2, <3>1, <3>2 DEF TotpInv, RequestsOK, RequestOK, Keeps
  <2> QED BY <2>1, <2>2
<1> QED
  BY <1>1, <1>2, <1>4, <1>5
  DEF TotpInv, TypeOK, ConfirmedUnlessOvertaken, RequestsOK

\* A request on its way to verifyCode has seen the instant it comes at.
LEMMA BeginInv ==
    ASSUME TotpInv, NEW r \in Requests, NEW kind \in Kinds,
           NEW code \in Secrets \cup {None}, Begin(r, kind, code)
    PROVE  TotpInv'
<1>0. PICK b \in BOOLEAN : b = (enabled /\ code = secret)
  OBVIOUS
<1> DEFINE q == [Idle EXCEPT !.pc = "row", !.kind = kind, !.code = code,
                             !.sawCurrent = b]
<1>1. request' = [request EXCEPT ![r] = q]
  BY <1>0 DEF Begin
<1>2. q \in Request
  BY Records DEF Request, Labels
<1>4. q.pc = "row" /\ q.code = code /\ q.sawCurrent = b
  BY DEF Idle
<1>3. RequestOK(q)
  BY <1>0, <1>4 DEF RequestOK
<1> HIDE DEF q
<1> QED BY <1>1, <1>2, <1>3, QuietStep DEF Begin

\* Checking the code against an enabled secret: a valid one was seen.
LEMMA ReadSecretInv ==
    ASSUME TotpInv, NEW r \in Requests, ReadSecret(r)
    PROVE  TotpInv'
<1> DEFINE q == [request[r] EXCEPT !.pc = "attempts", !.code = None,
                                   !.isValid = request[r].code = secret]
<1>1. /\ request' = [request EXCEPT ![r] = q]
      /\ request[r].pc = "row" /\ enabled
  BY DEF ReadSecret, Compare
<1>2. request[r] \in Request
  BY DEF TotpInv, TypeOK
<1>3. q \in Request /\ q.pc = "attempts"
  BY <1>2 DEF Request, Labels
<1>4. /\ q.isValid => request[r].code = secret
      /\ q.sawCurrent = request[r].sawCurrent
  BY <1>2 DEF Request
<1>5. request[r].code = secret => request[r].sawCurrent
  BY <1>1 DEF TotpInv, RequestsOK, RequestOK
<1> HIDE DEF q
<1>6. RequestOK(q)
  BY <1>3, <1>4, <1>5 DEF RequestOK
<1> QED BY <1>1, <1>3, <1>6, QuietStep DEF ReadSecret, Compare

\* The number that was read is below the limit, so what is written is within.
LEMMA GetAttemptsInv ==
    ASSUME TotpInv, NEW r \in Requests, GetAttempts(r)
    PROVE  TotpInv'
<1> DEFINE q == [request[r] EXCEPT !.pc = "write", !.attempts = attempts]
<1>1. /\ request' = [request EXCEPT ![r] = q]
      /\ request[r].pc = "attempts" /\ attempts < MaxAttempts
  BY DEF GetAttempts, ReadAttempts
<1>2. request[r] \in Request
  BY DEF TotpInv, TypeOK
<1>3. q \in Request /\ q.pc = "write" /\ q.attempts = attempts
  BY <1>2 DEF Request, Labels, TotpInv, TypeOK
<1>4. q.isValid = request[r].isValid /\ q.sawCurrent = request[r].sawCurrent
  BY <1>2 DEF Request
<1>5. request[r].isValid => request[r].sawCurrent
  BY <1>1 DEF TotpInv, RequestsOK, RequestOK
<1> HIDE DEF q
<1>6. RequestOK(q)
  BY <1>1, <1>3, <1>4, <1>5 DEF RequestOK
<1> QED BY <1>1, <1>3, <1>6, QuietStep DEF GetAttempts, ReadAttempts

\* A valid code deletes the counter.
LEMMA AcceptInv ==
    ASSUME TotpInv, NEW r \in Requests, Accept(r)
    PROVE  TotpInv'
<1> DEFINE q == [request[r] EXCEPT !.pc = "accepted"]
<1>1. /\ request' = [request EXCEPT ![r] = q]
      /\ request[r].pc = "write" /\ request[r].isValid
      /\ attempts' = 0 /\ attemptsLeft' = 0 /\ streak' = 0
      /\ UNCHANGED <<secret, enabled, challengeLeft, confirmed, overtaken>>
  BY DEF Accept, GoTo, row
<1>2. request[r] \in Request
  BY DEF TotpInv, TypeOK
<1>3. q \in Request /\ q.pc = "accepted" /\ q.sawCurrent = request[r].sawCurrent
  BY <1>2, Records DEF Labels
<1> HIDE DEF q
<1>4. RequestOK(q)
  BY <1>1, <1>3 DEF TotpInv, RequestsOK, RequestOK
<1>5. request' \in [Requests -> Request] /\ RequestsOK'
  BY <1>1, <1>3, <1>4, RequestStep
<1> QED
  BY <1>1, <1>5, TotpAssumption DEF TotpInv, TypeOK, ConfirmedUnlessOvertaken

\* An invalid one writes one more than was read.
LEMMA CountFailureInv ==
    ASSUME TotpInv, NEW r \in Requests, CountFailure(r)
    PROVE  TotpInv'
<1>1. /\ request' = [request EXCEPT ![r] = Idle]
      /\ request[r].pc = "write"
      /\ attempts' = request[r].attempts + 1 /\ attemptsLeft' = AttemptsTtl
      /\ streak' = streak + 1
      /\ UNCHANGED <<secret, enabled, challengeLeft, confirmed, overtaken>>
  BY DEF CountFailure, Finish, row
<1>2. request' \in [Requests -> Request] /\ RequestsOK'
  BY <1>1, Records, RequestStep DEF RequestOK
<1>3. request[r].attempts \in 0 .. MaxAttempts - 1
  <2>1. request[r].attempts \in 0 .. MaxAttempts
    BY DEF TotpInv, TypeOK, Request
  <2>2. request[r].attempts < MaxAttempts
    BY <1>1 DEF TotpInv, RequestsOK, RequestOK
  <2> QED BY <2>1, <2>2, TotpAssumption
<1> QED
  BY <1>1, <1>2, <1>3, TotpAssumption
  DEF TotpInv, TypeOK, ConfirmedUnlessOvertaken

\* Time passes.
LEMMA TickInv == TotpInv /\ Tick => TotpInv'
<1> SUFFICES ASSUME TotpInv, Tick PROVE TotpInv'
  OBVIOUS
<1>1. UNCHANGED <<secret, enabled, request, confirmed, overtaken>>
  BY DEF Tick, row
<1>2. RequestsOK'
  BY <1>1 DEF TotpInv, RequestsOK, RequestOK
<1>3. /\ attempts' \in 0 .. MaxAttempts /\ attemptsLeft' \in 0 .. AttemptsTtl
      /\ attempts' > 0 <=> attemptsLeft' > 0
      /\ challengeLeft' \in 0 .. ChallengeTtl
      /\ streak' \in Nat
  BY TotpAssumption DEF Tick, TotpInv, TypeOK
<1> QED BY <1>1, <1>2, <1>3 DEF TotpInv, TypeOK, ConfirmedUnlessOvertaken

\* Every step keeps the invariant.
LEMMA NextInv == TotpInv /\ [Next]_vars => TotpInv'
<1> SUFFICES ASSUME TotpInv, [Next]_vars PROVE TotpInv'
  OBVIOUS
<1>1. CASE UNCHANGED vars
  BY <1>1
  DEF vars, row, counter, history, TotpInv, TypeOK, ConfirmedUnlessOvertaken,
      RequestsOK, RequestOK
<1>2. CASE DisableNothing
  BY <1>1, <1>2 DEF DisableNothing
<1>3. CASE Challenge
  <2>1. /\ UNCHANGED <<secret, enabled, attempts, attemptsLeft, request,
                       confirmed, overtaken, streak>>
        /\ challengeLeft' = ChallengeTtl
    BY <1>3 DEF Challenge, row, counter, history
  <2>2. RequestsOK'
    BY <2>1 DEF TotpInv, RequestsOK, RequestOK
  <2> QED
    BY <2>1, <2>2, TotpAssumption DEF TotpInv, TypeOK, ConfirmedUnlessOvertaken
<1>4. ASSUME NEW r \in Requests, Arrive(r) PROVE TotpInv'
  <2>1. CASE ChallengeExpired(r)
    BY <1>1, <2>1 DEF ChallengeExpired
  <2>2. ASSUME NEW code \in Secrets \cup {None}, ReadForConfirm(r, code)
        PROVE  TotpInv'
    BY <2>2, ReadForConfirmInv
  <2>3. ASSUME NEW code \in Secrets \cup {None}, ConfirmRefused(r, code)
        PROVE  TotpInv'
    BY <1>1, <2>3 DEF ConfirmRefused
  <2>4. ASSUME NEW code \in Secrets \cup {None},
               BeginCheck(r, code) \/ BeginLogin(r, code)
        PROVE  TotpInv'
    BY <2>4, BeginInv DEF BeginCheck, BeginLogin, Kinds
  <2> QED BY <1>4, <2>1, <2>2, <2>3, <2>4 DEF Arrive
<1>5. ASSUME NEW r \in Requests,
             NotEnabled(r) \/ Answer(r) \/ Fault(r) \/ TooManyAttempts(r)
      PROVE  TotpInv'
  <2>1. /\ request' = [request EXCEPT ![r] = Idle]
        /\ UNCHANGED <<row, counter, challengeLeft, history>>
    BY <1>5 DEF NotEnabled, Answer, Fault, TooManyAttempts, Refuse, Finish
  <2> QED BY <2>1, Records, QuietStep DEF RequestOK
<1>6. ASSUME NEW r \in Requests, Step(r) PROVE TotpInv'
  BY <1>5, <1>6, EnableInv, ReadSecretInv, GetAttemptsInv, AcceptInv,
     CountFailureInv DEF Step
<1> QED
  BY <1>1, <1>2, <1>3, <1>4, <1>5, <1>6, GenerateInv, DisableInv, TickInv DEF Next

\* The invariant holds for ever.
LEMMA AlwaysInv == Spec => []TotpInv
  BY InitInv, NextInv, PTL DEF Spec

----------------------------------------------------------------------------

\* For any numbers, every variable has its type: an absent counter has no
\* time left, and no value above the limit is ever written, although the
\* counter is read and set back in two calls.
THEOREM TypeCorrect == Spec => []TypeOK
  BY AlwaysInv, PTL DEF TotpInv

\* Whatever is drawn, confirmed and disabled meanwhile, a secret that is on
\* was confirmed, or was drawn while a confirmation was going on.
THEOREM OnIsConfirmed == Spec => []ConfirmedUnlessOvertaken
  BY AlwaysInv, PTL DEF TotpInv

\* A code is accepted only if it was a code of the user's enabled secret at
\* some instant of the request, however the calls of requests interleave.
THEOREM AcceptedIsJustified == Spec => []FactorJustified
<1>1. TotpInv => FactorJustified
  BY DEF TotpInv, RequestsOK, RequestOK, FactorJustified
<1> QED BY <1>1, AlwaysInv, PTL

----------------------------------------------------------------------------
(* How many failures can be written in a row: Counting.                    *)

\* The requests that have read the counter, what they read, and how many
\* failures the state shows to have been written at most.
Waiting == {r \in Requests : request[r].pc = "write"}
Reads == [r \in Requests |-> request[r].attempts]
Guesses == Spent(Worth(Requests, Waiting, Reads, attempts), Requests, MaxAttempts)

StreakInv == streak <= Guesses

\* Reads are numbers.
LEMMA ReadsType == TypeOK => Reads \in [Requests -> Nat] /\ Guesses \in Nat
<1> SUFFICES ASSUME TypeOK PROVE Reads \in [Requests -> Nat] /\ Guesses \in Nat
  OBVIOUS
<1>1. Reads \in [Requests -> Nat]
  BY DEF TypeOK, Reads, Request
<1>2. attempts \in Nat /\ MaxAttempts \in Nat /\ IsFiniteSet(Requests)
  BY TotpAssumption DEF TypeOK
<1>3. Worth(Requests, Waiting, Reads, attempts) \in [Requests -> Nat]
  BY <1>1, <1>2, WorthType
<1> QED BY <1>1, <1>2, <1>3, SpentBound DEF Guesses

\* And so they are in the next state.
LEMMA ReadsTypeNext == TypeOK' => Reads' \in [Requests -> Nat] /\ Guesses' \in Nat
<1> SUFFICES ASSUME TypeOK' PROVE Reads' \in [Requests -> Nat] /\ Guesses' \in Nat
  OBVIOUS
<1>1. Reads' \in [Requests -> Nat]
  BY DEF TypeOK, Reads, Request
<1>2. attempts' \in Nat /\ MaxAttempts \in Nat /\ IsFiniteSet(Requests)
  BY TotpAssumption DEF TypeOK
<1>3. Worth(Requests, Waiting', Reads', attempts') \in [Requests -> Nat]
  BY <1>1, <1>2, WorthType
<1> QED BY <1>1, <1>2, <1>3, SpentBound DEF Guesses

\* A step that leaves the counter alone, and lets requests only read it.
LEMMA GuessesStay ==
    ASSUME TotpInv, TotpInv', StreakInv, UNCHANGED <<attempts, streak>>,
           \A r \in Requests : request'[r].pc = "write" =>
              \/ request'[r].attempts = attempts
              \/ request[r].pc = "write" /\ request'[r].attempts = request[r].attempts
    PROVE  StreakInv'
<1>1. /\ Reads \in [Requests -> Nat] /\ Reads' \in [Requests -> Nat]
      /\ Guesses \in Nat /\ Guesses' \in Nat
  BY ReadsType, ReadsTypeNext DEF TotpInv
<1>2. attempts \in Nat /\ MaxAttempts \in Nat /\ IsFiniteSet(Requests)
  BY TotpAssumption DEF TotpInv, TypeOK
<1>3. \A r \in Requests : r \in Waiting' =>
         Reads'[r] = attempts \/ (r \in Waiting /\ Reads'[r] = Reads[r])
  BY DEF Waiting, Reads
<1>4. Spent(Worth(Requests, Waiting, Reads, attempts), Requests, MaxAttempts)
        <= Spent(Worth(Requests, Waiting', Reads', attempts), Requests, MaxAttempts)
  BY <1>1, <1>2, <1>3, ReadSpendsNothing
<1>5. Guesses <= Guesses'
  BY <1>4 DEF Guesses
<1>6. streak \in Nat
  BY DEF TotpInv, TypeOK
<1> QED BY <1>1, <1>5, <1>6 DEF StreakInv

\* A failure is one of those that the profile allows.
LEMMA FailureSpends ==
    ASSUME TotpInv, TotpInv', StreakInv, NEW r \in Requests, CountFailure(r)
    PROVE  StreakInv'
<1>1. /\ Reads \in [Requests -> Nat] /\ Reads' \in [Requests -> Nat]
      /\ Guesses \in Nat /\ Guesses' \in Nat
  BY ReadsType, ReadsTypeNext DEF TotpInv
<1>2. attempts \in Nat /\ MaxAttempts \in Nat /\ IsFiniteSet(Requests)
  BY TotpAssumption DEF TotpInv, TypeOK
<1>3. /\ request[r].pc = "write" /\ request' = [request EXCEPT ![r] = Idle]
      /\ attempts' = request[r].attempts + 1 /\ streak' = streak + 1
  BY DEF CountFailure, Finish
<1>4. /\ r \in Waiting /\ r \notin Waiting' /\ Reads[r] < MaxAttempts
      /\ attempts' = Reads[r] + 1
  BY <1>3 DEF TotpInv, TypeOK, RequestsOK, RequestOK, Waiting, Reads, Idle
<1>5. \A s \in Requests : s \in Waiting' => s \in Waiting /\ Reads'[s] = Reads[s]
  BY <1>3 DEF TotpInv, TypeOK, Waiting, Reads, Idle
<1>6. Spent(Worth(Requests, Waiting, Reads, attempts), Requests, MaxAttempts) + 1
        <= Spent(Worth(Requests, Waiting', Reads', Reads[r] + 1), Requests, MaxAttempts)
  BY <1>1, <1>2, <1>4, <1>5, WriteSpendsOne
<1>7. Guesses + 1 <= Guesses'
  BY <1>4, <1>6 DEF Guesses
<1>8. streak \in Nat
  BY DEF TotpInv, TypeOK
<1> QED BY <1>1, <1>3, <1>7, <1>8 DEF StreakInv

\* A new streak.
LEMMA StreakAnew == TotpInv' /\ streak' = 0 => StreakInv'
<1> SUFFICES ASSUME TotpInv', streak' = 0 PROVE StreakInv'
  OBVIOUS
<1>1. Guesses' \in Nat
  BY ReadsType, ReadsTypeNext DEF TotpInv
<1> QED BY <1>1 DEF StreakInv

\* Every step keeps the bound.
LEMMA StreakNext == TotpInv /\ StreakInv /\ [Next]_vars => StreakInv'
<1> SUFFICES ASSUME TotpInv, StreakInv, [Next]_vars PROVE StreakInv'
  OBVIOUS
<1>0. TotpInv'
  BY NextInv
<1> DEFINE Quiet(q, r) == q.pc = "write" => \/ q.attempts = attempts
                                            \/ /\ request[r].pc = "write"
                                               /\ q.attempts = request[r].attempts
<1>1. ASSUME UNCHANGED <<attempts, streak>>, \A r \in Requests : Quiet(request'[r], r)
      PROVE  StreakInv'
  BY <1>0, <1>1, GuessesStay
<1>2. ASSUME NEW r \in Requests, NEW q, UNCHANGED <<attempts, streak>>,
             request' = [request EXCEPT ![r] = q], Quiet(q, r)
      PROVE  StreakInv'
  <2>1. \A s \in Requests : Quiet(request'[s], s)
    BY <1>2 DEF TotpInv, TypeOK
  <2> QED BY <1>1, <1>2, <2>1
<1>3. CASE UNCHANGED <<attempts, streak, request>>
  BY <1>1, <1>3
<1>4. ASSUME NEW s, NEW e, request' = Witness(s, e), UNCHANGED <<attempts, streak>>
      PROVE  StreakInv'
  <2>1. \A r \in Requests : request'[r].pc = request[r].pc
                            /\ request'[r].attempts = request[r].attempts
    BY <1>4 DEF Witness, TotpInv, TypeOK, Request
  <2> QED BY <1>1, <1>4, <2>1
<1>5. CASE GenerateSecret
  <2>1. PICK s \in Secrets : Upsert(s, FALSE)
    BY <1>5 DEF GenerateSecret
  <2> QED BY <1>4, <2>1 DEF Upsert, counter
<1>6. CASE Disable \/ DisableNothing \/ Challenge \/ UNCHANGED vars
  BY <1>3, <1>6 DEF Disable, DisableNothing, Challenge, vars, row, counter, history
<1>7. CASE Tick
  <2>1. CASE attemptsLeft > 1
    BY <1>3, <1>7, <2>1 DEF Tick
  <2>2. CASE ~ (attemptsLeft > 1)
    BY <1>0, <1>7, <2>2, StreakAnew DEF Tick
  <2> QED BY <2>1, <2>2
<1>8. ASSUME NEW r \in Requests, Arrive(r) PROVE StreakInv'
  <2>1. CASE ChallengeExpired(r)
    BY <1>6, <2>1 DEF ChallengeExpired
  <2>2. ASSUME NEW code, ReadForConfirm(r, code) PROVE StreakInv'
    <3> DEFINE q == [Idle EXCEPT !.pc = "enable", !.kind = "confirm"]
    <3>1. request' = [request EXCEPT ![r] = q] /\ UNCHANGED <<attempts, streak>>
      BY <2>2 DEF ReadForConfirm, counter
    <3>2. q.pc = "enable"
      BY DEF Idle
    <3> HIDE DEF q
    <3> QED BY <1>2, <3>1, <3>2
  <2>3. ASSUME NEW code, ConfirmRefused(r, code) PROVE StreakInv'
    BY <1>6, <2>3 DEF ConfirmRefused
  <2>4. ASSUME NEW code, NEW kind, Begin(r, kind, code) PROVE StreakInv'
    <3> DEFINE q == [Idle EXCEPT !.pc = "row", !.kind = kind, !.code = code,
                       !.sawCurrent = enabled /\ code = secret]
    <3>1. request' = [request EXCEPT ![r] = q] /\ UNCHANGED <<attempts, streak>>
      BY <2>4 DEF Begin, counter, history
    <3>2. q.pc = "row"
      BY DEF Idle
    <3> HIDE DEF q
    <3> QED BY <1>2, <3>1, <3>2
  <2> QED BY <1>8, <2>1, <2>2, <2>3, <2>4 DEF Arrive, BeginCheck, BeginLogin
<1>9. ASSUME NEW r \in Requests,
             NotEnabled(r) \/ Answer(r) \/ Fault(r) \/ TooManyAttempts(r)
      PROVE  StreakInv'
  <2>1. request' = [request EXCEPT ![r] = Idle] /\ UNCHANGED <<attempts, streak>>
    BY <1>9 DEF NotEnabled, Answer, Fault, TooManyAttempts, Refuse, Finish, counter,
       history
  <2>2. Idle.pc = "idle"
    BY DEF Idle
  <2> QED BY <1>2, <2>1, <2>2
<1>10. ASSUME NEW r \in Requests, EnableMfa(r) PROVE StreakInv'
  <2>1. /\ request' = [Witness(secret, TRUE) EXCEPT ![r] = Idle]
        /\ UNCHANGED <<attempts, streak>>
    BY <1>10 DEF EnableMfa, counter, history
  <2>2. \A s \in Requests : Quiet(request'[s], s)
    BY <2>1 DEF Witness, TotpInv, TypeOK, Request, Idle
  <2> QED BY <1>1, <2>1, <2>2
<1>11. ASSUME NEW r \in Requests, ReadSecret(r) PROVE StreakInv'
  <2> DEFINE q == [request[r] EXCEPT !.pc = "attempts", !.code = None,
                                     !.isValid = request[r].code = secret]
  <2>1. UNCHANGED <<attempts, streak>>
    BY <1>11 DEF ReadSecret, Compare, counter, history
  <2>2. request' = [request EXCEPT ![r] = q]
    BY <1>11 DEF ReadSecret, Compare, TotpInv, TypeOK
  <2>3. q.pc = "attempts"
    BY DEF TotpInv, TypeOK, Request
  <2> HIDE DEF q
  <2> QED BY <1>2, <2>1, <2>2, <2>3
<1>12. ASSUME NEW r \in Requests, GetAttempts(r) PROVE StreakInv'
  <2> DEFINE q == [request[r] EXCEPT !.pc = "write", !.attempts = attempts]
  <2>1. UNCHANGED <<attempts, streak>>
    BY <1>12 DEF GetAttempts, ReadAttempts, counter, history
  <2>2. request' = [request EXCEPT ![r] = q]
    BY <1>12 DEF GetAttempts, ReadAttempts, TotpInv, TypeOK
  <2>3. q.attempts = attempts
    BY DEF TotpInv, TypeOK, Request
  <2> HIDE DEF q
  <2> QED BY <1>2, <2>1, <2>2, <2>3
<1>13. ASSUME NEW r \in Requests, Accept(r) PROVE StreakInv'
  BY <1>0, <1>13, StreakAnew DEF Accept
<1>14. ASSUME NEW r \in Requests, CountFailure(r) PROVE StreakInv'
  BY <1>0, <1>14, FailureSpends
<1> QED
  BY <1>5, <1>6, <1>7, <1>8, <1>9, <1>10, <1>11, <1>12, <1>13, <1>14
  DEF Next, Step

\* For any numbers, at most (MaxAttempts+k choose k) - 1 failures are written
\* in a row by k requests that overlap, whatever they read and when: until
\* the key runs out or a valid code comes, verifyCode then refuses all.
THEOREM GuessesAlwaysBounded == Spec => []GuessesBounded
<1>1. Init => StreakInv
  <2> SUFFICES ASSUME Init PROVE StreakInv
    OBVIOUS
  <2>1. Guesses \in Nat
    BY InitInv, ReadsType DEF TotpInv
  <2> QED BY <2>1 DEF Init, StreakInv
<1>2. TotpInv /\ StreakInv => GuessesBounded
  <2> SUFFICES ASSUME TotpInv, StreakInv PROVE GuessesBounded
    OBVIOUS
  <2> DEFINE k == Cardinality(Requests)
  <2>1. /\ Reads \in [Requests -> Nat] /\ attempts \in Nat /\ streak \in Nat
        /\ MaxAttempts \in Nat /\ IsFiniteSet(Requests)
    BY ReadsType, TotpAssumption DEF TotpInv, TypeOK
  <2>2. /\ Guesses \in Nat /\ choose(MaxAttempts + k, k) \in Nat
        /\ Guesses < choose(MaxAttempts + k, k)
    BY <2>1, WorthType, SpentBound DEF Guesses
  <2> HIDE DEF k
  <2>3. streak < choose(MaxAttempts + k, k)
    BY <2>1, <2>2 DEF StreakInv
  <2> QED BY <2>3 DEF GuessesBounded, k
<1> QED BY <1>1, <1>2, AlwaysInv, StreakNext, PTL DEF Spec

----------------------------------------------------------------------------
(* One-time codes.                                                         *)

\* What a request is let through with: the mapping of Otp to SingleUseCode.
Let(q) == IF q.pc = "del" THEN q.inputCode ELSE None

----------------------------------------------------------------------------

\* Otp starts in its types.
LEMMA CodeInit == Otp!Init => Otp!TypeOK
  BY DEF Otp!Init, Otp!TypeOK, Otp!Request, Otp!Idle, Otp!Labels

\* Every request keeps its types when one of them becomes a request that is
\* well typed and, if let through, has a code that was generated.
LEMMA CodeRequestStep ==
    ASSUME Otp!TypeOK, NEW r \in Requests, NEW q \in Otp!Request,
           otpRequest' = [otpRequest EXCEPT ![r] = q],
           otpIssued \subseteq otpIssued', q.pc = "del" => q.inputCode \in otpIssued'
    PROVE  /\ otpRequest' \in [Requests -> Otp!Request]
           /\ \A s \in Requests :
                 otpRequest'[s].pc = "del" => otpRequest'[s].inputCode \in otpIssued'
<1>1. otpRequest' \in [Requests -> Otp!Request]
  BY DEF Otp!TypeOK
<1>2. ASSUME NEW s \in Requests, otpRequest'[s].pc = "del"
      PROVE  otpRequest'[s].inputCode \in otpIssued'
  <2>1. CASE s = r
    BY <1>2, <2>1 DEF Otp!TypeOK
  <2>2. CASE s # r
    BY <1>2, <2>2 DEF Otp!TypeOK
  <2> QED BY <2>1, <2>2
<1> QED BY <1>1, <1>2

\* Labels and requests.
LEMMA CodeRecords ==
    /\ Otp!Idle \in Otp!Request /\ Otp!Idle.pc = "idle"
    /\ \A q \in Otp!Request, l \in Otp!Labels :
          /\ [q EXCEPT !.pc = l] \in Otp!Request
          /\ [q EXCEPT !.pc = l].pc = l
          /\ [q EXCEPT !.pc = l].inputCode = q.inputCode
    /\ \A c \in Codes \cup {None} :
          /\ [pc |-> "get", inputCode |-> c] \in Otp!Request
          /\ [pc |-> "get", inputCode |-> c].pc = "get"
  BY DEF Otp!Request, Otp!Idle, Otp!Labels

\* Every step keeps the types.
LEMMA CodeNext == Otp!TypeOK /\ [Otp!Next]_otpVars => Otp!TypeOK'
<1> SUFFICES ASSUME Otp!TypeOK, [Otp!Next]_otpVars PROVE Otp!TypeOK'
  OBVIOUS
<1>1. ASSUME NEW r \in Requests, Otp!GenerateCode(r) PROVE Otp!TypeOK'
  <2>1. PICK c \in Codes \ otpIssued : otpCode' = c /\ otpIssued' = otpIssued \cup {c}
    BY <1>1 DEF Otp!GenerateCode
  <2>2. otpRequest' = [otpRequest EXCEPT ![r] = [otpRequest[r] EXCEPT !.pc = "send"]]
    BY <1>1 DEF Otp!GenerateCode
  <2>3. /\ [otpRequest[r] EXCEPT !.pc = "send"] \in Otp!Request
        /\ [otpRequest[r] EXCEPT !.pc = "send"].pc = "send"
    BY CodeRecords DEF Otp!TypeOK, Otp!Labels
  <2> QED BY <2>1, <2>2, <2>3, CodeRequestStep, <1>1 DEF Otp!TypeOK, Otp!GenerateCode
<1>2. ASSUME NEW r \in Requests, Otp!Send(r) \/ Otp!WrongCode(r) \/ Otp!Fault(r)
      PROVE  Otp!TypeOK'
  <2>1. /\ otpRequest' = [otpRequest EXCEPT ![r] = Otp!Idle]
        /\ UNCHANGED <<otpCode, otpIssued, otpUsed>>
    BY <1>2 DEF Otp!Send, Otp!WrongCode, Otp!Fault, Otp!Finish
  <2> QED BY <2>1, CodeRecords, CodeRequestStep DEF Otp!TypeOK
<1>3. ASSUME NEW r \in Requests, NEW c \in Codes \cup {None}, Otp!Begin(r, c)
      PROVE  Otp!TypeOK'
  BY <1>3, CodeRecords, CodeRequestStep DEF Otp!TypeOK, Otp!Begin
<1>4. ASSUME NEW r \in Requests, Otp!RightCode(r) PROVE Otp!TypeOK'
  <2> DEFINE q == [otpRequest[r] EXCEPT !.pc = "del"]
  <2>1. /\ otpRequest' = [otpRequest EXCEPT ![r] = q]
        /\ UNCHANGED <<otpCode, otpIssued, otpUsed>>
    BY <1>4 DEF Otp!RightCode
  <2>2. otpRequest[r].inputCode \in otpIssued
    BY <1>4 DEF Otp!RightCode, Otp!Matches, Otp!TypeOK
  <2>3. q \in Otp!Request /\ q.inputCode = otpRequest[r].inputCode
    BY CodeRecords DEF Otp!TypeOK, Otp!Labels
  <2> HIDE DEF q
  <2> QED BY <2>1, <2>2, <2>3, CodeRequestStep DEF Otp!TypeOK
<1>5. ASSUME NEW r \in Requests, Otp!DeleteCode(r) PROVE Otp!TypeOK'
  <2>1. /\ otpRequest' = [otpRequest EXCEPT ![r] = Otp!Idle]
        /\ otpIssued' = otpIssued
        /\ otpUsed' = otpUsed \cup {otpRequest[r].inputCode}
        /\ otpCode' = None
        /\ otpRequest[r].pc = "del"
    BY <1>5 DEF Otp!DeleteCode, Otp!AnswerYes, Otp!Finish
  <2>2. otpRequest[r].inputCode \in otpIssued
    BY <2>1 DEF Otp!TypeOK
  <2> QED BY <2>1, <2>2, CodeRecords, CodeRequestStep DEF Otp!TypeOK
<1>6. CASE Otp!Expire
  BY <1>6 DEF Otp!Expire, Otp!TypeOK
<1>7. CASE UNCHANGED otpVars
  BY <1>7 DEF otpVars, Otp!TypeOK
<1> QED BY <1>1, <1>2, <1>3, <1>4, <1>5, <1>6, <1>7 DEF Otp!Next

\* A behaviour of both is a behaviour of Totp ...
LEMMA BothIsTotp == BothSpec => Spec
<1>1. BothInit => Init
  BY DEF BothInit
<1>2. [BothNext]_<<vars, otpVars>> => [Next]_vars
  BY DEF BothNext
<1> QED BY <1>1, <1>2, PTL DEF BothSpec, Spec

\* ... and of Otp, whose types therefore hold for ever.
LEMMA BothIsOtp ==
    /\ BothInit => Otp!Init
    /\ [BothNext]_<<vars, otpVars>> => [Otp!Next]_otpVars
  BY DEF BothInit, BothNext

\* For any requests and codes, every variable has its type, and a request is
\* let through only with a code that was generated.
THEOREM CodesAlwaysTyped == BothSpec => []CodeTypeOK
<1>1. BothInit => CodeTypeOK
  BY BothIsOtp, CodeInit DEF CodeTypeOK
<1>2. CodeTypeOK /\ [BothNext]_<<vars, otpVars>> => CodeTypeOK'
  BY BothIsOtp, CodeNext DEF CodeTypeOK
<1> QED BY <1>1, <1>2, PTL DEF BothSpec

----------------------------------------------------------------------------
(* The refinement.                                                         *)

\* The mapping follows one request.
LEMMA LetStep ==
    ASSUME Otp!TypeOK, NEW r \in Requests, NEW q,
           otpRequest' = [otpRequest EXCEPT ![r] = q]
    PROVE  [s \in Requests |-> Let(otpRequest[s])]'
             = [[s \in Requests |-> Let(otpRequest[s])] EXCEPT ![r] = Let(q)]
  BY DEF Otp!TypeOK, Let

\* A step that leaves what the mapping shows is a stutter.
LEMMA CodeStutter ==
    ASSUME Otp!TypeOK, NEW r \in Requests, NEW q,
           otpRequest' = [otpRequest EXCEPT ![r] = q],
           Let(q) = Let(otpRequest[r]), UNCHANGED <<otpCode, otpIssued, otpUsed>>
    PROVE  UNCHANGED <<otpIssued, otpCode, otpUsed,
                       [s \in Requests |-> Let(otpRequest[s])]>>
  BY LetStep DEF Otp!TypeOK, Let

\* For any requests and codes, Otp implements SingleUseCode: one code is good
\* at a time, and one that was answered yes is over for every later request.
THEOREM PromiseKept == BothSpec => KeepsPromise
<1> DEFINE let == [r \in Requests |-> Let(otpRequest[r])]
           abstract == <<otpIssued, otpCode, otpUsed, let>>
<1>1. Otp!Init => Otp!Promise!Init
  BY DEF Otp!Init, Otp!Promise!Init, Otp!Idle
<1>2. Otp!TypeOK /\ [Otp!Next]_otpVars => [Otp!Promise!Next]_abstract
  <2> SUFFICES ASSUME Otp!TypeOK, [Otp!Next]_otpVars
      PROVE Otp!Promise!Next \/ UNCHANGED abstract
    BY DEF Let
  <2>1. ASSUME NEW r \in Requests, Otp!GenerateCode(r) PROVE Otp!Promise!Next
    <3>1. otpRequest' = [otpRequest EXCEPT ![r] = [otpRequest[r] EXCEPT !.pc = "send"]]
      BY <2>1 DEF Otp!GenerateCode
    <3>2. let' = [let EXCEPT ![r] = None]
      <4>1. Let([otpRequest[r] EXCEPT !.pc = "send"]) = None
        BY CodeRecords DEF Otp!TypeOK, Otp!Labels, Let
      <4> QED BY <3>1, <4>1, LetStep
    <3>3. let[r] = None
      BY <2>1 DEF Otp!GenerateCode, Let
    <3>4. let' = let
      BY <3>2, <3>3
    <3>5. PICK c \in Codes \ otpIssued : otpCode' = c /\ otpIssued' = otpIssued \cup {c}
      BY <2>1 DEF Otp!GenerateCode
    <3>6. Otp!Promise!Issue(c)
      BY <3>4, <3>5, <2>1 DEF Otp!Promise!Issue, Otp!GenerateCode, Let
    <3> QED BY <3>5, <3>6 DEF Otp!Promise!Next
  <2>2. ASSUME NEW r \in Requests, Otp!Send(r) \/ Otp!WrongCode(r)
        PROVE  UNCHANGED abstract
    <3>1. /\ otpRequest' = [otpRequest EXCEPT ![r] = Otp!Idle]
          /\ UNCHANGED <<otpCode, otpIssued, otpUsed>>
          /\ otpRequest[r].pc # "del"
      BY <2>2 DEF Otp!Send, Otp!WrongCode, Otp!Finish
    <3> QED BY <3>1, CodeRecords, CodeStutter DEF Let
  <2>3. ASSUME NEW r \in Requests, NEW c \in Codes \cup {None}, Otp!Begin(r, c)
        PROVE  UNCHANGED abstract
    BY <2>3, CodeRecords, CodeStutter DEF Otp!Begin, Let
  <2>4. ASSUME NEW r \in Requests, Otp!RightCode(r) PROVE Otp!Promise!Next
    <3> DEFINE q == [otpRequest[r] EXCEPT !.pc = "del"]
    <3>1. /\ otpRequest' = [otpRequest EXCEPT ![r] = q]
          /\ UNCHANGED <<otpCode, otpIssued, otpUsed>>
          /\ otpCode # None /\ otpRequest[r].inputCode = otpCode
          /\ otpRequest[r].pc = "get"
      BY <2>4 DEF Otp!RightCode, Otp!Matches
    <3>2. Let(q) = otpCode
      BY <3>1, CodeRecords DEF Otp!TypeOK, Otp!Labels, Let
    <3> HIDE DEF q
    <3>3. let' = [let EXCEPT ![r] = otpCode] /\ let[r] = None
      BY <3>1, <3>2, LetStep DEF Let
    <3>4. Otp!Promise!LetThrough(r)
      BY <3>1, <3>3 DEF Otp!Promise!LetThrough, Let
    <3> QED BY <3>4 DEF Otp!Promise!Next
  <2>5. ASSUME NEW r \in Requests, Otp!DeleteCode(r) PROVE Otp!Promise!Next
    <3>1. /\ otpRequest' = [otpRequest EXCEPT ![r] = Otp!Idle]
          /\ otpIssued' = otpIssued
          /\ otpUsed' = otpUsed \cup {otpRequest[r].inputCode}
          /\ otpCode' = None
          /\ otpRequest[r].pc = "del"
      BY <2>5 DEF Otp!DeleteCode, Otp!AnswerYes, Otp!Finish
    <3>2. let[r] = otpRequest[r].inputCode /\ let[r] # None
      BY <3>1, SecondFactorAssumption DEF Otp!TypeOK, Let
    <3>3. let' = [let EXCEPT ![r] = None]
      BY <3>1, CodeRecords, LetStep DEF Let
    <3>4. Otp!Promise!AnswerYes(r)
      BY <3>1, <3>2, <3>3 DEF Otp!Promise!AnswerYes, Let
    <3> QED BY <3>4 DEF Otp!Promise!Next
  <2>6. ASSUME NEW r \in Requests, Otp!Fault(r) PROVE Otp!Promise!Next
    <3>1. /\ otpRequest' = [otpRequest EXCEPT ![r] = Otp!Idle]
          /\ UNCHANGED <<otpCode, otpIssued, otpUsed>>
      BY <2>6 DEF Otp!Fault, Otp!Finish
    <3>2. let' = [let EXCEPT ![r] = None]
      BY <3>1, CodeRecords, LetStep DEF Let
    <3>3. Otp!Promise!Fail(r)
      BY <3>1, <3>2 DEF Otp!Promise!Fail, Let
    <3> QED BY <3>3 DEF Otp!Promise!Next
  <2>7. CASE Otp!Expire
    BY <2>7 DEF Otp!Expire, Otp!Promise!Expire, Otp!Promise!Next, Let
  <2>8. CASE UNCHANGED otpVars
    BY <2>8 DEF otpVars, Let
  <2> QED BY <2>1, <2>2, <2>3, <2>4, <2>5, <2>6, <2>7, <2>8 DEF Otp!Next
<1>3. Otp!TypeOK /\ [Otp!Next]_otpVars =>
        [Otp!Promise!Next]_<<otpIssued, otpCode, otpUsed,
            [r \in Requests |->
                IF otpRequest[r].pc = "del" THEN otpRequest[r].inputCode ELSE None]>>
  BY <1>2 DEF Let
<1>4. BothSpec => []Otp!TypeOK
  BY CodesAlwaysTyped DEF CodeTypeOK
<1> QED
  BY <1>1, <1>3, <1>4, BothIsOtp, PTL
  DEF BothSpec, KeepsPromise, Otp!KeepsPromise, Otp!Promise!Spec

=============================================================================
