-------------------------------- MODULE Totp --------------------------------
(***************************************************************************)
(* The TOTP second factor: services/mfa/totpService.ts, its repository,    *)
(* and the MFA half of services/auth/authService.ts (the challenge that    *)
(* login answers, and verifyMfaLogin).                                     *)
(*                                                                         *)
(* Everything here hangs on one user's id (a MfaSecret row, the Redis key  *)
(* mfa_attempts:<id>, the challenges), and users share nothing, so the     *)
(* module is about one user.  The row is never deleted and its foreign key *)
(* keeps the user from being deleted.  A code is named by the secret it is *)
(* a valid code of; one that is valid for no secret is None.  Time is the  *)
(* time each Redis key or token has left, so the clock need not be bounded.*)
(***************************************************************************)
EXTENDS Naturals, FiniteSets, Combinatorics

CONSTANTS
    Requests,      \* MFA requests that can be in flight at once
    Secrets,       \* TOTP secrets; a forgotten one may be drawn again
    None,          \* no secret, or a code of no secret
    MaxAttempts,   \* MAX_ATTEMPTS
    AttemptsTtl,   \* VERIFICATION_CODE_TTL
    ChallengeTtl   \* expiresIn of the mfaToken

ASSUME TotpAssumption ==
    /\ MaxAttempts \in Nat \ {0}
    /\ AttemptsTtl \in Nat \ {0}
    /\ ChallengeTtl \in Nat \ {0}
    /\ None \notin Secrets
    /\ IsFiniteSet(Requests)

VARIABLES
    secret, enabled,  \* the MfaSecret row; secret = None: there is no row
    attempts,         \* the value of mfa_attempts; 0: there is no such key
    attemptsLeft,     \* the time that key has left
    challengeLeft,    \* the time the newest mfaToken has left
    request,          \* the requests in flight
    \* history, read by the properties only
    confirmed,        \* the secret's owner has shown a code of it
    overtaken,        \* the secret was drawn while a confirmation was going on
    streak            \* failures written since the key was last absent

row == <<secret, enabled>>
counter == <<attempts, attemptsLeft>>
history == <<confirmed, overtaken, streak>>
vars == <<row, counter, challengeLeft, request, history>>

----------------------------------------------------------------------------
(* The state of a request: confirm is POST /totp/confirm, check is         *)
(* /totp/verify, login is /auth/mfa-verify.                                *)

Labels == {"idle", "row", "attempts", "write", "accepted", "enable"}
Kinds == {"confirm", "check", "login"}

\* sawCurrent is history: at some instant since the request came, its code
\* was one of the user's secret, and that secret was enabled.
Request == [pc: Labels, kind: Kinds, code: Secrets \cup {None},
            isValid: BOOLEAN, attempts: 0 .. MaxAttempts,
            sawCurrent: BOOLEAN]

Idle == [pc |-> "idle", kind |-> "check", code |-> None, isValid |-> FALSE,
         attempts |-> 0, sawCurrent |-> FALSE]

Finish(r) == request' = [request EXCEPT ![r] = Idle]
GoTo(r, label) == request' = [request EXCEPT ![r].pc = label]

Confirming == \E r \in Requests : request[r].pc = "enable"

\* What waiting requests get to see when the row becomes <<s, e>>.
Witness(s, e) ==
    [r \in Requests |->
        IF request[r].pc = "row" /\ e /\ request[r].code = s
        THEN [request[r] EXCEPT !.sawCurrent = TRUE] ELSE request[r]]

----------------------------------------------------------------------------
(* A user that never set MFA up.                                           *)

Init ==
    /\ secret = None
    /\ enabled = FALSE
    /\ attempts = 0
    /\ attemptsLeft = 0
    /\ challengeLeft = 0
    /\ request = [r \in Requests |-> Idle]
    /\ confirmed = FALSE
    /\ overtaken = FALSE
    /\ streak = 0

----------------------------------------------------------------------------
(* Setting MFA up and down.                                                *)

\* createOrUpdateSecret is one upsert.
Upsert(s, e) ==
    /\ secret' = s
    /\ enabled' = e
    /\ request' = Witness(s, e)
    /\ confirmed' = FALSE
    /\ overtaken' = Confirming
    /\ UNCHANGED <<counter, challengeLeft, streak>>

\* A secret is 20 random bytes: nobody still holds a code of it.
Fresh(s) == s # secret /\ \A r \in Requests : request[r].code # s

\* Mutant: the upsert leaves the enabled column of an old row alone.
GenerateSecretKeepsEnabled ==
    \E s \in Secrets : Fresh(s) /\ Upsert(s, enabled)

\* Also when MFA is on: it is off until the new secret is confirmed.
GenerateSecret == \E s \in Secrets : Fresh(s) /\ Upsert(s, FALSE)

\* disableMfa updates the row; without one Prisma throws P2025.
Disable ==
    /\ secret # None
    /\ enabled' = FALSE
    /\ UNCHANGED <<secret, counter, challengeLeft, request, history>>

DisableNothing == secret = None /\ UNCHANGED vars

\* confirmAndEnable reads the row and, before the next await, checks the
\* code against it.
ReadForConfirm(r, code) ==
    /\ request[r].pc = "idle"
    /\ secret # None
    /\ code = secret
    /\ request' = [request EXCEPT ![r] =
          [Idle EXCEPT !.pc = "enable", !.kind = "confirm"]]
    /\ confirmed' = TRUE
    /\ UNCHANGED <<row, counter, challengeLeft, overtaken, streak>>

\* No row, or a code of another secret: InvalidTotpToken.
ConfirmRefused(r, code) ==
    /\ request[r].pc = "idle"
    /\ secret = None \/ code # secret
    /\ UNCHANGED vars

\* enableMfa turns on whatever secret the row holds by then.
EnableMfa(r) ==
    /\ request[r].pc = "enable"
    /\ enabled' = TRUE
    /\ request' = [Witness(secret, TRUE) EXCEPT ![r] = Idle]
    /\ UNCHANGED <<secret, counter, challengeLeft, history>>

----------------------------------------------------------------------------
(* The challenge, and the two ways to verify a code.                       *)

\* login has found the secret enabled and signs an mfaToken.
Challenge ==
    /\ enabled
    /\ challengeLeft' = ChallengeTtl
    /\ UNCHANGED <<row, counter, request, history>>

\* A request on its way to verifyCode.
Begin(r, kind, code) ==
    /\ request[r].pc = "idle"
    /\ request' = [request EXCEPT ![r] =
          [Idle EXCEPT !.pc = "row", !.kind = kind, !.code = code,
                       !.sawCurrent = enabled /\ code = secret]]
    /\ UNCHANGED <<row, counter, challengeLeft, history>>

BeginCheck(r, code) == Begin(r, "check", code)

\* verifyMfaLogin: jwt.verify, and the purpose of the token.
BeginLogin(r, code) == challengeLeft > 0 /\ Begin(r, "login", code)

ChallengeExpired(r) ==
    /\ request[r].pc = "idle"
    /\ challengeLeft = 0
    /\ UNCHANGED vars

\* verifyCode has read the row; the code will be checked against this copy.
Compare(r) ==
    /\ request' = [request EXCEPT ![r].pc = "attempts", ![r].code = None,
                                  ![r].isValid = request[r].code = secret]
    /\ UNCHANGED <<row, counter, challengeLeft, history>>

\* Mutant: a secret that was not confirmed, or was disabled, counts.
ReadAnySecret(r) ==
    /\ request[r].pc = "row"
    /\ secret # None
    /\ Compare(r)

ReadSecret(r) ==
    /\ request[r].pc = "row"
    /\ enabled
    /\ Compare(r)

NotEnabled(r) ==
    /\ request[r].pc = "row"
    /\ ~enabled
    /\ Finish(r)
    /\ UNCHANGED <<row, counter, challengeLeft, history>>

\* redis.get(attemptsKey), below the limit.
ReadAttempts(r, limit) ==
    /\ request[r].pc = "attempts"
    /\ attempts < limit
    /\ request' = [request EXCEPT ![r].pc = "write",
                                  ![r].attempts = attempts]
    /\ UNCHANGED <<row, counter, challengeLeft, history>>

\* Mutant: > instead of >=.
GetAttemptsOneMore(r) == ReadAttempts(r, MaxAttempts + 1)

GetAttempts(r) == ReadAttempts(r, MaxAttempts)

Refuse(r) ==
    /\ request[r].pc = "attempts"
    /\ attempts >= MaxAttempts
    /\ Finish(r)
    /\ UNCHANGED <<row, challengeLeft, history>>

\* Mutant: a refused attempt makes the lock start over.
RefuseAndProlong(r) ==
    /\ Refuse(r)
    /\ attemptsLeft' = AttemptsTtl
    /\ UNCHANGED attempts

\* A locked user is refused before the code is looked at, and the key keeps
\* the time it has.
TooManyAttempts(r) == Refuse(r) /\ UNCHANGED counter

\* A valid code: del(attemptsKey).
Accept(r) ==
    /\ request[r].pc = "write"
    /\ request[r].isValid
    /\ attempts' = 0
    /\ attemptsLeft' = 0
    /\ streak' = 0
    /\ GoTo(r, "accepted")
    /\ UNCHANGED <<row, challengeLeft, confirmed, overtaken>>

\* An invalid one: setEx with one more than was read.
CountFailure(r) ==
    /\ request[r].pc = "write"
    /\ ~request[r].isValid
    /\ attempts' = request[r].attempts + 1
    /\ attemptsLeft' = AttemptsTtl
    /\ streak' = streak + 1
    /\ Finish(r)
    /\ UNCHANGED <<row, challengeLeft, confirmed, overtaken>>

\* The answer: verifyMfaLogin opens a session with generateTokens first.
Answer(r) ==
    /\ request[r].pc = "accepted"
    /\ Finish(r)
    /\ UNCHANGED <<row, counter, challengeLeft, history>>

\* An awaited call rejects; what was written stays written.
Fault(r) ==
    /\ request[r].pc # "idle"
    /\ Finish(r)
    /\ UNCHANGED <<row, counter, challengeLeft, history>>

\* Redis drops the key when its time is over.
Tick ==
    /\ challengeLeft' = IF challengeLeft > 0 THEN challengeLeft - 1 ELSE 0
    /\ attemptsLeft' = IF attemptsLeft > 0 THEN attemptsLeft - 1 ELSE 0
    /\ attempts' = IF attemptsLeft > 1 THEN attempts ELSE 0
    /\ streak' = IF attemptsLeft > 1 THEN streak ELSE 0
    /\ UNCHANGED <<row, request, confirmed, overtaken>>

Step(r) ==
    \/ EnableMfa(r)
    \/ ReadSecret(r)
    \/ NotEnabled(r)
    \/ GetAttempts(r)
    \/ TooManyAttempts(r)
    \/ Accept(r)
    \/ CountFailure(r)
    \/ Answer(r)

Arrive(r) ==
    \/ \E code \in Secrets \cup {None} :
          \/ ReadForConfirm(r, code)
          \/ ConfirmRefused(r, code)
          \/ BeginCheck(r, code)
          \/ BeginLogin(r, code)
    \/ ChallengeExpired(r)

Next ==
    \/ GenerateSecret
    \/ Disable
    \/ DisableNothing
    \/ Challenge
    \/ Tick
    \/ \E r \in Requests : Arrive(r) \/ Step(r) \/ Fault(r)

Spec == Init /\ [][Next]_vars

\* Time passes; handlers need not go on.
Fairness == WF_vars(Tick)

----------------------------------------------------------------------------
(* Properties.                                                             *)

\* Every variable has the type of what it models; a counter without time
\* left is absent, and no value above MAX_ATTEMPTS is ever written.
TypeOK ==
    /\ secret \in Secrets \cup {None}
    /\ enabled \in BOOLEAN
    /\ enabled => secret # None
    /\ attempts \in 0 .. MaxAttempts
    /\ attemptsLeft \in 0 .. AttemptsTtl
    /\ attempts > 0 <=> attemptsLeft > 0
    /\ challengeLeft \in 0 .. ChallengeTtl
    /\ request \in [Requests -> Request]
    /\ confirmed \in BOOLEAN
    /\ overtaken \in BOOLEAN
    /\ streak \in Nat

\* The counter is read and set back, so overlapping guesses are counted
\* once and may lower it; still, with k requests in flight at most
\* (MaxAttempts+k choose k) - 1 failures are written before verifyCode
\* refuses everything, unless the key runs out or a valid code comes.
GuessesBounded ==
    LET k == Cardinality(Requests)
    IN  streak < choose(MaxAttempts + k, k)

\* A code is accepted, and a session opened on it, only if it was a code of
\* the user's enabled secret at some instant of the request, although row,
\* counter and session are read and written by separate calls.
FactorJustified ==
    \A r \in Requests : request[r].pc = "accepted" => request[r].sawCurrent

\* The user can only be asked for codes of a secret that was confirmed with
\* a code of it, except when another secret was drawn while a confirmation
\* was between its read and its write: then that one is on, unconfirmed.
ConfirmedUnlessOvertaken == enabled => confirmed \/ overtaken

\* A user who used the attempts up is not locked out for ever, whoever goes
\* on trying: refused attempts do not prolong the time of the key.
LockEnds == attempts >= MaxAttempts ~> attempts < MaxAttempts

=============================================================================
