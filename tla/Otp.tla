-------------------------------- MODULE Otp --------------------------------
(***************************************************************************)
(* One-time codes by e-mail and SMS: services/mfa/otpService.ts and the    *)
(* handlers of controllers/mfa/otpController.ts.                           *)
(*                                                                         *)
(* All of it works on one Redis key, mfa_code:<user id>, so the module is  *)
(* about one user.  Each await is a step of its own.  Every generated code *)
(* is a new member of Codes: that one of a million six-digit codes is      *)
(* drawn a second time is left out.  A code never generated is None.       *)
(* Nothing depends on how long CODE_TTL_SECONDS is, so the key may run out *)
(* at any time.                                                            *)
(***************************************************************************)
EXTENDS FiniteSets

CONSTANTS
    Requests,  \* requests that can be in flight at once
    Codes,     \* bound: the codes generated in a behaviour
    None       \* no code, or one that was never generated

VARIABLES
    code,      \* the value of mfa_code, None when the key is absent
    issued,    \* the codes generated so far
    request,   \* the requests in flight
    used       \* history: the codes that were answered yes

vars == <<code, issued, request, used>>

----------------------------------------------------------------------------

Labels == {"idle", "send", "get", "del"}
Request == [pc: Labels, inputCode: Codes \cup {None}]
Idle == [pc |-> "idle", inputCode |-> None]

Finish(r) == request' = [request EXCEPT ![r] = Idle]

Init ==
    /\ code = None
    /\ issued = {}
    /\ request = [r \in Requests |-> Idle]
    /\ used = {}

\* generateCode: setEx replaces the value of the key and its time.
GenerateCode(r) ==
    /\ request[r].pc = "idle"
    /\ \E c \in Codes \ issued : code' = c /\ issued' = issued \cup {c}
    /\ request' = [request EXCEPT ![r].pc = "send"]
    /\ UNCHANGED used

\* sendEmail or sendSms, and the answer.  The code is stored by now: a
\* transport that fails (Fault) leaves it good and unknown to its user.
Send(r) ==
    /\ request[r].pc = "send"
    /\ Finish(r)
    /\ UNCHANGED <<code, issued, used>>

Begin(r, inputCode) ==
    /\ request[r].pc = "idle"
    /\ request' = [request EXCEPT ![r] = [pc |-> "get", inputCode |-> inputCode]]
    /\ UNCHANGED <<code, issued, used>>

\* Mutant: only "is it the stored value", which is null when there is none.
SameAsStored(inputCode) == inputCode = code

\* storedCode && storedCode === inputCode, on what redis.get answered.
Matches(inputCode) == code # None /\ inputCode = code

RightCode(r) ==
    /\ request[r].pc = "get"
    /\ Matches(request[r].inputCode)
    /\ request' = [request EXCEPT ![r].pc = "del"]
    /\ UNCHANGED <<code, issued, used>>

\* InvalidOtpToken; wrong codes are not counted.
WrongCode(r) ==
    /\ request[r].pc = "get"
    /\ ~Matches(request[r].inputCode)
    /\ Finish(r)
    /\ UNCHANGED <<code, issued, used>>

AnswerYes(r) ==
    /\ request[r].pc = "del"
    /\ used' = used \cup {request[r].inputCode}
    /\ Finish(r)
    /\ UNCHANGED issued

\* Mutant: the code is good until it runs out.
KeepCode(r) == AnswerYes(r) /\ UNCHANGED code

\* del removes the key whatever its value is by then; true is the answer.
DeleteCode(r) == AnswerYes(r) /\ code' = None

\* Redis drops the key after CODE_TTL_SECONDS.
Expire ==
    /\ code # None
    /\ code' = None
    /\ UNCHANGED <<issued, request, used>>

\* An awaited call rejects: Redis, the mail server or the SMS gateway.
Fault(r) ==
    /\ request[r].pc # "idle"
    /\ Finish(r)
    /\ UNCHANGED <<code, issued, used>>

Next ==
    \/ \E r \in Requests :
          \/ GenerateCode(r)
          \/ Send(r)
          \/ \E c \in Codes \cup {None} : Begin(r, c)
          \/ RightCode(r)
          \/ WrongCode(r)
          \/ DeleteCode(r)
          \/ Fault(r)
    \/ Expire

Spec == Init /\ [][Next]_vars

----------------------------------------------------------------------------
(* Properties.                                                             *)

\* Every variable has the type of what it models, and a request is let
\* through only with a code that was generated.
TypeOK ==
    /\ issued \subseteq Codes
    /\ code \in issued \cup {None}
    /\ request \in [Requests -> Request]
    /\ used \subseteq issued
    /\ \A r \in Requests : request[r].pc = "del" => request[r].inputCode \in issued

\* One code is good at a time, and one that was answered yes is over for
\* every later request, although verifyCode gets, compares and deletes in
\* three steps while codes are replaced and run out: the handlers implement
\* SingleUseCode, letting a request through at its get.
Promise == INSTANCE SingleUseCode WITH
    good <- code,
    let <- [r \in Requests |->
               IF request[r].pc = "del" THEN request[r].inputCode ELSE None]

KeepsPromise == Promise!Spec

=============================================================================
