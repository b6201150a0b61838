---------------------------- MODULE SecondFactor ----------------------------
(***************************************************************************)
(* The two second factors of a user: TOTP (Totp) and one-time codes by     *)
(* e-mail and SMS (Otp).                                                   *)
(*                                                                         *)
(* They share no row and no Redis key, and the code never asks for both,   *)
(* so no order of their steps tells more than each of them alone: a        *)
(* behaviour uses one of them while the other rests as it began.           *)
(***************************************************************************)
EXTENDS Totp

CONSTANT Codes  \* bound: the one-time codes generated in a behaviour

ASSUME SecondFactorAssumption == None \notin Codes

VARIABLES otpCode, otpIssued, otpRequest, otpUsed

otpVars == <<otpCode, otpIssued, otpRequest, otpUsed>>

Otp == INSTANCE Otp WITH
    code <- otpCode, issued <- otpIssued, request <- otpRequest,
    used <- otpUsed

BothInit == Init /\ Otp!Init

BothNext ==
    \/ Next /\ Otp!Init /\ UNCHANGED otpVars
    \/ Otp!Next /\ Init /\ UNCHANGED vars

BothSpec == BothInit /\ [][BothNext]_<<vars, otpVars>> /\ Fairness

\* Otp's types: a request is let through only with a code that was generated
\* for the user.
CodeTypeOK == Otp!TypeOK

\* The handlers for one-time codes implement SingleUseCode: one good code at
\* a time, and none that is good again after a yes, whatever is replaced,
\* expires or fails between redis.get and redis.del.
KeepsPromise == Otp!KeepsPromise

=============================================================================
