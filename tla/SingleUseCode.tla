--------------------------- MODULE SingleUseCode ---------------------------
(***************************************************************************)
(* What one-time codes promise a user, without keys, mails or handlers.    *)
(* At most one code is good at a time.  A request is let through only at   *)
(* an instant at which its code is the good one, and when it is answered   *)
(* yes the code is over.  The promise is not "once": several requests may  *)
(* be let through before the first is answered, and an answer may take a   *)
(* newer code with it.                                                     *)
(***************************************************************************)
CONSTANTS Codes, Requests, None

VARIABLES
    issued,  \* codes that were ever good
    good,    \* the good code, or None
    used,    \* codes a request was answered yes on
    let      \* the code each request is let through with, or None

Init ==
    /\ issued = {}
    /\ good = None
    /\ used = {}
    /\ let = [r \in Requests |-> None]

\* A new code takes the place of the old one.
Issue(c) ==
    /\ c \notin issued
    /\ issued' = issued \cup {c}
    /\ good' = c
    /\ UNCHANGED <<used, let>>

Expire ==
    /\ good' = None
    /\ UNCHANGED <<issued, used, let>>

LetThrough(r) ==
    /\ good # None
    /\ let[r] = None
    /\ let' = [let EXCEPT ![r] = good]
    /\ UNCHANGED <<issued, good, used>>

\* The code is over when the yes is given.
AnswerYes(r) ==
    /\ let[r] # None
    /\ let' = [let EXCEPT ![r] = None]
    /\ used' = used \cup {let[r]}
    /\ good' = None
    /\ UNCHANGED issued

\* No yes is given after all; the code may stay good.
Fail(r) ==
    /\ let' = [let EXCEPT ![r] = None]
    /\ UNCHANGED <<issued, good, used>>

Next ==
    \/ \E c \in Codes : Issue(c)
    \/ Expire
    \/ \E r \in Requests : LetThrough(r) \/ AnswerYes(r) \/ Fail(r)

Spec == Init /\ [][Next]_<<issued, good, used, let>>

=============================================================================
