-------------------------- MODULE SessionRegistry --------------------------
(***************************************************************************)
(* What the session layer promises, without requests, tokens or clocks.    *)
(* A session is opened once and closed once.  A client is let in on a      *)
(* session only at an instant at which the session is open; it may still   *)
(* be inside when the session is closed, and then it leaves.               *)
(***************************************************************************)
CONSTANTS SessionIds, Clients, None

VARIABLES
    status,  \* of each session id: free, open or closed
    inside   \* the session each client is let in on, or None

Init ==
    /\ status = [s \in SessionIds |-> "free"]
    /\ inside = [c \in Clients |-> None]

Open(s) ==
    /\ status[s] = "free"
    /\ status' = [status EXCEPT ![s] = "open"]
    /\ UNCHANGED inside

\* One call may close many: all sessions of a user.
Close(S) ==
    /\ \A s \in S : status[s] = "open"
    /\ status' = [s \in SessionIds |-> IF s \in S THEN "closed" ELSE status[s]]

Admit(c, s) ==
    /\ inside[c] = None
    /\ status[s] = "open"
    /\ inside' = [inside EXCEPT ![c] = s]
    /\ UNCHANGED status

Leave(c) == inside' = [inside EXCEPT ![c] = None]

\* A client that closes sessions may leave in the same step.
Next ==
    \/ \E s \in SessionIds : Open(s)
    \/ \E S \in SUBSET SessionIds : Close(S) /\ UNCHANGED inside
    \/ \E c \in Clients, S \in SUBSET SessionIds : Close(S) /\ Leave(c)
    \/ \E c \in Clients, s \in SessionIds : Admit(c, s)

Spec == Init /\ [][Next]_<<status, inside>>

=============================================================================
