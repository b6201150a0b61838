------------------------------ MODULE Accounts ------------------------------
(***************************************************************************)
(* Accounts and the tokens that are mailed for them: register, verifyEmail,*)
(* resendVerificationEmail, updateProfile, deleteUser,                     *)
(* requestPasswordReset and resetPassword.  The User rows are in the       *)
(* database, the tokens are keys in Redis that run out, and each handler   *)
(* is a sequence of single calls to one or the other.  The transaction     *)
(* around register does not contain the calls of its callback.             *)
(***************************************************************************)
EXTENDS Naturals, FiniteSets

CONSTANTS
    Users,       \* uuids: each is drawn once
    Emails,      \* addresses
    Tokens,      \* 32 random bytes: each is drawn once
    Requests,    \* requests that can be in flight at once
    None

Kinds == {"emailVerify", "passwordReset"}
\* What a token is drawn for, and the address it is mailed to.
Minted == [kind: Kinds, user: Users, address: Emails]

ASSUME AccountsAssumption ==
    /\ None \notin Users \cup Emails \cup Tokens
    /\ None \notin Minted
    /\ IsFiniteSet(Requests)

VARIABLES
    accounts,    \* User rows
    email,       \* their addresses; None for an id not drawn yet
    verified,    \* users with emailVerified
    minted,      \* what a token was drawn for; None when it was not yet
    live,        \* tokens whose key is in Redis
    mailed,      \* tokens that somebody received
    request,     \* the requests in flight
    \* history, read by the properties only
    had,         \* the addresses a user has had
    uses,        \* how often a token changed a row; counts to Cardinality(Requests) + 1
    spent,       \* tokens whose use was answered 200
    kept         \* tokens that were used and whose del failed

database == <<accounts, email, verified, had>>
redis == <<minted, live>>
history == <<uses, spent, kept>>
vars == <<database, redis, mailed, request, history>>

----------------------------------------------------------------------------
Calls == {"register", "verifyEmail", "resend", "updateProfile", "deleteUser",
          "requestReset", "resetPassword"}
Labels == {"idle", "exists", "create", "session", "setEx", "mail", "find",
           "get", "update", "del", "delete"}

\* late: the key of the token was gone when the request came (history).
Request == [pc: Labels, call: Calls \cup {"none"}, user: Users \cup {None},
            email: Emails \cup {None}, token: Tokens \cup {None}, late: BOOLEAN]

Asking(label, call, u, e, t) ==
    [pc |-> label, call |-> call, user |-> u, email |-> e, token |-> t,
     late |-> t # None /\ t \notin live]

Idle == [pc |-> "idle", call |-> "none", user |-> None, email |-> None,
         token |-> None, late |-> FALSE]

\* The kind of token that a call draws or uses.
KindOf(call) ==
    IF call \in {"requestReset", "resetPassword"} THEN "passwordReset" ELSE "emailVerify"

At(r, label) == request[r].pc = label
GoTo(r, label) == request' = [request EXCEPT ![r].pc = label]
Finish(r) == request' = [request EXCEPT ![r] = Idle]

UsersWith(e) == {u \in accounts : email[u] = e}
Drawn == {u \in Users : email[u] # None}

Init ==
    /\ accounts = {}
    /\ email = [u \in Users |-> None]
    /\ verified = {}
    /\ minted = [t \in Tokens |-> None]
    /\ live = {}
    /\ mailed = {}
    /\ request = [r \in Requests |-> Idle]
    /\ had = [u \in Users |-> {}]
    /\ uses = [t \in Tokens |-> 0]
    /\ spent = {}
    /\ kept = {}

----------------------------------------------------------------------------
(* A request comes.                                                        *)

\* Whoever has an id may send it with a request, whoever received a token may
\* present it, to either endpoint.
Arguments ==
    {Asking("exists", "register", None, e, None) : e \in Emails}
    \cup {Asking("find", "requestReset", None, e, None) : e \in Emails}
    \cup {Asking("find", "resend", u, None, None) : u \in Drawn}
    \cup {Asking("find", "updateProfile", u, e, None) : u \in Drawn, e \in Emails}
    \cup {Asking("delete", "deleteUser", u, None, None) : u \in Drawn}
    \cup {Asking("get", c, None, None, t) :
              c \in {"verifyEmail", "resetPassword"}, t \in mailed}

Receive(r, args) ==
    /\ At(r, "idle")
    /\ request' = [request EXCEPT ![r] = args]
    /\ UNCHANGED <<database, redis, mailed, history>>

----------------------------------------------------------------------------
(* Lookups.                                                                *)

\* existsByEmail: nobody has the address.
EmailFree(r) ==
    /\ At(r, "exists")
    /\ UsersWith(request[r].email) = {}
    /\ GoTo(r, IF request[r].call = "register" THEN "create" ELSE "update")
    /\ UNCHANGED <<database, redis, mailed, history>>

EmailAlreadyInUse(r) ==
    /\ At(r, "exists")
    /\ UsersWith(request[r].email) # {}
    /\ Finish(r)
    /\ UNCHANGED <<database, redis, mailed, history>>

\* findByEmail of requestPasswordReset.
FindByEmail(r, u) ==
    /\ At(r, "find") /\ request[r].call = "requestReset"
    /\ u \in UsersWith(request[r].email)
    /\ request' = [request EXCEPT ![r].pc = "setEx", ![r].user = u]
    /\ UNCHANGED <<database, redis, mailed, history>>

\* findById of resend, which is done when the user is verified.
FindUnverified(r) ==
    /\ At(r, "find") /\ request[r].call = "resend"
    /\ request[r].user \in accounts
    /\ IF request[r].user \in verified
       THEN Finish(r)
       ELSE request' = [request EXCEPT ![r].pc = "setEx",
                                       ![r].email = email[request[r].user]]
    /\ UNCHANGED <<database, redis, mailed, history>>

\* findById of updateProfile, which looks a new address up.
FindProfile(r) ==
    /\ At(r, "find") /\ request[r].call = "updateProfile"
    /\ request[r].user \in accounts
    /\ GoTo(r, IF email[request[r].user] = request[r].email THEN "update" ELSE "exists")
    /\ UNCHANGED <<database, redis, mailed, history>>

\* findById of verifyEmail.
FindVerifying(r) ==
    /\ At(r, "find") /\ request[r].call = "verifyEmail"
    /\ request[r].user \in accounts
    /\ GoTo(r, "update")
    /\ UNCHANGED <<database, redis, mailed, history>>

UserNotFound(r) ==
    /\ At(r, "find")
    /\ IF request[r].call = "requestReset"
       THEN UsersWith(request[r].email) = {}
       ELSE request[r].user \notin accounts
    /\ Finish(r)
    /\ UNCHANGED <<database, redis, mailed, history>>

----------------------------------------------------------------------------
(* Writes of rows.                                                         *)

\* Mutant: without the unique index on the address.
CreateUserUnchecked(r, u) ==
    /\ At(r, "create")
    /\ email[u] = None
    /\ accounts' = accounts \cup {u}
    /\ email' = [email EXCEPT ![u] = request[r].email]
    /\ had' = [had EXCEPT ![u] = {request[r].email}]
    /\ request' = [request EXCEPT ![r].pc = "session", ![r].user = u]
    /\ UNCHANGED <<verified, redis, mailed, history>>

CreateUser(r, u) ==
    /\ At(r, "create")
    /\ UsersWith(request[r].email) = {}
    /\ email[u] = None
    /\ accounts' = accounts \cup {u}
    /\ email' = [email EXCEPT ![u] = request[r].email]
    /\ had' = [had EXCEPT ![u] = {request[r].email}]
    /\ request' = [request EXCEPT ![r].pc = "session", ![r].user = u]
    /\ UNCHANGED <<verified, redis, mailed, history>>

\* The unique index refuses an address that was free when it was looked up.
EmailTaken(r) ==
    /\ \/ At(r, "create")
       \/ At(r, "update") /\ request[r].call = "updateProfile"
    /\ UsersWith(request[r].email) \ {request[r].user} # {}
    /\ Finish(r)
    /\ UNCHANGED <<database, redis, mailed, history>>

\* generateTokens of register.
CreateSession(r) ==
    /\ At(r, "session")
    /\ request[r].user \in accounts
    /\ GoTo(r, "setEx")
    /\ UNCHANGED <<database, redis, mailed, history>>

UpdateProfile(r) ==
    /\ At(r, "update") /\ request[r].call = "updateProfile"
    /\ request[r].user \in accounts
    /\ UsersWith(request[r].email) \subseteq {request[r].user}
    /\ email' = [email EXCEPT ![request[r].user] = request[r].email]
    /\ had' = [had EXCEPT ![request[r].user] = @ \cup {request[r].email}]
    /\ Finish(r)
    /\ UNCHANGED <<accounts, verified, redis, mailed, history>>

CountUse(t) ==
    uses' = [uses EXCEPT ![t] = IF @ <= Cardinality(Requests) THEN @ + 1 ELSE @]

VerifyUser(r) ==
    /\ At(r, "update") /\ request[r].call = "verifyEmail"
    /\ request[r].user \in accounts
    /\ verified' = verified \cup {request[r].user}
    /\ CountUse(request[r].token)
    /\ GoTo(r, "del")
    /\ UNCHANGED <<accounts, email, had, redis, mailed, spent, kept>>

UpdatePassword(r) ==
    /\ At(r, "update") /\ request[r].call = "resetPassword"
    /\ request[r].user \in accounts
    /\ CountUse(request[r].token)
    /\ GoTo(r, "del")
    /\ UNCHANGED <<database, redis, mailed, spent, kept>>

\* The row went since it was found: P2025, or P2003 for the session.
RowGone(r) ==
    /\ At(r, "update") \/ At(r, "session") \/ At(r, "delete")
    /\ request[r].user \notin accounts
    /\ Finish(r)
    /\ UNCHANGED <<database, redis, mailed, history>>

\* The sessions and roles of the user are not in this module: with a role the
\* call is refused, as by a Fault.
DeleteUser(r) ==
    /\ At(r, "delete")
    /\ request[r].user \in accounts
    /\ accounts' = accounts \ {request[r].user}
    /\ verified' = verified \ {request[r].user}
    /\ Finish(r)
    /\ UNCHANGED <<email, had, redis, mailed, history>>

----------------------------------------------------------------------------
(* Tokens.                                                                 *)

\* Mutant: every user has one token, which is set again.
SetTokenAgain(r, t) ==
    /\ At(r, "setEx")
    /\ minted[t] # None => minted[t].user = request[r].user
    /\ minted' = [minted EXCEPT ![t] = [kind |-> KindOf(request[r].call),
          user |-> request[r].user, address |-> request[r].email]]
    /\ live' = live \cup {t}
    /\ request' = [request EXCEPT ![r].pc = "mail", ![r].token = t]
    /\ UNCHANGED <<database, mailed, history>>

SetToken(r, t) ==
    /\ At(r, "setEx")
    /\ minted[t] = None
    /\ minted' = [minted EXCEPT ![t] = [kind |-> KindOf(request[r].call),
          user |-> request[r].user, address |-> request[r].email]]
    /\ live' = live \cup {t}
    /\ request' = [request EXCEPT ![r].pc = "mail", ![r].token = t]
    /\ UNCHANGED <<database, mailed, history>>

SendEmail(r) ==
    /\ At(r, "mail")
    /\ mailed' = mailed \cup {request[r].token}
    /\ Finish(r)
    /\ UNCHANGED <<database, redis, history>>

\* Mutant: one prefix for the keys of both kinds.
GetAnyToken(r) ==
    LET t == request[r].token
    IN  /\ At(r, "get")
        /\ t \in live
        /\ request' = [request EXCEPT ![r].user = minted[t].user,
              ![r].pc = IF request[r].call = "verifyEmail" THEN "find" ELSE "update"]
        /\ UNCHANGED <<database, redis, mailed, history>>

\* The key of the call's kind is there.
GetToken(r) ==
    LET t == request[r].token
    IN  /\ At(r, "get")
        /\ t \in live /\ minted[t].kind = KindOf(request[r].call)
        /\ request' = [request EXCEPT ![r].user = minted[t].user,
              ![r].pc = IF request[r].call = "verifyEmail" THEN "find" ELSE "update"]
        /\ UNCHANGED <<database, redis, mailed, history>>

InvalidToken(r) ==
    LET t == request[r].token
    IN  /\ At(r, "get")
        /\ t \notin live \/ minted[t].kind # KindOf(request[r].call)
        /\ Finish(r)
        /\ UNCHANGED <<database, redis, mailed, history>>

\* Mutant: the first use does not delete the token.
KeepToken(r) ==
    /\ At(r, "del")
    /\ spent' = spent \cup {request[r].token}
    /\ Finish(r)
    /\ UNCHANGED <<database, redis, mailed, uses, kept>>

\* The last call: the answer is 200.
DeleteToken(r) ==
    /\ At(r, "del")
    /\ live' = live \ {request[r].token}
    /\ spent' = spent \cup {request[r].token}
    /\ Finish(r)
    /\ UNCHANGED <<database, minted, mailed, uses, kept>>

\* A call is rejected.  register answers 201 all the same when it is setEx or
\* the mail; nothing that was written before is taken back.
Fault(r) ==
    /\ ~At(r, "idle")
    /\ kept' = IF At(r, "del") THEN kept \cup {request[r].token} ELSE kept
    /\ Finish(r)
    /\ UNCHANGED <<database, redis, mailed, uses, spent>>

\* The time of a key is over.
Expire(t) ==
    /\ t \in live
    /\ live' = live \ {t}
    /\ UNCHANGED <<database, minted, mailed, request, history>>

----------------------------------------------------------------------------
Step(r) ==
    \/ \E args \in Arguments : Receive(r, args)
    \/ EmailFree(r)
    \/ EmailAlreadyInUse(r)
    \/ \E u \in Users : FindByEmail(r, u) \/ CreateUser(r, u)
    \/ FindUnverified(r)
    \/ FindProfile(r)
    \/ FindVerifying(r)
    \/ UserNotFound(r)
    \/ EmailTaken(r)
    \/ CreateSession(r)
    \/ UpdateProfile(r)
    \/ VerifyUser(r)
    \/ UpdatePassword(r)
    \/ RowGone(r)
    \/ DeleteUser(r)
    \/ \E t \in Tokens : SetToken(r, t)
    \/ SendEmail(r)
    \/ GetToken(r)
    \/ InvalidToken(r)
    \/ DeleteToken(r)
    \/ Fault(r)

Next == (\E r \in Requests : Step(r)) \/ (\E t \in Tokens : Expire(t))

Spec == Init /\ [][Next]_vars

----------------------------------------------------------------------------
(* Properties.                                                             *)

\* Every variable has its type, and no two accounts have one address.
TypeOK ==
    /\ accounts \subseteq Drawn
    /\ email \in [Users -> Emails \cup {None}]
    /\ \A u, v \in accounts : email[u] = email[v] => u = v
    /\ verified \subseteq accounts
    /\ minted \in [Tokens -> Minted \cup {None}]
    /\ live \cup mailed \subseteq {t \in Tokens : minted[t] # None}
    /\ request \in [Requests -> Request]
    /\ had \in [Users -> SUBSET Emails]
    /\ uses \in [Tokens -> 0 .. Cardinality(Requests) + 1]
    /\ spent \cup kept \subseteq Tokens

\* A verified user was mailed a verification token at an address the user had,
\* and that token was used; address changes, deletions and tokens of the other
\* kind in between make nobody verified.
VerifiedEarned ==
    \A u \in verified : \E t \in mailed :
        /\ minted[t].kind = "emailVerify" /\ minted[t].user = u
        /\ minted[t].address \in had[u]
        /\ uses[t] > 0

\* A token whose use was answered 200, or that ran out, is over for whoever
\* presents it later, whatever other requests still do with it.
OverStaysOver ==
    /\ spent \cap live = {}
    /\ \A r \in Requests : request[r].late => request[r].pc = "get"

\* verifyEmail and resetPassword read a token, change a row and delete the
\* token in separate calls: a token is used more than once, yet no more often
\* than there are requests in flight at once, unless a deletion fails.
UsesBounded ==
    \A t \in Tokens \ kept : uses[t] <= Cardinality(Requests)

=============================================================================
