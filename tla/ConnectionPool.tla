--------------------------- MODULE ConnectionPool ---------------------------
(***************************************************************************)
(* The database connections of one server process.  login and register run *)
(* inside withTransaction: prisma.$transaction keeps a connection for the  *)
(* transaction until the callback ends.  But for one query of login, the   *)
(* callback does not use it: the repositories it calls were built on the   *)
(* plain client, and each of their queries takes a second connection from  *)
(* the same pool.  All other handlers take one connection per query.       *)
(* Between its queries a handler may wait for Redis, as register does      *)
(* inside its transaction.                                                 *)
(*                                                                         *)
(* The pool itself is Prisma's: connections are given out in the order in  *)
(* which they were asked for, and three timers end a wait.                 *)
(***************************************************************************)
EXTENDS Naturals, Sequences, SequencesExt, FiniteSets

CONSTANTS
    Requests,  \* requests that can be in flight at once
    PoolSize,  \* connections
    MaxCalls   \* bound: queries and Redis commands of one handler

ASSUME PoolAssumption ==
    /\ IsFiniteSet(Requests)
    /\ PoolSize \in Nat \ {0}
    /\ MaxCalls \in Nat \ {0}

VARIABLES
    waiting,  \* requests that wait for a connection, first come first
    open,     \* requests whose transaction is open: each keeps a connection
    request,  \* what each request is doing, and how many calls it has left
    redisUp   \* Redis answers

vars == <<waiting, open, request, redisUp>>

----------------------------------------------------------------------------
\* "begin": waits for the connection of its transaction.  "run": between
\* two calls.  "ask": waits for the connection of a query.  "query": the
\* query runs.  "own": a query runs on the connection of the transaction.
\* "redis": waits for Redis.  tx: the handler runs inside withTransaction.
Labels == {"idle", "begin", "run", "ask", "query", "own", "redis"}
Request == [pc: Labels, left: 0 .. MaxCalls, tx: BOOLEAN]

Idle == [pc |-> "idle", left |-> 0, tx |-> FALSE]

At(label) == {r \in Requests : request[r].pc = label}
InUse == Cardinality(open) + Cardinality(At("query"))

\* Requests inside withTransaction, from the call to its end.
Transactions == {r \in Requests : request[r].tx}

GoTo(r, label) == request' = [request EXCEPT ![r].pc = label]
Finish(r) == request' = [request EXCEPT ![r] = Idle]
Enqueue(r) == waiting' = Append(waiting, r)
Dequeue(r) ==
    \E i \in DOMAIN waiting : /\ waiting[i] = r
                              /\ waiting' = RemoveAt(waiting, i)

Init ==
    /\ waiting = <<>>
    /\ open = {}
    /\ request = [r \in Requests |-> Idle]
    /\ redisUp = TRUE

----------------------------------------------------------------------------
\* login or register calls withTransaction.
WithTransaction(r, n) ==
    /\ request[r].pc = "idle"
    /\ request' = [request EXCEPT ![r] = [pc |-> "begin", left |-> n, tx |-> TRUE]]
    /\ Enqueue(r)
    /\ UNCHANGED <<open, redisUp>>

\* Any other handler runs, without a transaction.
Handle(r, n) ==
    /\ request[r].pc = "idle"
    /\ request' = [request EXCEPT ![r] = [pc |-> "run", left |-> n, tx |-> FALSE]]
    /\ UNCHANGED <<waiting, open, redisUp>>

\* A repository call: on the plain client, inside a transaction as well.
Ask(r) ==
    /\ request[r].pc = "run"
    /\ request[r].left > 0
    /\ GoTo(r, "ask")
    /\ Enqueue(r)
    /\ UNCHANGED <<open, redisUp>>

\* tx.session.findFirst of login: on the connection that the transaction has;
\* rejected when the transaction was closed.
AskTransaction(r) ==
    /\ request[r].pc = "run"
    /\ request[r].left > 0
    /\ request[r].tx
    /\ request' = [request EXCEPT ![r].pc = IF r \in open THEN "own" ELSE "run",
                                  ![r].left = IF r \in open THEN @ ELSE 0]
    /\ UNCHANGED <<waiting, open, redisUp>>

\* Mutant: one connection too many is given out.
GrantOneMore ==
    /\ waiting # <<>>
    /\ InUse <= PoolSize
    /\ LET r == Head(waiting)
       IN  IF request[r].pc = "begin"
           THEN GoTo(r, "run") /\ open' = open \cup {r}
           ELSE GoTo(r, "query") /\ UNCHANGED open
    /\ waiting' = Tail(waiting)
    /\ UNCHANGED redisUp

\* A free connection goes to the request that has waited longest.
Grant ==
    /\ waiting # <<>>
    /\ InUse < PoolSize
    /\ LET r == Head(waiting)
       IN  IF request[r].pc = "begin"
           THEN GoTo(r, "run") /\ open' = open \cup {r}
           ELSE GoTo(r, "query") /\ UNCHANGED open
    /\ waiting' = Tail(waiting)
    /\ UNCHANGED redisUp

\* A call ends: the handler goes on, or has no more to do.
Return(r, rejected) ==
    /\ request' = [request EXCEPT ![r].pc = "run",
                                  ![r].left = IF rejected THEN 0 ELSE @ - 1]
    /\ UNCHANGED <<waiting, open, redisUp>>

\* The database answers, or rejects.
Answer(r, rejected) == request[r].pc \in {"query", "own"} /\ Return(r, rejected)

\* The handler sends a command to Redis; the client queues it, without a
\* timeout, while Redis is away.
Command(r) ==
    /\ request[r].pc = "run"
    /\ request[r].left > 0
    /\ GoTo(r, "redis")
    /\ UNCHANGED <<waiting, open, redisUp>>

\* Redis answers, or the connection breaks under the command and it rejects;
\* register catches that, and goes on.
Reply(r, rejected) == request[r].pc = "redis" /\ Return(r, rejected)

\* Mutant: a callback that threw, or did not, keeps the connection
\* of its transaction.
EndWithoutRollback(r) ==
    /\ request[r].pc = "run"
    /\ request[r].left = 0
    /\ Finish(r)
    /\ UNCHANGED <<waiting, open, redisUp>>

\* The handler is done.  A transaction is committed, or rolled back when the
\* callback threw; either way its connection is free.
End(r) ==
    /\ request[r].pc = "run"
    /\ request[r].left = 0
    /\ open' = open \ {r}
    /\ Finish(r)
    /\ UNCHANGED <<waiting, redisUp>>

RedisGoesOrComes ==
    /\ redisUp' = ~redisUp
    /\ UNCHANGED <<waiting, open, request>>

----------------------------------------------------------------------------
(* The timers of the client.                                               *)

\* maxWait: no connection for the transaction.
BeginTimeout(r) ==
    /\ request[r].pc = "begin"
    /\ Dequeue(r)
    /\ Finish(r)
    /\ UNCHANGED <<open, redisUp>>

\* Mutant: a transaction closes only between two queries of its callback.
TransactionTimeoutBetween(r) ==
    /\ r \in open
    /\ request[r].pc = "run"
    /\ open' = open \ {r}
    /\ UNCHANGED <<waiting, request, redisUp>>

\* timeout: the transaction is closed under its callback, which goes on.
TransactionTimeout(r) ==
    /\ r \in open
    /\ open' = open \ {r}
    /\ UNCHANGED <<waiting, request, redisUp>>

\* pool_timeout: no connection for a query.  It is longer than the timer of
\* the transaction, which the query has started after.
QueryTimeout(r) ==
    /\ request[r].pc = "ask"
    /\ r \notin open
    /\ Dequeue(r)
    /\ request' = [request EXCEPT ![r].pc = "run", ![r].left = 0]
    /\ UNCHANGED <<open, redisUp>>

Next ==
    \/ \E r \in Requests, n \in 1 .. MaxCalls : WithTransaction(r, n) \/ Handle(r, n)
    \/ \E r \in Requests :
          \/ Ask(r)
          \/ AskTransaction(r)
          \/ \E rejected \in BOOLEAN : Answer(r, rejected) \/ Reply(r, rejected)
          \/ Command(r)
          \/ End(r)
          \/ BeginTimeout(r)
          \/ TransactionTimeout(r)
          \/ QueryTimeout(r)
    \/ Grant
    \/ RedisGoesOrComes

\* What the event loop does with a request between two calls: bcrypt ends, and
\* so does a mail, by the timers of its client.
Continue(r) == Ask(r) \/ AskTransaction(r) \/ Command(r) \/ End(r)

\* The event loop runs what can run, the pool gives out what is free, the
\* database answers, and so does Redis unless it is away.  Timers are not in
\* here: see the properties.
Fairness ==
    /\ WF_vars(Grant)
    /\ \A r \in Requests :
          /\ WF_vars(Continue(r))
          /\ WF_vars(\E rejected \in BOOLEAN : Answer(r, rejected))
          /\ WF_vars(redisUp /\ \E rejected \in BOOLEAN : Reply(r, rejected))

Spec == Init /\ [][Next]_vars /\ Fairness

----------------------------------------------------------------------------
(* Properties.                                                             *)

\* The pool is not overdrawn, an open transaction belongs to a handler that
\* is still inside withTransaction, and only who waits is in the queue, once.
PoolOK ==
    /\ waiting \in Seq(Requests)
    /\ open \subseteq Transactions
    /\ request \in [Requests -> Request]
    /\ InUse <= PoolSize
    /\ ToSet(waiting) = At("begin") \cup At("ask")
    /\ IsInjective(waiting)
    /\ redisUp \in BOOLEAN

WaitsForRedis(r) == request[r].pc = "redis" /\ ~redisUp

\* Every request ends, unless it is itself at a Redis that is away: that
\* others are does not keep it.
RequestsEnd ==
    \A r \in Requests :
        request[r].pc # "idle" ~> request[r].pc = "idle" \/ WaitsForRedis(r)

\* With fewer logins and registrations in flight than there are connections,
\* no timer of the pool or of a transaction is needed for that: some
\* connection is never kept by a transaction, even when Redis goes away under
\* registrations and they keep theirs, and the queries of all can use it in
\* turn.
EndsBelowPoolSize == [](Cardinality(Transactions) < PoolSize) => RequestsEnd

\* With any number of them, the timer of the transactions is enough: each
\* closes under its callback in the end, also while that waits for Redis, and
\* what waits for a connection is served.
EndsByTransactionTimeout ==
    (\A r \in Requests : WF_vars(TransactionTimeout(r))) => RequestsEnd

=============================================================================
