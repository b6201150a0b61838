----------------------- MODULE ConnectionPool_proofs -----------------------
(***************************************************************************)
(* The pool of ConnectionPool is never overdrawn, for every number of      *)
(* requests, connections and calls.                                        *)
(***************************************************************************)
EXTENDS ConnectionPool, FiniteSetTheorems, SequenceTheorems, TLAPS

USE PoolAssumption DEF PoolAssumption

\* What joining at the end, leaving at the head and leaving from any place do
\* to a queue in which nobody stands twice.
LEMMA AppendQueue ==
  ASSUME NEW S, NEW s \in Seq(S), NEW e \in S, e \notin ToSet(s), IsInjective(s)
  PROVE  /\ Append(s, e) \in Seq(S)
         /\ IsInjective(Append(s, e))
         /\ ToSet(Append(s, e)) = ToSet(s) \cup {e}
<1>1. /\ Append(s, e) \in Seq(S)
      /\ DOMAIN Append(s, e) = 1 .. Len(s) + 1
      /\ DOMAIN s = 1 .. Len(s) /\ Len(s) \in Nat
      /\ \A i \in 1 .. Len(s) : Append(s, e)[i] = s[i]
      /\ Append(s, e)[Len(s) + 1] = e
  OBVIOUS
<1> QED BY <1>1 DEF IsInjective, ToSet

LEMMA TailQueue ==
  ASSUME NEW S, NEW s \in Seq(S), s # <<>>, IsInjective(s)
  PROVE  /\ Head(s) \in ToSet(s)
         /\ Tail(s) \in Seq(S)
         /\ IsInjective(Tail(s))
         /\ ToSet(Tail(s)) = ToSet(s) \ {Head(s)}
<1>1. /\ Tail(s) \in Seq(S)
      /\ Len(s) \in Nat \ {0}
      /\ DOMAIN Tail(s) = 1 .. Len(s) - 1
      /\ DOMAIN s = 1 .. Len(s) 
      /\ \A i \in 1 .. Len(s) - 1 : Tail(s)[i] = s[i + 1]
      /\ Head(s) = s[1]
  OBVIOUS
<1>3. IsInjective(Tail(s))
  BY <1>1 DEF IsInjective
<1>4. ToSet(Tail(s)) = ToSet(s) \ {Head(s)}
  <2>1. ASSUME NEW i \in 1 .. Len(s) - 1 PROVE Tail(s)[i] \in ToSet(s) \ {Head(s)}
    BY <1>1 DEF IsInjective, ToSet
  <2>2. ASSUME NEW i \in 1 .. Len(s), s[i] # Head(s) PROVE s[i] \in ToSet(Tail(s))
    <3>1. i - 1 \in 1 .. Len(s) - 1 /\ (i - 1) + 1 = i
      BY <1>1, <2>2
    <3> QED BY <1>1, <3>1 DEF ToSet
  <2>3. ToSet(Tail(s)) \subseteq ToSet(s) \ {Head(s)}
    BY <1>1, <2>1 DEF ToSet
  <2>4. ToSet(s) \ {Head(s)} \subseteq ToSet(Tail(s))
    BY <1>1, <2>2 DEF ToSet
  <2> QED BY <2>3, <2>4
<1>5. 1 \in DOMAIN s
  BY <1>1
<1> QED BY <1>1, <1>3, <1>4, <1>5 DEF ToSet

LEMMA RemoveQueue ==
  ASSUME NEW S, NEW s \in Seq(S), NEW i \in DOMAIN s, IsInjective(s)
  PROVE  /\ RemoveAt(s, i) \in Seq(S)
         /\ IsInjective(RemoveAt(s, i))
         /\ ToSet(RemoveAt(s, i)) = ToSet(s) \ {s[i]}
<1> DEFINE t == RemoveAt(s, i)
<1>1. DOMAIN s = 1 .. Len(s) /\ Len(s) \in Nat /\ i \in 1 .. Len(s)
  OBVIOUS
<1> DEFINE a == SubSeq(s, 1, i - 1)
           b == SubSeq(s, i + 1, Len(s))
<1>2. /\ a \in Seq(S) /\ Len(a) = i - 1
      /\ \A j \in 1 .. i - 1 : a[j] = s[j]
  BY <1>1
<1>3. /\ b \in Seq(S) /\ Len(b) = Len(s) - i
      /\ \A j \in 1 .. Len(s) - i : b[j] = s[j + i]
  <2> DEFINE m == i + 1
             n == Len(s)
  <2>1. m \in Int /\ n \in Int /\ n - m + 1 = n - i /\ m \in Nat
        /\ \A j \in 1 .. n - i : m + j - 1 = j + i
    BY <1>1
  <2>2. \A j \in m .. n : s[j] \in S
    BY <1>1
  <2> HIDE DEF m, n
  <2>3. /\ SubSeq(s, m, n) \in Seq(S)
        /\ Len(SubSeq(s, m, n)) = IF m <= n THEN n - m + 1 ELSE 0
        /\ \A j \in 1 .. n - m + 1 : SubSeq(s, m, n)[j] = s[m + j - 1]
    BY <2>1, <2>2, SubSeqProperties
  <2>4. b = SubSeq(s, m, n)
    BY DEF m, n
  <2>5. (IF m <= n THEN n - m + 1 ELSE 0) = n - i /\ n = Len(s)
    BY <1>1 DEF m, n
  <2> HIDE DEF b
  <2> QED BY <2>1, <2>3, <2>4, <2>5
<1>4. t = a \o b
  BY DEF RemoveAt
<1> HIDE DEF t, a, b
<1>5. /\ t \in Seq(S) /\ DOMAIN t = 1 .. Len(s) - 1
      /\ \A j \in 1 .. Len(s) - 1 : t[j] = IF j < i THEN s[j] ELSE s[j + 1]
  <2>0. /\ t \in Seq(S) /\ Len(t) = Len(a) + Len(b)
        /\ \A j \in 1 .. Len(a) + Len(b) :
              t[j] = IF j <= Len(a) THEN a[j] ELSE b[j - Len(a)]
    BY <1>2, <1>3, <1>4, ConcatProperties
  <2>1. t \in Seq(S) /\ Len(t) = Len(s) - 1
    BY <1>1, <1>2, <1>3, <2>0
  <2>2. ASSUME NEW j \in 1 .. Len(s) - 1
        PROVE  t[j] = IF j < i THEN s[j] ELSE s[j + 1]
    <3>1. CASE j < i
      <4>1. j \in 1 .. i - 1 /\ j \in 1 .. Len(a) + Len(b) /\ j <= Len(a)
        BY <1>1, <1>2, <1>3, <3>1
      <4>2. t[j] = a[j] /\ a[j] = s[j]
        BY <1>2, <2>0, <4>1
      <4> QED BY <3>1, <4>2
    <3>2. CASE j >= i
      <4>9. Len(a) = i - 1 /\ Len(b) = Len(s) - i
        BY <1>2, <1>3
      <4>8. /\ j - (i - 1) \in 1 .. Len(s) - i /\ ~(j <= i - 1)
            /\ j \in 1 .. (i - 1) + (Len(s) - i)
        BY <1>1, <3>2
      <4>0. j - (i - 1) \in 1 .. Len(s) - i /\ j \in 1 .. Len(a) + Len(b)
            /\ ~(j <= Len(a)) /\ Len(a) = i - 1
        BY <4>8, <4>9
      <4>1. t[j] = b[j - (i - 1)] /\ j - (i - 1) \in 1 .. Len(s) - i
        BY <2>0, <4>0
      <4>2. (j - (i - 1)) + i = j + 1
        BY <1>1
      <4>3. b[j - (i - 1)] = s[(j - (i - 1)) + i]
        BY <1>3, <4>1
      <4> QED BY <1>1, <3>2, <4>1, <4>2, <4>3
    <3> QED BY <1>1, <3>1, <3>2
  <2> QED BY <2>1, <2>2
<1>6. IsInjective(t)
  <2> SUFFICES ASSUME NEW j \in 1 .. Len(s) - 1, NEW k \in 1 .. Len(s) - 1,
                      t[j] = t[k]
               PROVE  j = k
    BY <1>5 DEF IsInjective
  <2> DEFINE at(n) == IF n < i THEN n ELSE n + 1
  <2>1. t[j] = s[at(j)] /\ t[k] = s[at(k)]
    BY <1>5
  <2>2. at(j) \in 1 .. Len(s) /\ at(k) \in 1 .. Len(s)
    BY <1>1
  <2>3. at(j) = at(k)
    BY <1>1, <2>1, <2>2 DEF IsInjective
  <2> QED BY <1>1, <2>3
<1>7. ToSet(t) = ToSet(s) \ {s[i]}
  <2>1. ASSUME NEW j \in 1 .. Len(s) - 1 PROVE t[j] \in ToSet(s) \ {s[i]}
    <3> DEFINE n == IF j < i THEN j ELSE j + 1
    <3>1. n \in DOMAIN s /\ n # i /\ i \in DOMAIN s
      BY <1>1
    <3>2. t[j] = s[n]
      BY <1>5
    <3> HIDE DEF n
    <3>3. s[n] # s[i]
      BY <3>1 DEF IsInjective
    <3> QED BY <3>1, <3>2, <3>3 DEF ToSet
  <2>2. ASSUME NEW j \in 1 .. Len(s), s[j] # s[i] PROVE s[j] \in ToSet(t)
    <3>1. CASE j < i
      BY <1>1, <1>5, <3>1 DEF ToSet
    <3>2. CASE j > i
      <4>1. j - 1 \in 1 .. Len(s) - 1 /\ t[j - 1] = s[j]
        BY <1>1, <1>5, <3>2
      <4> QED BY <1>5, <4>1 DEF ToSet
    <3> QED BY <1>1, <2>2, <3>1, <3>2
  <2>3. ToSet(t) \subseteq ToSet(s) \ {s[i]}
    BY <1>5, <2>1 DEF ToSet
  <2>4. ToSet(s) \ {s[i]} \subseteq ToSet(t)
    BY <1>1, <2>2 DEF ToSet
  <2> QED BY <2>3, <2>4
<1> QED BY <1>5, <1>6, <1>7 DEF t

----------------------------------------------------------------------------
(* PoolOK does not say enough of a request to be inductive: that a request  *)
(* which begins is inside withTransaction and holds no connection yet, that *)
(* one at rest has left it, and that a call was one of those left.          *)

PhasesOK ==
    \A r \in Requests :
        /\ request[r].pc = "idle" => ~request[r].tx
        /\ request[r].pc = "begin" => request[r].tx /\ r \notin open
        /\ request[r].pc \in {"ask", "query", "own", "redis"} => request[r].left > 0

PoolInv == PoolOK /\ PhasesOK

\* One request becomes q: who is where, and who is inside withTransaction.
LEMMA MoveOne ==
  ASSUME request \in [Requests -> Request], NEW r \in Requests, NEW q \in Request,
         request' = [request EXCEPT ![r] = q]
  PROVE  /\ request' \in [Requests -> Request]
         /\ \A s \in Requests : request'[s] = IF s = r THEN q ELSE request[s]
         /\ \A l : At(l)' = IF q.pc = l THEN At(l) \cup {r} ELSE At(l) \ {r}
         /\ Transactions' = IF q.tx THEN Transactions \cup {r}
                                    ELSE Transactions \ {r}
<1>1. /\ request' \in [Requests -> Request]
      /\ \A s \in Requests : request'[s] = IF s = r THEN q ELSE request[s]
  OBVIOUS
<1>2. ASSUME NEW l
      PROVE  At(l)' = IF q.pc = l THEN At(l) \cup {r} ELSE At(l) \ {r}
  BY <1>1 DEF At
<1>3. Transactions' = IF q.tx THEN Transactions \cup {r} ELSE Transactions \ {r}
  BY <1>1 DEF Transactions
<1> QED BY <1>1, <1>2, <1>3

\* No new connection in use, none too many.
LEMMA FewerInUse ==
  ASSUME PoolOK, open' \subseteq open, At("query")' \subseteq At("query")
  PROVE  (InUse <= PoolSize)'
<1>1. IsFiniteSet(open) /\ IsFiniteSet(At("query"))
  BY FS_Subset DEF PoolOK, Transactions, At
<1>2. /\ Cardinality(open') \in Nat /\ Cardinality(open') <= Cardinality(open)
      /\ Cardinality(At("query")') \in Nat
      /\ Cardinality(At("query")') <= Cardinality(At("query"))
  BY <1>1, FS_Subset, FS_CardinalityType
<1>3. Cardinality(open) \in Nat /\ Cardinality(At("query")) \in Nat
  BY <1>1, FS_CardinalityType
<1> QED BY <1>2, <1>3 DEF PoolOK, InUse

LEMMA OneMoreInUse ==
  ASSUME PoolOK, InUse < PoolSize, NEW r,
         \/ open' = open \cup {r} /\ At("query")' \subseteq At("query")
         \/ open' = open /\ At("query")' = At("query") \cup {r}
  PROVE  (InUse <= PoolSize)'
<1>1. IsFiniteSet(open) /\ IsFiniteSet(At("query"))
  BY FS_Subset DEF PoolOK, Transactions, At
<1>2. Cardinality(open) \in Nat /\ Cardinality(At("query")) \in Nat
  BY <1>1, FS_CardinalityType
<1>3. CASE open' = open \cup {r} /\ At("query")' \subseteq At("query")
  <2>1. Cardinality(open') \in Nat /\ Cardinality(open') <= Cardinality(open) + 1
    <3>1. IsFiniteSet(open \cup {r}) /\ Cardinality(open \cup {r})
             = IF r \in open THEN Cardinality(open) ELSE Cardinality(open) + 1
      BY <1>1, FS_AddElement
    <3> QED BY <1>2, <1>3, <3>1
  <2>2. /\ Cardinality(At("query")') \in Nat
        /\ Cardinality(At("query")') <= Cardinality(At("query"))
    BY <1>1, <1>3, FS_Subset, FS_CardinalityType
  <2> QED BY <1>2, <2>1, <2>2 DEF InUse
<1>4. CASE open' = open /\ At("query")' = At("query") \cup {r}
  <2>1. /\ Cardinality(At("query")') \in Nat
        /\ Cardinality(At("query")') <= Cardinality(At("query")) + 1
    <3> DEFINE A == At("query")
    <3>1. IsFiniteSet(A \cup {r}) /\ Cardinality(A \cup {r})
             = IF r \in A THEN Cardinality(A) ELSE Cardinality(A) + 1
      BY <1>1, FS_AddElement
    <3> QED BY <1>2, <1>4, <3>1
  <2> QED BY <1>2, <1>4, <2>1 DEF InUse
<1> QED BY <1>3, <1>4

LEMMA PoolNext == PoolInv /\ [Next]_vars => PoolInv'
<1> SUFFICES ASSUME PoolInv, [Next]_vars PROVE PoolInv'
  OBVIOUS
<1>0. /\ PoolOK /\ PhasesOK
      /\ waiting \in Seq(Requests)
      /\ request \in [Requests -> Request]
      /\ open \subseteq Transactions
      /\ ToSet(waiting) = At("begin") \cup At("ask")
      /\ IsInjective(waiting)
      /\ \A r \in Requests : request[r] \in Request
  BY DEF PoolInv, PoolOK
<1>r. redisUp' \in BOOLEAN
  <2>1. redisUp \in BOOLEAN
    BY DEF PoolInv, PoolOK
  <2>2. redisUp' \in {redisUp, ~redisUp}
    BY Zenon DEF Next, vars, WithTransaction, Handle, Ask, AskTransaction, Answer,
       Command, Reply, Return, End, BeginTimeout, TransactionTimeout, QueryTimeout,
       Grant, RedisGoesOrComes
  <2> QED BY <2>1, <2>2
<1>1. ASSUME NEW r \in Requests, NEW n \in 1 .. MaxCalls, WithTransaction(r, n)
      PROVE  PoolInv'
  <2> DEFINE q == [pc |-> "begin", left |-> n, tx |-> TRUE]
  <2>1. /\ request' = [request EXCEPT ![r] = q] /\ request[r].pc = "idle"
        /\ waiting' = Append(waiting, r) /\ open' = open
    BY <1>1 DEF WithTransaction, Enqueue
  <2>2. q \in Request /\ q.pc = "begin" /\ q.tx
    BY DEF Request, Labels
  <2> HIDE DEF q
  <2>3. r \notin ToSet(waiting) /\ r \notin open
    BY <1>0, <2>1 DEF At, PhasesOK, Transactions
  <2>4. /\ waiting' \in Seq(Requests)
        /\ ToSet(waiting') = ToSet(waiting) \cup {r}
        /\ IsInjective(waiting')
    BY <1>0, <2>1, <2>3, AppendQueue
  <2>5. /\ request' \in [Requests -> Request]
        /\ \A s \in Requests : request'[s] = IF s = r THEN q ELSE request[s]
        /\ At("begin")' = At("begin") \cup {r}
        /\ At("ask")' = At("ask") \ {r}
        /\ At("query")' = At("query") \ {r}
        /\ Transactions' = Transactions \cup {r}
    BY <1>0, <2>1, <2>2, MoveOne
  <2>6. ToSet(waiting') = At("begin")' \cup At("ask")'
    BY <1>0, <2>3, <2>4, <2>5
  <2>7. (InUse <= PoolSize)'
    BY <1>0, <2>1, <2>5, FewerInUse
  <2>8. PhasesOK'
    BY <1>0, <2>1, <2>2, <2>3, <2>5 DEF PhasesOK
  <2> QED BY <1>0, <1>r, <2>1, <2>4, <2>5, <2>6, <2>7, <2>8 DEF PoolInv, PoolOK
\* The request was and is where nobody waits for a connection, and no query
\* takes one of its own.
<1>2. ASSUME NEW r \in Requests, NEW q \in Request,
             request' = [request EXCEPT ![r] = q],
             request[r].pc \in {"idle", "run", "query", "own", "redis"},
             q.pc \in {"idle", "run", "own", "redis"}, q.pc = "idle" => ~q.tx,
             q.pc \in {"own", "redis"} => q.left > 0,
             waiting' = waiting, open' \subseteq open,
             r \in open' => q.tx
      PROVE  PoolInv'
  <2>1. /\ request' \in [Requests -> Request]
        /\ \A s \in Requests : request'[s] = IF s = r THEN q ELSE request[s]
        /\ At("begin")' = At("begin") \ {r}
        /\ At("ask")' = At("ask") \ {r}
        /\ At("query")' = At("query") \ {r}
        /\ Transactions' = IF q.tx THEN Transactions \cup {r}
                                   ELSE Transactions \ {r}
    <3>1. /\ request' \in [Requests -> Request]
          /\ \A s \in Requests : request'[s] = IF s = r THEN q ELSE request[s]
          /\ \A l : At(l)' = IF q.pc = l THEN At(l) \cup {r} ELSE At(l) \ {r}
          /\ Transactions' = IF q.tx THEN Transactions \cup {r}
                                     ELSE Transactions \ {r}
      BY <1>0, <1>2, MoveOne
    <3>2. q.pc # "begin" /\ q.pc # "ask" /\ q.pc # "query"
      BY <1>2
    <3> QED BY <3>1, <3>2
  <2>2. r \notin At("begin") /\ r \notin At("ask")
    BY <1>2 DEF At
  <2>3. (InUse <= PoolSize)'
    BY <1>0, <1>2, <2>1, FewerInUse
  <2>4. PhasesOK'
    BY <1>0, <1>2, <2>1 DEF PhasesOK
  <2>5. open' \subseteq Transactions'
    BY <1>0, <1>2, <2>1
  <2> QED BY <1>0, <1>r, <1>2, <2>1, <2>2, <2>3, <2>4, <2>5 DEF PoolInv, PoolOK
<1>3. ASSUME NEW r \in Requests, NEW n \in 1 .. MaxCalls, Handle(r, n)
      PROVE  PoolInv'
  <2> DEFINE q == [pc |-> "run", left |-> n, tx |-> FALSE]
  <2>1. q \in Request /\ q.pc = "run" /\ r \notin open
    BY <1>0, <1>3 DEF Handle, Request, Labels, PhasesOK, Transactions
  <2>2. /\ request' = [request EXCEPT ![r] = q] /\ request[r].pc = "idle"
        /\ waiting' = waiting /\ open' = open
    BY <1>3 DEF Handle
  <2> HIDE DEF q
  <2> QED BY <1>2, <2>1, <2>2
<1>4. ASSUME NEW r \in Requests, Ask(r) PROVE PoolInv'
  <2> DEFINE q == [request[r] EXCEPT !.pc = "ask"]
  <2>1. /\ request' = [request EXCEPT ![r] = q]
        /\ request[r].pc = "run" /\ request[r].left > 0
        /\ waiting' = Append(waiting, r) /\ open' = open
    BY <1>0, <1>4 DEF Ask, GoTo, Enqueue
  <2>2. /\ q \in Request /\ q.pc = "ask"
        /\ q.tx = request[r].tx /\ q.left = request[r].left
    BY <1>0 DEF Request, Labels
  <2> HIDE DEF q
  <2>3. r \notin ToSet(waiting)
    BY <1>0, <2>1 DEF At
  <2>4. /\ waiting' \in Seq(Requests)
        /\ ToSet(waiting') = ToSet(waiting) \cup {r}
        /\ IsInjective(waiting')
    BY <1>0, <2>1, <2>3, AppendQueue
  <2>5. /\ request' \in [Requests -> Request]
        /\ \A s \in Requests : request'[s] = IF s = r THEN q ELSE request[s]
        /\ At("begin")' = At("begin") \ {r}
        /\ At("ask")' = At("ask") \cup {r}
        /\ At("query")' = At("query") \ {r}
        /\ Transactions' = IF q.tx THEN Transactions \cup {r}
                                   ELSE Transactions \ {r}
    BY <1>0, <2>1, <2>2, MoveOne
  <2>6. ToSet(waiting') = At("begin")' \cup At("ask")'
    BY <1>0, <2>3, <2>4, <2>5
  <2>7. (InUse <= PoolSize)'
    BY <1>0, <2>1, <2>5, FewerInUse
  <2>8. PhasesOK' /\ open' \subseteq Transactions'
    BY <1>0, <2>1, <2>2, <2>5 DEF PhasesOK, Transactions
  <2> QED BY <1>0, <1>r, <2>1, <2>4, <2>5, <2>6, <2>7, <2>8 DEF PoolInv, PoolOK
\* A call is over, rejected or not.
<1>5. ASSUME NEW r \in Requests, NEW rejected \in BOOLEAN, Return(r, rejected),
             request[r].pc \in {"query", "own", "redis"}
      PROVE  PoolInv'
  <2> DEFINE left == IF rejected THEN 0 ELSE request[r].left - 1
             q == [request[r] EXCEPT !.pc = "run", !.left = left]
  <2>1. /\ request' = [request EXCEPT ![r] = q]
        /\ waiting' = waiting /\ open' = open
    BY <1>0, <1>5 DEF Return
  <2>2. left \in 0 .. MaxCalls
    BY <1>0, <1>5 DEF PhasesOK, Request
  <2>3. q \in Request /\ q.pc = "run" /\ q.tx = request[r].tx
    BY <1>0, <2>2 DEF Request, Labels
  <2> HIDE DEF q
  <2>4. r \in open => q.tx
    BY <1>0, <2>3 DEF Transactions
  <2> QED BY <1>2, <1>5, <2>1, <2>3, <2>4
<1>13. ASSUME NEW r \in Requests, NEW rejected \in BOOLEAN,
              Answer(r, rejected) \/ Reply(r, rejected)
       PROVE  PoolInv'
  BY <1>5, <1>13 DEF Answer, Reply
<1>14. ASSUME NEW r \in Requests, AskTransaction(r) PROVE PoolInv'
  <2> DEFINE left == IF r \in open THEN request[r].left ELSE 0
             label == IF r \in open THEN "own" ELSE "run"
             q == [request[r] EXCEPT !.pc = label, !.left = left]
  <2>1. /\ request' = [request EXCEPT ![r] = q] /\ request[r].pc = "run"
        /\ request[r].left > 0 /\ request[r].tx
        /\ waiting' = waiting /\ open' = open
    BY <1>0, <1>14 DEF AskTransaction
  <2>2. left \in 0 .. MaxCalls
    BY <1>0 DEF Request
  <2>3. q \in Request /\ q.pc = label /\ q.tx /\ q.left = left
    BY <1>0, <2>1, <2>2 DEF Request, Labels
  <2>4. q.pc \in {"run", "own"} /\ (q.pc = "own" => q.left > 0)
    BY <2>1, <2>3
  <2> HIDE DEF q
  <2> QED BY <1>2, <2>1, <2>3, <2>4
<1>15. ASSUME NEW r \in Requests, Command(r) PROVE PoolInv'
  <2> DEFINE q == [request[r] EXCEPT !.pc = "redis"]
  <2>1. /\ request' = [request EXCEPT ![r] = q] /\ request[r].pc = "run"
        /\ request[r].left > 0 /\ waiting' = waiting /\ open' = open
    BY <1>0, <1>15 DEF Command, GoTo
  <2>2. /\ q \in Request /\ q.pc = "redis"
        /\ q.tx = request[r].tx /\ q.left = request[r].left
    BY <1>0 DEF Request, Labels
  <2> HIDE DEF q
  <2>3. r \in open => q.tx
    BY <1>0, <2>2 DEF Transactions
  <2> QED BY <1>2, <2>1, <2>2, <2>3
<1>6. ASSUME NEW r \in Requests, End(r) PROVE PoolInv'
  <2>1. Idle \in Request /\ Idle.pc = "idle" /\ ~Idle.tx
    BY DEF Idle, Request, Labels
  <2>2. /\ request' = [request EXCEPT ![r] = Idle] /\ request[r].pc = "run"
        /\ waiting' = waiting /\ open' = open \ {r}
    BY <1>6 DEF End, Finish
  <2> QED BY <1>2, <2>1, <2>2
\* Who leaves the queue before the turn comes, because of a timer.
<1>7. ASSUME NEW r \in Requests, NEW q \in Request,
             request' = [request EXCEPT ![r] = q], Dequeue(r), open' = open,
             q.pc \in {"idle", "run"}, q.pc = "idle" => ~q.tx, r \notin open
      PROVE  PoolInv'
  <2>1. PICK i \in DOMAIN waiting : /\ waiting[i] = r
                                    /\ waiting' = RemoveAt(waiting, i)
    BY <1>7 DEF Dequeue
  <2>2. /\ waiting' \in Seq(Requests)
        /\ ToSet(waiting') = ToSet(waiting) \ {r}
        /\ IsInjective(waiting')
    BY <1>0, <2>1, RemoveQueue
  <2>3. /\ request' \in [Requests -> Request]
        /\ \A s \in Requests : request'[s] = IF s = r THEN q ELSE request[s]
        /\ At("begin")' = At("begin") \ {r}
        /\ At("ask")' = At("ask") \ {r}
        /\ At("query")' = At("query") \ {r}
        /\ Transactions' = IF q.tx THEN Transactions \cup {r}
                                   ELSE Transactions \ {r}
    BY <1>0, <1>7, MoveOne
  <2>4. (InUse <= PoolSize)'
    BY <1>0, <1>7, <2>3, FewerInUse
  <2>5. PhasesOK' /\ open' \subseteq Transactions'
    BY <1>0, <1>7, <2>3 DEF PhasesOK
  <2> QED BY <1>0, <1>r, <2>2, <2>3, <2>4, <2>5 DEF PoolInv, PoolOK
<1>8. ASSUME NEW r \in Requests, BeginTimeout(r) PROVE PoolInv'
  <2>1. Idle \in Request /\ Idle.pc = "idle" /\ ~Idle.tx
    BY DEF Idle, Request, Labels
  <2>2. /\ request' = [request EXCEPT ![r] = Idle] /\ Dequeue(r) /\ open' = open
        /\ r \notin open
    BY <1>0, <1>8 DEF BeginTimeout, Finish, PhasesOK
  <2> QED BY <1>7, <2>1, <2>2
<1>9. ASSUME NEW r \in Requests, QueryTimeout(r) PROVE PoolInv'
  <2> DEFINE q == [request[r] EXCEPT !.pc = "run", !.left = 0]
  <2>1. /\ request' = [request EXCEPT ![r] = q] /\ Dequeue(r) /\ open' = open
        /\ r \notin open
    BY <1>0, <1>9 DEF QueryTimeout
  <2>2. q \in Request /\ q.pc = "run"
    <3>1. request[r] \in Request /\ 0 \in 0 .. MaxCalls
      BY <1>0
    <3> QED BY <3>1 DEF Request, Labels
  <2> HIDE DEF q
  <2> QED BY <1>7, <2>1, <2>2
<1>10. ASSUME NEW r \in Requests, TransactionTimeout(r) PROVE PoolInv'
  <2>1. /\ open' = open \ {r} /\ UNCHANGED <<waiting, request>>
    BY <1>10 DEF TransactionTimeout
  <2>2. UNCHANGED <<At("begin"), At("ask"), At("query"), Transactions>>
    BY <2>1 DEF At, Transactions
  <2>3. (InUse <= PoolSize)'
    BY <1>0, <2>1, <2>2, FewerInUse
  <2>4. PhasesOK'
    BY <1>0, <2>1 DEF PhasesOK
  <2> QED BY <1>0, <1>r, <2>1, <2>2, <2>3, <2>4 DEF PoolInv, PoolOK
<1>11. CASE Grant
  <2>1. PICK r \in Requests : r = Head(waiting)
    BY <1>0, <1>11, TailQueue DEF Grant, At
  <2>2. /\ waiting # <<>> /\ InUse < PoolSize /\ waiting' = Tail(waiting)
        /\ IF request[r].pc = "begin"
           THEN GoTo(r, "run") /\ open' = open \cup {r}
           ELSE GoTo(r, "query") /\ open' = open
    BY <1>11, <2>1 DEF Grant
  <2>3. /\ r \in ToSet(waiting) /\ waiting' \in Seq(Requests)
        /\ ToSet(waiting') = ToSet(waiting) \ {r}
        /\ IsInjective(waiting')
    BY <1>0, <2>1, <2>2, TailQueue
  <2>4. request[r].pc \in {"begin", "ask"}
    BY <1>0, <2>3 DEF At
  <2> DEFINE label == IF request[r].pc = "begin" THEN "run" ELSE "query"
             q == [request[r] EXCEPT !.pc = label]
  <2>5. request' = [request EXCEPT ![r] = q]
    BY <1>0, <2>2 DEF GoTo
  <2>6. /\ q \in Request /\ q.pc = label
        /\ q.tx = request[r].tx /\ q.left = request[r].left
    BY <1>0 DEF Request, Labels
  <2> HIDE DEF q
  <2>7. /\ request' \in [Requests -> Request]
        /\ \A s \in Requests : request'[s] = IF s = r THEN q ELSE request[s]
        /\ \A l : At(l)' = IF q.pc = l THEN At(l) \cup {r} ELSE At(l) \ {r}
        /\ Transactions' = IF q.tx THEN Transactions \cup {r}
                                   ELSE Transactions \ {r}
    BY <1>0, <2>5, <2>6, MoveOne
  <2>8. At("begin")' = At("begin") \ {r} /\ At("ask")' = At("ask") \ {r}
    BY <2>6, <2>7
  <2>9. \/ open' = open \cup {r} /\ At("query")' \subseteq At("query")
        \/ open' = open /\ At("query")' = At("query") \cup {r}
    BY <2>2, <2>6, <2>7
  <2>10. (InUse <= PoolSize)'
    BY <1>0, <2>2, <2>9, OneMoreInUse
  <2>11. PhasesOK'
    BY <1>0, <2>2, <2>4, <2>6, <2>7 DEF PhasesOK
  <2>12. open' \subseteq Transactions'
    BY <1>0, <2>2, <2>6, <2>7 DEF PhasesOK, Transactions
  <2> QED BY <1>0, <1>r, <2>3, <2>7, <2>8, <2>10, <2>11, <2>12 DEF PoolInv, PoolOK
<1>12. CASE UNCHANGED <<waiting, open, request>>
  <2>1. (PoolOK /\ PhasesOK) => PoolOK' /\ PhasesOK'
    BY <1>12, <1>r DEF PoolOK, PhasesOK, InUse, At, Transactions
  <2> QED BY <1>0, <2>1 DEF PoolInv
<1>16. RedisGoesOrComes => UNCHANGED <<waiting, open, request>>
  BY DEF RedisGoesOrComes
<1>17. UNCHANGED vars => UNCHANGED <<waiting, open, request>>
  BY DEF vars
<1> QED
  BY <1>1, <1>3, <1>4, <1>6, <1>8, <1>9, <1>10, <1>11, <1>12, <1>13, <1>14, <1>15,
     <1>16, <1>17 DEF Next

\* However logins, registrations and other handlers ask for connections, and
\* whichever timers fire under them: the pool never gives out more than it
\* has, a connection is never kept for a handler that has left its
\* transaction, and the queue holds exactly those that wait.
THEOREM PoolAlwaysOK == Spec => []PoolOK
<1>1. Init => PoolInv
  <2> SUFFICES ASSUME Init PROVE PoolInv
    OBVIOUS
  <2>1. /\ request \in [Requests -> Request]
        /\ \A r \in Requests : request[r].pc = "idle" /\ ~request[r].tx
    BY DEF Init, Idle, Request, Labels
  <2>2. /\ waiting \in Seq(Requests) /\ ToSet(waiting) = {} /\ IsInjective(waiting)
        /\ open = {}
    BY DEF Init, ToSet, IsInjective
  <2>3. At("begin") = {} /\ At("ask") = {} /\ At("query") = {}
    BY <2>1 DEF At
  <2>4. InUse = 0
    <3>1. Cardinality({}) = 0
      BY FS_EmptySet
    <3>2. Cardinality(open) = 0 /\ Cardinality(At("query")) = 0
      BY <2>2, <2>3, <3>1, Zenon
    <3> QED BY <3>2 DEF InUse
  <2>5. redisUp \in BOOLEAN
    BY DEF Init
  <2> QED BY <2>1, <2>2, <2>3, <2>4, <2>5 DEF PoolInv, PoolOK, PhasesOK
<1>2. PoolInv => PoolOK
  BY DEF PoolInv
<1> QED BY <1>1, <1>2, PoolNext, PTL DEF Spec

=============================================================================
