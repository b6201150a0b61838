------------------------------ MODULE Listing ------------------------------
(***************************************************************************)
(* GET /admin/users page by page: findMany of BaseRepository with the      *)
(* order of userRepository, getUsers, and a client that follows hasNext.   *)
(*                                                                         *)
(* The page and the total are two queries sent together: each sees the     *)
(* table at an instant of its own, and other requests write before,        *)
(* between and after them.  The table holds the rows that match the where  *)
(* clause, so a row that begins to match counts as inserted.  key is the   *)
(* column of the order: rows with equal keys come in any order, and not    *)
(* the same in every query.  Readers do not meet, so there is one.         *)
(***************************************************************************)
EXTENDS Integers, FiniteSets, SequencesExt

CONSTANTS
    MaxRows,   \* bound: rows there can be at once
    MaxKey,    \* bound: values of the order's column
    MaxLimit,  \* bound: page sizes
    MaxPage    \* bound: pages asked for at random

VARIABLES
    sortBy, sortOrder,  \* rigid: the order
    limit,              \* rigid: the page size
    walking,            \* rigid: follow hasNext, or ask for any page
    key,                \* the table: the key of every row there is
    page,               \* the page asked for, or the next one of the walk
    pending,            \* the queries not answered yet
    data, total,        \* their answers
    seen,               \* rows the walk was shown
    done,               \* the walk has come to its end
    \* history
    quiet,              \* no write since the request began
    there,              \* the rows that were there since the walk began
    repeated,           \* the walk was shown a row twice
    mayMiss, mayRepeat  \* during the walk writes came that can make it miss
                        \* a row, or see one twice

rigid == <<sortBy, sortOrder, limit, walking>>
call == <<page, pending, data, total>>
walk == <<seen, done, repeated>>
history == <<quiet, there, mayMiss, mayRepeat>>
vars == <<rigid, key, call, walk, history>>

Rows == DOMAIN key

\* Names of rows; the name of a deleted row may become that of another one.
Ids == 1 .. MaxRows

----------------------------------------------------------------------------
(* findMany.                                                               *)

\* buildOrderByClause; without sortBy it is createdAt desc.
Precedes(a, b) ==
    IF sortOrder = "desc" THEN key[a] > key[b] ELSE key[a] < key[b]

\* The ways the database may put the rows in that order.
Orderings ==
    {o \in SetToSeqs(Rows) :
        \A i, j \in DOMAIN o : Precedes(o[i], o[j]) => i < j}

\* Mutant: pages counted from zero.
SkipFromZero(p) == p * limit
Skip(p) == (p - 1) * limit

\* Mutant: Math.floor.
FullPages(n) == n \div limit
TotalPages(n) == (n + limit - 1) \div limit

HasNext == page < TotalPages(total)

TakeUpTo(o, n) ==
    SubSeq(o, Skip(page) + 1, IF Skip(page) + n < Len(o) THEN Skip(page) + n ELSE Len(o))

\* Mutant: one row more, to see whether there is a next page.
TakeOneMore(o) == TakeUpTo(o, limit + 1)
Take(o) == TakeUpTo(o, limit)

Tied(k) == \E a, b \in DOMAIN k : a # b /\ k[a] = k[b]

----------------------------------------------------------------------------

Init ==
    /\ sortBy \in {"email", "createdAt", "updatedAt"}
    /\ sortOrder \in {"asc", "desc"}
    /\ limit \in 1 .. MaxLimit
    /\ walking \in BOOLEAN
    /\ \E n \in 0 .. MaxRows : key \in [1 .. n -> 1 .. MaxKey]
    /\ \A a, b \in Rows : a < b => key[a] <= key[b]  \* names are arbitrary
    /\ sortBy = "email" => ~Tied(key)
    /\ page = 1
    /\ pending = {}
    /\ data = <<>>
    /\ total = -1
    /\ seen = {}
    /\ done = FALSE
    /\ quiet = TRUE
    /\ there = Rows
    /\ repeated = FALSE
    /\ mayMiss = Tied(key)
    /\ mayRepeat = Tied(key)

\* A page that is a number for the schema (parseInt) and for the handler
\* (Number); both queries are sent.  total is -1 while there is no answer.
Ask(p) ==
    /\ pending = {} /\ total = -1 /\ ~done
    /\ walking => p = page
    /\ page' = p
    /\ pending' = {"page", "count"}
    /\ quiet' = TRUE
    /\ UNCHANGED <<rigid, key, data, total, walk, there, mayMiss, mayRepeat>>

\* "2x" passes the schema and is NaN for the handler: Prisma rejects it, and so
\* it does "1.5" if limit is odd; with an even limit that page, which begins in
\* the middle of one, is left out.
AskNotANumber == pending = {} /\ total = -1 /\ UNCHANGED vars

QueryPage ==
    /\ "page" \in pending
    /\ pending' = pending \ {"page"}
    /\ \E o \in Orderings : data' = Take(o)
    /\ UNCHANGED <<rigid, key, page, total, walk, history>>

QueryCount ==
    /\ "count" \in pending
    /\ pending' = pending \ {"count"}
    /\ total' = Cardinality(Rows)
    /\ UNCHANGED <<rigid, key, page, data, walk, history>>

Answered == pending = {} /\ total >= 0

\* The client reads the answer; a walk goes on as long as hasNext says so.
Answer ==
    /\ Answered
    /\ total' = -1
    /\ data' = <<>>
    /\ IF walking
       THEN /\ seen' = seen \cup ToSet(data)
            /\ repeated' = (repeated \/ seen \cap ToSet(data) # {})
            /\ done' = ~HasNext
            /\ page' = IF HasNext THEN page + 1 ELSE page
       ELSE UNCHANGED <<walk, page>>
    /\ UNCHANGED <<rigid, key, pending, history>>

\* A query fails: 500, and the walk asks for the same page again.
Fault ==
    /\ pending # {}
    /\ pending' = {}
    /\ data' = <<>>
    /\ total' = -1
    /\ UNCHANGED <<rigid, key, page, walk, history>>

----------------------------------------------------------------------------
(* Other requests.                                                         *)

\* A write leaves the keys k; it moves rows out of the way, or into it.  Rows
\* that tie can do both, and a write between the two queries of a request
\* can hide the next page.
Write(k, out, in) ==
    /\ key' = k
    /\ quiet' = FALSE
    /\ there' = there \cap DOMAIN k
    /\ mayMiss' = (mayMiss \/ out \/ Tied(k) \/ Cardinality(pending) = 1)
    /\ mayRepeat' = (mayRepeat \/ in \/ Tied(k))
    /\ UNCHANGED <<rigid, call, walk>>

\* The time columns grow; an address is unique.
NewKey(id, k) ==
    IF sortBy = "email" THEN \A other \in Rows \ {id} : key[other] # k
    ELSE \A other \in Rows : key[other] <= k

Insert(k) ==
    /\ Rows # Ids
    /\ LET id == Min(Ids \ Rows)
       IN  /\ NewKey(id, k)
           /\ Write([other \in Rows \cup {id} |->
                        IF other = id THEN k ELSE key[other]], FALSE, TRUE)

Delete(id) ==
    /\ id \in Rows
    /\ Write([other \in Rows \ {id} |-> key[other]], TRUE, FALSE)

\* A change of the address moves the row, and every update (a failed login
\* too) does when the order is by updatedAt.
Update(id, k) ==
    /\ id \in Rows
    /\ sortBy # "createdAt"
    /\ key[id] # k
    /\ NewKey(id, k)
    /\ Write([key EXCEPT ![id] = k], TRUE, TRUE)

Next ==
    \/ \E p \in 1 .. MaxPage : Ask(p)
    \/ AskNotANumber
    \/ QueryPage
    \/ QueryCount
    \/ Answer
    \/ Fault
    \/ \E k \in 1 .. MaxKey : Insert(k) \/ \E id \in Ids : Update(id, k)
    \/ \E id \in Ids : Delete(id)

Spec == Init /\ [][Next]_vars

----------------------------------------------------------------------------
(* Properties.                                                             *)

\* Without a write during the request the answer is exact, at an empty
\* table, at a multiple of the limit and past the last page too: for some
\* ordering, the rows are those of which the limit divides the rows before
\* them into page - 1 full pages, totalPages is the number of pages with a
\* row on them, and hasNext says whether a later page has one.
PageExactWhenQuiet ==
    Answered /\ quiet =>
        \E o \in Orderings :
            LET PageOf(i) == (i - 1) \div limit + 1 IN
            /\ total = Len(o)
            /\ ToSet(data) = {o[i] : i \in {j \in DOMAIN o : PageOf(j) = page}}
            /\ TotalPages(total) = Cardinality({PageOf(i) : i \in DOMAIN o})
            /\ HasNext <=> \E i \in DOMAIN o : PageOf(i) > page

\* A client that follows hasNext to its end has seen every row that was
\* there all the time, whatever was inserted meanwhile, unless rows were
\* deleted or moved, two rows tied in the order, or a write fell between
\* the two queries of one of its requests.
WalkComplete == done /\ ~mayMiss => there \subseteq seen

\* It sees no row twice, whatever is deleted meanwhile, unless a row was
\* inserted or moved, or two rows tied.
WalkNoRepeat == ~mayRepeat => ~repeated

=============================================================================
