------------------------------ MODULE UserRows ------------------------------
(***************************************************************************)
(* The User rows: the endpoints that write them (Accounts) and the list of *)
(* them, page by page (Listing).                                           *)
(*                                                                         *)
(* A page depends on how many rows there are and how they are ordered, not *)
(* on what an endpoint is about to do.  Listing has the insertion, the     *)
(* deletion and the change of a row as actions of its own, which may come  *)
(* at any time, so no order of the steps of both tells more than each of   *)
(* them alone: a behaviour uses one of them while the other rests as it    *)
(* began.                                                                  *)
(***************************************************************************)
EXTENDS Accounts

CONSTANTS MaxRows, MaxKey, MaxLimit, MaxPage

ASSUME UserRowsAssumption == {MaxRows, MaxKey, MaxLimit, MaxPage} \subseteq Nat

VARIABLES
    sortBy, sortOrder, limit, walking, key, page, pending, data,
    total, seen, done, quiet, there, repeated, mayMiss, mayRepeat

listVars ==
    <<sortBy, sortOrder, limit, walking, key, page, pending, data,
      total, seen, done, quiet, there, repeated, mayMiss, mayRepeat>>

List == INSTANCE Listing

\* One initial state of Listing is enough to rest in.
ListAtRest ==
    /\ sortBy = "createdAt" /\ sortOrder = "desc"
    /\ limit = 1 /\ ~walking /\ DOMAIN key = {}
    /\ List!Init

BothInit == Init /\ List!Init

BothNext ==
    \/ ListAtRest /\ Next /\ UNCHANGED listVars
    \/ Init /\ List!Next /\ UNCHANGED vars

BothSpec == BothInit /\ [][BothNext]_<<vars, listVars>>

\* Without a write during the request a page, its total, totalPages and
\* hasNext are exact: empty table, multiples of the limit and pages past the
\* last one included.
PageExactWhenQuiet == List!PageExactWhenQuiet

\* Following hasNext to its end shows every row that was there all the time,
\* whatever is inserted, unless rows are deleted, moved or tied, or a write
\* falls between the two queries of a request.
WalkComplete == List!WalkComplete

\* It shows no row twice, whatever is deleted, unless a row is inserted,
\* moved or tied.
WalkNoRepeat == List!WalkNoRepeat

=============================================================================
