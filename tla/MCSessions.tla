----------------------------- MODULE MCSessions -----------------------------
(* Sessions on small instances.  Ids and requests are interchangeable, and *)
(* so are users where none is pinned.                                      *)
EXTENDS Sessions, TLC

Symmetric == Permutations(SessionIds) \cup Permutations(Requests)
             \cup Permutations(Users)
=============================================================================
