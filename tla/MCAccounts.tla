----------------------------- MODULE MCAccounts -----------------------------
(* Accounts and Listing on small instances; names are interchangeable.     *)
EXTENDS UserRows, TLC

Symmetric == Permutations(Users) \cup Permutations(Emails)
             \cup Permutations(Tokens) \cup Permutations(Requests)

\* Bound: a walk that may both miss and repeat a row is not followed further.
Followed == ~(walking /\ mayMiss /\ mayRepeat)
=============================================================================
