------------------------------ MODULE MCLogin ------------------------------
(* Login on small instances.  Requests are interchangeable, and so are     *)
(* passwords and agents: no definition tells one from another.             *)
EXTENDS Login, TLC

Symmetric == Permutations(Requests) \cup Permutations(Passwords)
             \cup Permutations(Agents)
=============================================================================
