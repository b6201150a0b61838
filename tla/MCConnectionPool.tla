-------------------------- MODULE MCConnectionPool --------------------------
(* ConnectionPool on small instances; liveness is checked, so that no      *)
(* symmetry is declared.                                                   *)
EXTENDS ConnectionPool
=============================================================================
