------------------------------- MODULE MCRbac -------------------------------
(* Rbac on small instances.  Ids not drawn yet, permissions and requests   *)
(* are interchangeable; the first administrator and its role are not.      *)
EXTENDS Rbac, TLC

Symmetric == Permutations(RoleIds \ {RootRole}) \cup Permutations(PermissionIds)
             \cup Permutations(Requests)
=============================================================================
