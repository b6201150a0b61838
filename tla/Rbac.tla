-------------------------------- MODULE Rbac --------------------------------
(***************************************************************************)
(* Roles and permissions: the tables Role, Permission, UserRole and        *)
(* RolePermission, and the endpoints of administrators that change them or *)
(* delete users.  Every endpoint is behind requireRole("admin"), and most  *)
(* of them look a name up and then act on the id they found, one query     *)
(* after the other, without a transaction.                                 *)
(*                                                                         *)
(* The foreign keys of UserRole and RolePermission restrict: a row that is *)
(* referred to is not deleted, a row that is not there is not referred to. *)
(***************************************************************************)
EXTENDS Naturals, FiniteSets

CONSTANTS
    Users,
    RoleIds, PermissionIds,      \* uuids: each is drawn once
    RoleNames, PermissionNames,
    Admin,                       \* the role that requireRole asks for
    Root, RootRole,              \* the first administrator and its role
    Requests,                    \* requests that can be in flight at once
    None

ASSUME RbacAssumption ==
    /\ Admin \in RoleNames /\ Root \in Users /\ RootRole \in RoleIds
    /\ None \notin Users \cup RoleIds \cup PermissionIds
    /\ None \notin RoleNames \cup PermissionNames
    /\ Users \cap RoleIds = {} /\ Users \cap PermissionIds = {}
    /\ RoleIds \cap PermissionIds = {}

VARIABLES
    users,            \* User rows
    roles,            \* Role rows
    roleName,         \* their names; None for an id not drawn yet
    permissions,      \* Permission rows
    permissionName,   \* their names; None for an id not drawn yet
    userRoles,        \* UserRole rows, as <<user, role>>
    rolePermissions,  \* RolePermission rows, as <<role, permission>>
    request,          \* the requests in flight
    \* history, read by the properties only
    deleted,          \* roles and permissions whose deletion was answered 200
    seen              \* answers that were right at some instant of a check

roleTable == <<roles, roleName>>
permissionTable == <<permissions, permissionName>>
tables == <<users, roleTable, permissionTable, userRoles, rolePermissions>>
vars == <<tables, request, deleted, seen>>

----------------------------------------------------------------------------
\* What a request wants; "name" is the name it looks up or adds.
RoleCalls == {"assign", "remove", "deleteRole"}
PermissionCalls == {"grant", "revoke", "check"}
Calls == RoleCalls \cup PermissionCalls \cup
    {"createRole", "createPermission", "deletePermission", "deleteUser", "deleteUsers"}

Labels == {"idle", "find", "create", "act", "clearGrants", "drop", "answer"}

Request == [pc: Labels, call: Calls \cup {"none"},
            user: Users \cup {None}, name: RoleNames \cup PermissionNames \cup {None},
            role: RoleIds \cup {None}, permission: PermissionIds \cup {None},
            allowed: BOOLEAN]

\* A request for a call, with what it was given.
Asking(label, call, u, n, i) ==
    [pc |-> label, call |-> call, user |-> u, name |-> n, role |-> i,
     permission |-> None, allowed |-> FALSE]

Idle == Asking("idle", "none", None, None, None)

RolesNamed(n) == {i \in roles : roleName[i] = n}
PermissionsNamed(n) == {p \in permissions : permissionName[p] = n}

At(r, label, calls) == request[r].pc = label /\ request[r].call \in calls
GoTo(r, label) == request' = [request EXCEPT ![r].pc = label]
Finish(r) == request' = [request EXCEPT ![r] = Idle]

\* One request ends and nothing else happens.
Ends(r) == Finish(r) /\ UNCHANGED <<tables, deleted>>

HasRole(u, n) == \E i \in RolesNamed(n) : <<u, i>> \in userRoles

HasPermission(u, n) ==
    \E p \in PermissionsNamed(n), i \in roles :
        <<u, i>> \in userRoles /\ <<i, p>> \in rolePermissions

RightAnswer(r) == HasPermission(request[r].user, request[r].name)

Init ==
    /\ users = Users
    /\ roles = {RootRole}
    /\ roleName = [i \in RoleIds |-> IF i = RootRole THEN Admin ELSE None]
    /\ permissions = {}
    /\ permissionName = [p \in PermissionIds |-> None]
    /\ userRoles = {<<Root, RootRole>>}
    /\ rolePermissions = {}
    /\ request = [r \in Requests |-> Idle]
    /\ deleted = {}
    /\ seen = [r \in Requests |-> {}]

----------------------------------------------------------------------------
(* requireRole("admin").                                                   *)

\* The caller has the role: next().
RequireRole(r, caller, args) ==
    /\ request[r].pc = "idle"
    /\ HasRole(caller, Admin)
    /\ request' = [request EXCEPT ![r] = args]
    /\ UNCHANGED <<tables, deleted>>

\* 403.
Forbidden(r, caller) ==
    /\ request[r].pc = "idle"
    /\ ~HasRole(caller, Admin)
    /\ UNCHANGED <<tables, request, deleted>>

\* DELETE /profile: no role is asked for.
DeleteOwnAccount(r, caller) ==
    /\ request[r].pc = "idle"
    /\ request' = [request EXCEPT ![r] =
          Asking("act", "deleteUser", caller, None, None)]
    /\ UNCHANGED <<tables, deleted>>

\* The calls an administrator can make.  Grant and revoke take the id of a role,
\* in the field userId of the body.
Arguments ==
    {Asking("find", c, u, n, None) : c \in {"assign", "remove"}, u \in Users, n \in RoleNames}
    \cup {Asking("find", "check", u, n, None) : u \in Users, n \in PermissionNames}
    \cup {Asking("find", c, None, n, i) :
        c \in {"grant", "revoke"}, i \in RoleIds, n \in PermissionNames}
    \cup {Asking("find", "deleteRole", None, n, None) : n \in RoleNames}
    \cup {Asking("create", "createRole", None, n, None) : n \in RoleNames}
    \cup {Asking("create", "createPermission", None, n, None) : n \in PermissionNames}
    \cup {Asking("act", "deletePermission", None, n, None) : n \in PermissionNames}
    \cup {Asking("act", "deleteUser", u, None, None) : u \in Users}
    \cup {Asking("act", "deleteUsers", None, None, None)}

----------------------------------------------------------------------------
(* Names.                                                                  *)

\* prisma.role.findUnique finds the role.
FindRole(r, i) ==
    /\ At(r, "find", RoleCalls)
    /\ i \in RolesNamed(request[r].name)
    /\ request' = [request EXCEPT ![r].pc = "act", ![r].role = i]
    /\ UNCHANGED <<tables, deleted>>

\* It finds none: assign creates it, the others have nothing to do.
NoRole(r) ==
    /\ At(r, "find", RoleCalls)
    /\ RolesNamed(request[r].name) = {}
    /\ IF request[r].call = "assign" THEN GoTo(r, "create") ELSE Finish(r)
    /\ UNCHANGED <<tables, deleted>>

\* Mutant: without the unique index on the name.
CreateRoleAgain(r, i) ==
    /\ At(r, "create", {"assign", "createRole"})
    /\ roleName[i] = None
    /\ roles' = roles \cup {i}
    /\ roleName' = [roleName EXCEPT ![i] = request[r].name]
    /\ request' = [request EXCEPT ![r] =
          IF @.call = "assign" THEN [@ EXCEPT !.pc = "act", !.role = i] ELSE Idle]
    /\ UNCHANGED <<users, permissionTable, userRoles, rolePermissions, deleted>>

\* For assign it goes on to the link, for createRole it is all.
CreateRole(r, i) ==
    /\ At(r, "create", {"assign", "createRole"})
    /\ RolesNamed(request[r].name) = {}
    /\ roleName[i] = None
    /\ roles' = roles \cup {i}
    /\ roleName' = [roleName EXCEPT ![i] = request[r].name]
    /\ request' = [request EXCEPT ![r] =
          IF @.call = "assign" THEN [@ EXCEPT !.pc = "act", !.role = i] ELSE Idle]
    /\ UNCHANGED <<users, permissionTable, userRoles, rolePermissions, deleted>>

FindPermission(r, p) ==
    /\ At(r, "find", PermissionCalls)
    /\ p \in PermissionsNamed(request[r].name)
    /\ request' = [request EXCEPT ![r].pc = "act", ![r].permission = p]
    /\ UNCHANGED <<tables, deleted>>

\* grant creates it, revoke has nothing to do, check answers no.
NoPermission(r) ==
    /\ At(r, "find", PermissionCalls)
    /\ PermissionsNamed(request[r].name) = {}
    /\ CASE request[r].call = "grant"  -> GoTo(r, "create")
         [] request[r].call = "revoke" -> Finish(r)
         [] request[r].call = "check"  -> GoTo(r, "answer")
    /\ UNCHANGED <<tables, deleted>>

CreatePermission(r, p) ==
    /\ At(r, "create", {"grant", "createPermission"})
    /\ PermissionsNamed(request[r].name) = {}
    /\ permissionName[p] = None
    /\ permissions' = permissions \cup {p}
    /\ permissionName' = [permissionName EXCEPT ![p] = request[r].name]
    /\ request' = [request EXCEPT ![r] =
          IF @.call = "grant" THEN [@ EXCEPT !.pc = "act", !.permission = p] ELSE Idle]
    /\ UNCHANGED <<users, roleTable, userRoles, rolePermissions, deleted>>

\* The name was taken, before or since the lookup: P2002.
NameTaken(r) ==
    /\ request[r].pc = "create"
    /\ RolesNamed(request[r].name) \cup PermissionsNamed(request[r].name) # {}
    /\ Ends(r)

----------------------------------------------------------------------------
(* Links.                                                                  *)

\* Mutant: without the foreign key to Role.
AssignUnchecked(r) ==
    LET link == <<request[r].user, request[r].role>>
    IN  /\ At(r, "act", {"assign"})
        /\ request[r].user \in users
        /\ link \notin userRoles
        /\ userRoles' = userRoles \cup {link}
        /\ Finish(r)
        /\ UNCHANGED <<users, roleTable, permissionTable, rolePermissions, deleted>>

Assign(r) ==
    LET link == <<request[r].user, request[r].role>>
    IN  /\ At(r, "act", {"assign"})
        /\ request[r].user \in users /\ request[r].role \in roles
        /\ link \notin userRoles
        /\ userRoles' = userRoles \cup {link}
        /\ Finish(r)
        /\ UNCHANGED <<users, roleTable, permissionTable, rolePermissions, deleted>>

\* P2003 when the user or the role is gone, P2002 when the user has the role.
AssignRefused(r) ==
    /\ At(r, "act", {"assign"})
    /\ \/ request[r].user \notin users
       \/ request[r].role \notin roles
       \/ <<request[r].user, request[r].role>> \in userRoles
    /\ Ends(r)

\* Without the link, delete throws P2025: either way there is none.
RemoveRole(r) ==
    /\ At(r, "act", {"remove"})
    /\ userRoles' = userRoles \ {<<request[r].user, request[r].role>>}
    /\ Finish(r)
    /\ UNCHANGED <<users, roleTable, permissionTable, rolePermissions, deleted>>

\* upsert.
Grant(r) ==
    /\ At(r, "act", {"grant"})
    /\ request[r].role \in roles /\ request[r].permission \in permissions
    /\ rolePermissions' = rolePermissions \cup {<<request[r].role, request[r].permission>>}
    /\ Finish(r)
    /\ UNCHANGED <<users, roleTable, permissionTable, userRoles, deleted>>

\* P2003.
GrantRefused(r) ==
    /\ At(r, "act", {"grant"})
    /\ request[r].role \notin roles \/ request[r].permission \notin permissions
    /\ Ends(r)

Revoke(r) ==
    /\ At(r, "act", {"revoke"})
    /\ rolePermissions' = rolePermissions \ {<<request[r].role, request[r].permission>>}
    /\ Finish(r)
    /\ UNCHANGED <<users, roleTable, permissionTable, userRoles, deleted>>

\* Mutant: one role that has the permission is enough, whoever has the role.
CheckAnyRole(r) ==
    /\ At(r, "act", {"check"})
    /\ request' = [request EXCEPT ![r].pc = "answer",
          ![r].allowed = \E i \in roles : <<i, request[r].permission>> \in rolePermissions]
    /\ UNCHANGED <<tables, deleted>>

\* The second query of hasPermission, with the id that the first one found.
CheckRoles(r) ==
    /\ At(r, "act", {"check"})
    /\ request' = [request EXCEPT ![r].pc = "answer",
          ![r].allowed = \E i \in roles :
              /\ <<request[r].user, i>> \in userRoles
              /\ <<i, request[r].permission>> \in rolePermissions]
    /\ UNCHANGED <<tables, deleted>>

AnswerCheck(r) ==
    /\ request[r].pc = "answer"
    /\ Ends(r)

----------------------------------------------------------------------------
(* Deletions.                                                              *)

\* deleteRole: first the assignments ...
ClearAssignments(r) ==
    /\ At(r, "act", {"deleteRole"})
    /\ userRoles' = {link \in userRoles : link[2] # request[r].role}
    /\ GoTo(r, "clearGrants")
    /\ UNCHANGED <<users, roleTable, permissionTable, rolePermissions, deleted>>

\* ... then the grants ...
ClearGrants(r) ==
    /\ request[r].pc = "clearGrants"
    /\ rolePermissions' = {link \in rolePermissions : link[1] # request[r].role}
    /\ GoTo(r, "drop")
    /\ UNCHANGED <<users, roleTable, permissionTable, userRoles, deleted>>

RoleInUse(i) ==
    \/ \E u \in Users : <<u, i>> \in userRoles
    \/ \E p \in PermissionIds : <<i, p>> \in rolePermissions

\* Mutant: without the foreign keys.
DropRoleUnchecked(r) ==
    /\ request[r].pc = "drop"
    /\ request[r].role \in roles
    /\ roles' = roles \ {request[r].role}
    /\ deleted' = deleted \cup {request[r].role}
    /\ Finish(r)
    /\ UNCHANGED <<users, roleName, permissionTable, userRoles, rolePermissions>>

\* ... then the role.
DropRole(r) ==
    /\ request[r].pc = "drop"
    /\ request[r].role \in roles
    /\ ~RoleInUse(request[r].role)
    /\ roles' = roles \ {request[r].role}
    /\ deleted' = deleted \cup {request[r].role}
    /\ Finish(r)
    /\ UNCHANGED <<users, roleName, permissionTable, userRoles, rolePermissions>>

\* P2025 when another call deleted it, P2003 when it was assigned or granted
\* something since it was cleared; what was cleared stays cleared.
DropRoleRefused(r) ==
    /\ request[r].pc = "drop"
    /\ request[r].role \notin roles \/ RoleInUse(request[r].role)
    /\ Ends(r)

\* By name; refused when a role has the permission.
DeletePermission(r, p) ==
    /\ At(r, "act", {"deletePermission"})
    /\ p \in PermissionsNamed(request[r].name)
    /\ \A i \in RoleIds : <<i, p>> \notin rolePermissions
    /\ permissions' = permissions \ {p}
    /\ deleted' = deleted \cup {p}
    /\ Finish(r)
    /\ UNCHANGED <<users, roleTable, permissionName, userRoles, rolePermissions>>

\* P2025 or P2003.
DeletePermissionRefused(r) ==
    /\ At(r, "act", {"deletePermission"})
    /\ \A p \in PermissionsNamed(request[r].name) :
          \E i \in RoleIds : <<i, p>> \in rolePermissions
    /\ Ends(r)

\* deleteUser of the administrator's or of the user's own endpoint.
DeleteUser(r) ==
    /\ At(r, "act", {"deleteUser"})
    /\ request[r].user \in users
    /\ \A i \in RoleIds : <<request[r].user, i>> \notin userRoles
    /\ users' = users \ {request[r].user}
    /\ Finish(r)
    /\ UNCHANGED <<roleTable, permissionTable, userRoles, rolePermissions, deleted>>

DeleteUserRefused(r) ==
    /\ At(r, "act", {"deleteUser"})
    /\ \/ request[r].user \notin users
       \/ \E i \in RoleIds : <<request[r].user, i>> \in userRoles
    /\ Ends(r)

\* deleteUsers is one deleteMany: all users or, when one has a role,
\* none (README.md:163 has it delete all of them).
DeleteUsers(r) ==
    /\ At(r, "act", {"deleteUsers"})
    /\ userRoles = {}
    /\ users' = {}
    /\ Finish(r)
    /\ UNCHANGED <<roleTable, permissionTable, userRoles, rolePermissions, deleted>>

DeleteUsersRefused(r) ==
    /\ At(r, "act", {"deleteUsers"})
    /\ userRoles # {}
    /\ Ends(r)

\* The database rejects a call: 500.
Fault(r) ==
    /\ request[r].pc # "idle"
    /\ Ends(r)

----------------------------------------------------------------------------
Step(r) ==
    \/ \E i \in RoleIds : FindRole(r, i) \/ CreateRole(r, i)
    \/ \E p \in PermissionIds :
          FindPermission(r, p) \/ CreatePermission(r, p) \/ DeletePermission(r, p)
    \/ NoRole(r)
    \/ NoPermission(r)
    \/ NameTaken(r)
    \/ Assign(r)
    \/ AssignRefused(r)
    \/ RemoveRole(r)
    \/ Grant(r)
    \/ GrantRefused(r)
    \/ Revoke(r)
    \/ CheckRoles(r)
    \/ AnswerCheck(r)
    \/ ClearAssignments(r)
    \/ ClearGrants(r)
    \/ DropRole(r)
    \/ DropRoleRefused(r)
    \/ DeletePermissionRefused(r)
    \/ DeleteUser(r)
    \/ DeleteUserRefused(r)
    \/ DeleteUsers(r)
    \/ DeleteUsersRefused(r)
    \/ Fault(r)

\* While a check is in flight, the answers that are right before and after
\* each step are noted.
Observe ==
    seen' = [r \in Requests |->
        IF request'[r].call = "check"
        THEN seen[r] \cup {RightAnswer(r)'}
        ELSE {}]

Next ==
    /\ \/ \E r \in Requests, caller \in users :
             \/ \E args \in Arguments : RequireRole(r, caller, args)
             \/ Forbidden(r, caller)
             \/ DeleteOwnAccount(r, caller)
       \/ \E r \in Requests : Step(r)
    /\ Observe

Spec == Init /\ [][Next]_vars

----------------------------------------------------------------------------
(* Properties.                                                             *)

\* Every variable has its type, and a name belongs to one row at most.
TypeOK ==
    /\ users \subseteq Users
    /\ roleName \in [RoleIds -> RoleNames \cup {None}]
    /\ permissionName \in [PermissionIds -> PermissionNames \cup {None}]
    /\ roles \subseteq {i \in RoleIds : roleName[i] # None}
    /\ permissions \subseteq {p \in PermissionIds : permissionName[p] # None}
    /\ \A i, j \in roles : roleName[i] = roleName[j] => i = j
    /\ \A p, q \in permissions : permissionName[p] = permissionName[q] => p = q
    /\ request \in [Requests -> Request]
    /\ deleted \subseteq RoleIds \cup PermissionIds
    /\ seen \in [Requests -> SUBSET BOOLEAN]

\* No assignment or grant refers to a row that is gone, although roles,
\* permissions and users are deleted between the lookup of a name and the link.
ReferencesHold ==
    /\ userRoles \subseteq users \X roles
    /\ rolePermissions \subseteq roles \X permissions

\* A role or permission whose deletion was acknowledged gives nobody anything
\* again: not even an assign or grant that had found it before.
DeletionFinal ==
    /\ deleted \cap (roles \cup permissions) = {}
    /\ \A link \in userRoles \cup rolePermissions :
          link[1] \notin deleted /\ link[2] \notin deleted

\* hasPermission makes two queries, between which roles, grants and the
\* permission itself come and go; yet its answer was right at some instant
\* between the call and the answer.
CheckWasRight ==
    \A r \in Requests : request[r].pc = "answer" => request[r].allowed \in seen[r]

=============================================================================
