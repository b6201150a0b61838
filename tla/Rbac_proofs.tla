----------------------------- MODULE Rbac_proofs -----------------------------
(***************************************************************************)
(* What holds of Rbac for any sets of users, roles, permissions, names and *)
(* requests.                                                               *)
(***************************************************************************)
EXTENDS Rbac, TLAPS

USE RbacAssumption DEF RbacAssumption

----------------------------------------------------------------------------
(* The inductive invariant.                                                *)

\* Ids are drawn once: what was deleted keeps its name, and is no row again.
RowsOK ==
    /\ users \subseteq Users
    /\ roleName \in [RoleIds -> RoleNames \cup {None}]
    /\ permissionName \in [PermissionIds -> PermissionNames \cup {None}]
    /\ roles \subseteq {i \in RoleIds : roleName[i] # None}
    /\ permissions \subseteq {p \in PermissionIds : permissionName[p] # None}
    /\ \A i, j \in roles : roleName[i] = roleName[j] => i = j
    /\ \A p, q \in permissions : permissionName[p] = permissionName[q] => p = q
    /\ deleted \subseteq {i \in RoleIds : roleName[i] # None}
                        \cup {p \in PermissionIds : permissionName[p] # None}
    /\ deleted \cap (roles \cup permissions) = {}

\* A check that has found a permission answers for it; if the permission was
\* deleted since, then "no" was right when it was.
CheckOK(r) ==
    LET q == request[r]
    IN  /\ q.pc = "answer" => q.call = "check" /\ q.allowed \in seen[r]
        /\ q.call = "check" => q.pc \in {"find", "act", "answer"}
        /\ q.call = "check" /\ q.pc = "find" => ~q.allowed
        /\ q.call = "check" /\ q.pc = "act" =>
              /\ q.permission \in PermissionIds
              /\ permissionName[q.permission] = q.name
              /\ q.permission \notin permissions => FALSE \in seen[r]

\* The name a request carries is of the kind that its call looks up.
NameOK(r) ==
    LET q == request[r]
    IN  /\ q.call \in RoleCalls \cup {"createRole"} => q.name \in RoleNames
        /\ q.call \in PermissionCalls \cup {"createPermission"} =>
              q.name \in PermissionNames

RbacInv ==
    /\ RowsOK
    /\ ReferencesHold
    /\ request \in [Requests -> Request]
    /\ seen \in [Requests -> SUBSET BOOLEAN]
    /\ \A r \in Requests : CheckOK(r) /\ NameOK(r)

\* It is stronger than what is checked.
LEMMA InvStrong ==
  RbacInv => TypeOK /\ ReferencesHold /\ DeletionFinal /\ CheckWasRight
<1> SUFFICES ASSUME RbacInv
             PROVE  TypeOK /\ ReferencesHold /\ DeletionFinal /\ CheckWasRight
  OBVIOUS
<1>1. TypeOK
  BY DEF RbacInv, RowsOK, TypeOK
<1>2. DeletionFinal
  <2>1. deleted \cap users = {}
    BY DEF RbacInv, RowsOK
  <2> QED BY <2>1 DEF RbacInv, RowsOK, ReferencesHold, DeletionFinal
<1>3. CheckWasRight
  BY DEF RbacInv, CheckOK, CheckWasRight
<1> QED BY <1>1, <1>2, <1>3 DEF RbacInv

LEMMA IdleType == Idle \in Request
  BY DEF Idle, Asking, Request, Labels, Calls, RoleCalls, PermissionCalls

LEMMA InitInv == Init => RbacInv
<1> SUFFICES ASSUME Init PROVE RbacInv
  OBVIOUS
<1>1. RowsOK
  BY DEF Init, RowsOK
<1>2. ReferencesHold
  BY DEF Init, ReferencesHold
<1>3. /\ request \in [Requests -> Request]
      /\ seen \in [Requests -> SUBSET BOOLEAN]
  BY IdleType DEF Init
<1>4. \A r \in Requests : CheckOK(r) /\ NameOK(r)
  BY DEF Init, Idle, Asking, CheckOK, NameOK, RoleCalls, PermissionCalls
<1> QED BY <1>1, <1>2, <1>3, <1>4 DEF RbacInv

----------------------------------------------------------------------------
(* What a step does to the tables.                                         *)

\* Names stay with their ids, and if a permission goes, it goes alone.
TablesOK ==
    /\ RowsOK'
    /\ ReferencesHold'
    /\ \A p \in PermissionIds : permissionName[p] # None =>
          permissionName'[p] = permissionName[p]
    /\ \A p \in permissions \ permissions' :
          permissions' = permissions \ {p} /\ UNCHANGED permissionName

LEMMA QuietTables ==
  ASSUME RbacInv, UNCHANGED <<tables, deleted>>
  PROVE  TablesOK
  BY DEF RbacInv, RowsOK, ReferencesHold, TablesOK, tables, roleTable,
         permissionTable

\* The steps that change only who has what.
LEMMA LinkTables ==
  ASSUME RbacInv, UNCHANGED <<users, roleTable, permissionTable, deleted>>,
         ReferencesHold'
  PROVE  TablesOK
  BY DEF RbacInv, RowsOK, TablesOK, roleTable, permissionTable

LEMMA StepTables ==
  ASSUME RbacInv, NEW r \in Requests, Step(r)
  PROVE  TablesOK
<1>1. CASE \/ \E i \in RoleIds : FindRole(r, i)
           \/ \E p \in PermissionIds : FindPermission(r, p)
           \/ NoRole(r) \/ NoPermission(r) \/ NameTaken(r) \/ AssignRefused(r)
           \/ GrantRefused(r) \/ CheckRoles(r) \/ AnswerCheck(r)
           \/ DropRoleRefused(r) \/ DeletePermissionRefused(r)
           \/ DeleteUserRefused(r) \/ Fault(r)
  BY <1>1, QuietTables
  DEF FindRole, FindPermission, NoRole, NoPermission, NameTaken, AssignRefused,
      GrantRefused, CheckRoles, AnswerCheck, DropRoleRefused,
      DeletePermissionRefused, DeleteUserRefused, Fault, Ends
<1>2. ASSUME NEW i \in RoleIds, CreateRole(r, i) PROVE TablesOK
  <2> DEFINE n == request[r].name
  <2>1. n \in RoleNames /\ n # None
    BY <1>2 DEF RbacInv, NameOK, CreateRole, At, RoleCalls
  <2>2. /\ RolesNamed(n) = {} /\ roleName[i] = None
        /\ roles' = roles \cup {i} /\ roleName' = [roleName EXCEPT ![i] = n]
        /\ UNCHANGED <<users, permissions, permissionName, userRoles,
                       rolePermissions, deleted>>
    BY <1>2 DEF CreateRole, permissionTable
  <2> HIDE DEF n
  <2>3. i \notin deleted /\ i \notin roles
    BY <2>2 DEF RbacInv, RowsOK
  <2>4. \A j \in RoleIds : roleName'[j] = IF j = i THEN n ELSE roleName[j]
    BY <2>2 DEF RbacInv, RowsOK
  <2>5. \A j, k \in roles' : roleName'[j] = roleName'[k] => j = k
    BY <2>2, <2>4 DEF RolesNamed, RbacInv, RowsOK
  <2>6. /\ roles' \subseteq {j \in RoleIds : roleName'[j] # None}
        /\ deleted' \subseteq {j \in RoleIds : roleName'[j] # None}
                      \cup {p \in PermissionIds : permissionName'[p] # None}
        /\ roleName' \in [RoleIds -> RoleNames \cup {None}]
    BY <2>1, <2>2, <2>4 DEF RbacInv, RowsOK
  <2>7. deleted' \cap (roles' \cup permissions') = {}
    BY <2>2, <2>3 DEF RbacInv, RowsOK
  <2>8. RowsOK'
    BY <2>2, <2>5, <2>6, <2>7 DEF RbacInv, RowsOK
  <2>9. ReferencesHold'
    BY <2>2 DEF RbacInv, ReferencesHold
  <2> QED BY <2>2, <2>8, <2>9 DEF TablesOK
<1>3. ASSUME NEW p \in PermissionIds, CreatePermission(r, p) PROVE TablesOK
  <2> DEFINE n == request[r].name
  <2>1. n \in PermissionNames /\ n # None
    BY <1>3 DEF RbacInv, NameOK, CreatePermission, At, PermissionCalls
  <2>2. /\ PermissionsNamed(n) = {} /\ permissionName[p] = None
        /\ permissions' = permissions \cup {p}
        /\ permissionName' = [permissionName EXCEPT ![p] = n]
        /\ UNCHANGED <<users, roles, roleName, userRoles, rolePermissions,
                       deleted>>
    BY <1>3 DEF CreatePermission, roleTable
  <2> HIDE DEF n
  <2>3. p \notin deleted /\ p \notin permissions
    BY <2>2 DEF RbacInv, RowsOK
  <2>4. \A q \in PermissionIds :
           permissionName'[q] = IF q = p THEN n ELSE permissionName[q]
    BY <2>2 DEF RbacInv, RowsOK
  <2>5. \A j, k \in permissions' : permissionName'[j] = permissionName'[k] => j = k
    BY <2>2, <2>4 DEF PermissionsNamed, RbacInv, RowsOK
  <2>6. /\ permissions' \subseteq {q \in PermissionIds : permissionName'[q] # None}
        /\ deleted' \subseteq {j \in RoleIds : roleName'[j] # None}
                      \cup {q \in PermissionIds : permissionName'[q] # None}
        /\ permissionName' \in [PermissionIds -> PermissionNames \cup {None}]
    BY <2>1, <2>2, <2>4 DEF RbacInv, RowsOK
  <2>7. deleted' \cap (roles' \cup permissions') = {}
    BY <2>2, <2>3 DEF RbacInv, RowsOK
  <2>8. RowsOK'
    BY <2>2, <2>5, <2>6, <2>7 DEF RbacInv, RowsOK
  <2>9. ReferencesHold'
    BY <2>2 DEF RbacInv, ReferencesHold
  <2>10. \A q \in PermissionIds : permissionName[q] # None =>
            permissionName'[q] = permissionName[q]
    BY <2>2, <2>4
  <2> QED BY <2>2, <2>8, <2>9, <2>10 DEF TablesOK
<1>4. CASE Assign(r) \/ RemoveRole(r) \/ Grant(r) \/ Revoke(r)
           \/ ClearAssignments(r) \/ ClearGrants(r)
  <2>1. UNCHANGED <<users, roleTable, permissionTable, deleted>>
    BY <1>4 DEF Assign, RemoveRole, Grant, Revoke, ClearAssignments, ClearGrants
  <2>2. ReferencesHold'
    <3>1. UNCHANGED <<users, roles, permissions>>
      BY <2>1 DEF roleTable, permissionTable
    <3>2. CASE Assign(r)
      BY <3>1, <3>2 DEF Assign, RbacInv, ReferencesHold
    <3>3. CASE Grant(r)
      BY <3>1, <3>3 DEF Grant, RbacInv, ReferencesHold
    <3>4. CASE RemoveRole(r) \/ Revoke(r) \/ ClearAssignments(r) \/ ClearGrants(r)
      <4>1. userRoles' \subseteq userRoles /\ rolePermissions' \subseteq rolePermissions
        BY <3>4 DEF RemoveRole, Revoke, ClearAssignments, ClearGrants
      <4> QED BY <3>1, <4>1 DEF RbacInv, ReferencesHold
    <3> QED BY <1>4, <3>2, <3>3, <3>4
  <2> QED BY <2>1, <2>2, LinkTables
<1>5. CASE DropRole(r)
  <2> DEFINE i == request[r].role
  <2>1. /\ i \in roles /\ ~RoleInUse(i) /\ roles' = roles \ {i}
        /\ deleted' = deleted \cup {i}
        /\ UNCHANGED <<users, roleName, permissions, permissionName, userRoles,
                       rolePermissions>>
    BY <1>5 DEF DropRole, permissionTable
  <2> HIDE DEF i
  <2>2. ReferencesHold'
    <3>1. userRoles \subseteq users \X roles
            /\ rolePermissions \subseteq roles \X permissions
      BY DEF RbacInv, ReferencesHold
    <3>2. users \subseteq Users /\ permissions \subseteq PermissionIds
      BY DEF RbacInv, RowsOK
    <3>3. ASSUME NEW link \in userRoles PROVE link \in users \X (roles \ {i})
      BY <2>1, <3>1, <3>2 DEF RoleInUse
    <3>4. ASSUME NEW link \in rolePermissions
          PROVE  link \in (roles \ {i}) \X permissions
      BY <2>1, <3>1, <3>2 DEF RoleInUse
    <3> QED BY <2>1, <3>3, <3>4 DEF ReferencesHold
  <2>3. RowsOK'
    BY <2>1 DEF RbacInv, RowsOK
  <2> QED BY <2>1, <2>2, <2>3 DEF TablesOK
<1>6. ASSUME NEW p \in PermissionIds, DeletePermission(r, p) PROVE TablesOK
  <2>1. /\ p \in permissions /\ permissions' = permissions \ {p}
        /\ deleted' = deleted \cup {p}
        /\ UNCHANGED <<users, roles, roleName, permissionName, userRoles,
                       rolePermissions>>
        /\ \A i \in RoleIds : <<i, p>> \notin rolePermissions
    BY <1>6 DEF DeletePermission, roleTable, PermissionsNamed
  <2>2. ReferencesHold'
    BY <2>1 DEF RbacInv, RowsOK, ReferencesHold
  <2>3. RowsOK'
    BY <2>1 DEF RbacInv, RowsOK
  <2> QED BY <2>1, <2>2, <2>3 DEF TablesOK
<1>7. CASE DeleteUser(r) \/ DeleteUsers(r) \/ DeleteUsersRefused(r)
  <2>1. /\ users' \subseteq users
        /\ UNCHANGED <<roles, roleName, permissions, permissionName, userRoles,
                       rolePermissions, deleted>>
    BY <1>7 DEF DeleteUser, DeleteUsers, DeleteUsersRefused, Ends, RbacInv, RowsOK,
                tables, roleTable, permissionTable
  <2>2. ReferencesHold'
    <3>1. CASE DeleteUser(r)
      BY <2>1, <3>1 DEF DeleteUser, RbacInv, RowsOK, ReferencesHold
    <3>2. CASE DeleteUsers(r)
      BY <2>1, <3>2 DEF DeleteUsers, RbacInv, ReferencesHold
    <3>3. CASE DeleteUsersRefused(r)
      BY <3>3 DEF DeleteUsersRefused, Ends, RbacInv, ReferencesHold, tables, roleTable,
                  permissionTable
    <3> QED BY <1>7, <3>1, <3>2, <3>3
  <2>3. RowsOK'
    BY <2>1 DEF RbacInv, RowsOK
  <2> QED BY <2>1, <2>2, <2>3 DEF TablesOK
<1> QED BY <1>1, <1>2, <1>3, <1>4, <1>5, <1>6, <1>7 DEF Step

----------------------------------------------------------------------------
(* What a step does to the requests.                                       *)

\* The requests that do not take the step.
LEMMA OthersOK ==
  ASSUME RbacInv, TablesOK, Observe, NEW s \in Requests, request'[s] = request[s]
  PROVE  CheckOK(s)' /\ NameOK(s)'
<1> DEFINE q == request[s]
<1>1. CheckOK(s) /\ NameOK(s) /\ q \in Request
  BY DEF RbacInv
<1>2. NameOK(s)'
  BY <1>1 DEF NameOK
<1>3. q.call = "check" => seen'[s] = seen[s] \cup {RightAnswer(s)'}
  BY DEF Observe
<1>4. ASSUME q.call = "check", q.pc = "act"
      PROVE  /\ q.permission \in PermissionIds
             /\ permissionName'[q.permission] = q.name
             /\ q.permission \notin permissions' => FALSE \in seen'[s]
  <2> DEFINE p == q.permission
  <2>1. /\ p \in PermissionIds /\ permissionName[p] = q.name
        /\ p \notin permissions => FALSE \in seen[s]
    BY <1>1, <1>4 DEF CheckOK
  <2>2. q.name # None
    BY <1>1, <1>4 DEF NameOK, PermissionCalls
  <2>3. permissionName'[p] = q.name
    BY <2>1, <2>2 DEF TablesOK
  <2>4. ASSUME p \in permissions, p \notin permissions' PROVE RightAnswer(s)' = FALSE
    <3>1. permissions' = permissions \ {p} /\ permissionName' = permissionName
      BY <2>4 DEF TablesOK
    <3>2. \A x \in permissions : permissionName[x] = q.name => x = p
      BY <2>1, <2>4 DEF RbacInv, RowsOK
    <3>3. \A x \in permissions' : permissionName'[x] # request'[s].name
      BY <3>1, <3>2
    <3> QED BY <3>3 DEF RightAnswer, HasPermission, PermissionsNamed
  <2> QED BY <1>3, <1>4, <2>1, <2>3, <2>4
<1>5. CheckOK(s)'
  <2> HIDE DEF q
  <2>1. /\ q.pc = "answer" => q.call = "check" /\ q.allowed \in seen'[s]
        /\ q.call = "check" => q.pc \in {"find", "act", "answer"}
        /\ q.call = "check" /\ q.pc = "find" => ~q.allowed
    BY <1>1, <1>3 DEF CheckOK, q
  <2>2. request'[s] = q
    BY DEF q
  <2> QED BY <1>4, <2>1, <2>2 DEF CheckOK
<1> QED BY <1>2, <1>5

\* A request moves to x: it is x that has to be all right.
LEMMA MoveOK ==
  ASSUME RbacInv, TablesOK, Observe, NEW r \in Requests, NEW x \in Request,
         request' = [request EXCEPT ![r] = x], CheckOK(r)', NameOK(r)'
  PROVE  RbacInv'
<1>1. request \in [Requests -> Request]
  BY DEF RbacInv
<1>2. request' \in [Requests -> Request]
  BY <1>1
<1>3. seen' \in [Requests -> SUBSET BOOLEAN]
  <2>1. \A s \in Requests : RightAnswer(s)' \in BOOLEAN
    BY DEF RightAnswer, HasPermission
  <2> QED BY <2>1 DEF RbacInv, Observe
<1>4. ASSUME NEW s \in Requests PROVE CheckOK(s)' /\ NameOK(s)'
  <2>1. CASE s = r
    BY <2>1
  <2>2. CASE s # r
    <3>1. request'[s] = request[s]
      BY <1>1, <2>2
    <3> QED BY <3>1, OthersOK
  <2> QED BY <2>1, <2>2
<1> QED BY <1>2, <1>3, <1>4 DEF RbacInv, TablesOK

\* A request that ends.
LEMMA FinishOK ==
  ASSUME RbacInv, TablesOK, Observe, NEW r \in Requests, Finish(r)
  PROVE  RbacInv'
<1>1. request' = [request EXCEPT ![r] = Idle] /\ request'[r] = Idle
  BY DEF Finish, RbacInv
<1>2. request'[r].pc = "idle" /\ request'[r].call = "none"
  BY <1>1 DEF Idle, Asking
<1>3. CheckOK(r)'
  BY <1>2 DEF CheckOK
<1>4. NameOK(r)'
  BY <1>2 DEF NameOK, RoleCalls, PermissionCalls
<1> QED BY <1>1, <1>3, <1>4, IdleType, MoveOK

\* One that goes on with the same call and name, and is no check.
LEMMA GoOnOK ==
  ASSUME RbacInv, TablesOK, Observe, NEW r \in Requests, NEW x \in Request,
         request' = [request EXCEPT ![r] = x],
         x.call = request[r].call, x.name = request[r].name,
         x.call # "check", x.pc # "answer"
  PROVE  RbacInv'
<1>1. request'[r] = x
  BY DEF RbacInv
<1>2. CheckOK(r)'
  BY <1>1 DEF CheckOK
<1>3. NameOK(r)'
  BY <1>1 DEF RbacInv, NameOK
<1> QED BY <1>2, <1>3, MoveOK

\* What the steps make of a request is one, with the same call and name.
LEMMA LabelTypes ==
  ASSUME NEW q \in Request, NEW l \in Labels
  PROVE  LET x == [q EXCEPT !.pc = l]
         IN  /\ x \in Request /\ x.call = q.call /\ x.name = q.name
             /\ x.pc = l /\ x.allowed = q.allowed
  BY DEF Request

LEMMA SomeLabels ==
  /\ "create" \in Labels /\ "act" \in Labels /\ "clearGrants" \in Labels
  /\ "drop" \in Labels /\ "answer" \in Labels
  BY DEF Labels

LEMMA StepInv ==
  ASSUME RbacInv, Observe, NEW r \in Requests, Step(r)
  PROVE  RbacInv'
<1> DEFINE q == request[r]
<1>1. TablesOK
  BY StepTables
<1>2. /\ request \in [Requests -> Request] /\ q \in Request
      /\ CheckOK(r) /\ NameOK(r)
  BY DEF RbacInv
<1>3. CASE \/ NameTaken(r) \/ Assign(r) \/ AssignRefused(r) \/ RemoveRole(r)
           \/ Grant(r) \/ GrantRefused(r) \/ Revoke(r) \/ AnswerCheck(r)
           \/ DropRole(r) \/ DropRoleRefused(r)
           \/ \E p \in PermissionIds : DeletePermission(r, p)
           \/ DeletePermissionRefused(r) \/ DeleteUser(r) \/ DeleteUserRefused(r)
           \/ DeleteUsers(r) \/ DeleteUsersRefused(r) \/ Fault(r)
  <2>1. Finish(r)
    BY <1>3
    DEF NameTaken, Assign, AssignRefused, RemoveRole, Grant, GrantRefused, Revoke,
        AnswerCheck, DropRole, DropRoleRefused, DeletePermission,
        DeletePermissionRefused, DeleteUser, DeleteUserRefused, DeleteUsers,
        DeleteUsersRefused, Fault, Ends
  <2> QED BY <1>1, <2>1, FinishOK
<1>4. ASSUME NEW i \in RoleIds, FindRole(r, i) PROVE RbacInv'
  <2> DEFINE x == [q EXCEPT !.pc = "act", !.role = i]
  <2>1. x \in Request /\ x.call = q.call /\ x.name = q.name /\ x.pc = "act"
    <3> HIDE DEF q
    <3> QED BY <1>2, SomeLabels DEF Request
  <2>2. q.call # "check" /\ request' = [request EXCEPT ![r] = x]
    BY <1>2, <1>4 DEF FindRole, At, RoleCalls
  <2> HIDE DEF x
  <2> QED BY <1>1, <2>1, <2>2, GoOnOK
<1>5. CASE NoRole(r)
  <2> DEFINE x == [q EXCEPT !.pc = "create"]
  <2>1. CASE q.call = "assign"
    <3>1. x \in Request /\ x.call = q.call /\ x.name = q.name /\ x.pc = "create"
      BY <1>2, SomeLabels, LabelTypes
    <3>2. request' = [request EXCEPT ![r] = x]
      BY <1>2, <1>5, <2>1 DEF NoRole, GoTo
    <3> HIDE DEF x
    <3> QED BY <1>1, <2>1, <3>1, <3>2, GoOnOK
  <2>2. CASE q.call # "assign"
    BY <1>1, <1>5, <2>2, FinishOK DEF NoRole
  <2> QED BY <2>1, <2>2
<1>6. ASSUME NEW i \in RoleIds, CreateRole(r, i) PROVE RbacInv'
  <2> DEFINE x == [q EXCEPT !.pc = "act", !.role = i]
  <2>1. CASE q.call = "assign"
    <3>1. x \in Request /\ x.call = q.call /\ x.name = q.name /\ x.pc = "act"
      <4> HIDE DEF q
      <4> QED BY <1>2, SomeLabels DEF Request
    <3>2. request' = [request EXCEPT ![r] = x]
      BY <1>2, <1>6, <2>1 DEF CreateRole
    <3> HIDE DEF x
    <3> QED BY <1>1, <2>1, <3>1, <3>2, GoOnOK
  <2>2. CASE q.call # "assign"
    <3>1. Finish(r)
      BY <1>2, <1>6, <2>2 DEF CreateRole, Finish
    <3> QED BY <1>1, <3>1, FinishOK
  <2> QED BY <2>1, <2>2
<1>7. ASSUME NEW p \in PermissionIds, CreatePermission(r, p) PROVE RbacInv'
  <2> DEFINE x == [q EXCEPT !.pc = "act", !.permission = p]
  <2>1. CASE q.call = "grant"
    <3>1. x \in Request /\ x.call = q.call /\ x.name = q.name /\ x.pc = "act"
      <4> HIDE DEF q
      <4> QED BY <1>2, SomeLabels DEF Request
    <3>2. request' = [request EXCEPT ![r] = x]
      BY <1>2, <1>7, <2>1 DEF CreatePermission
    <3> HIDE DEF x
    <3> QED BY <1>1, <2>1, <3>1, <3>2, GoOnOK
  <2>2. CASE q.call # "grant"
    <3>1. Finish(r)
      BY <1>2, <1>7, <2>2 DEF CreatePermission, Finish
    <3> QED BY <1>1, <3>1, FinishOK
  <2> QED BY <2>1, <2>2
<1>8. CASE ClearAssignments(r)
  <2> DEFINE x == [q EXCEPT !.pc = "clearGrants"]
  <2>1. x \in Request /\ x.call = q.call /\ x.name = q.name /\ x.pc = "clearGrants"
    BY <1>2, SomeLabels, LabelTypes
  <2>2. q.call # "check" /\ request' = [request EXCEPT ![r] = x]
    BY <1>2, <1>8 DEF ClearAssignments, At, GoTo
  <2> HIDE DEF x
  <2> QED BY <1>1, <2>1, <2>2, GoOnOK
<1>9. CASE ClearGrants(r)
  <2> DEFINE x == [q EXCEPT !.pc = "drop"]
  <2>1. x \in Request /\ x.call = q.call /\ x.name = q.name /\ x.pc = "drop"
    BY <1>2, SomeLabels, LabelTypes
  <2>2. q.call # "check" /\ request' = [request EXCEPT ![r] = x]
    BY <1>2, <1>9 DEF ClearGrants, GoTo, CheckOK
  <2> HIDE DEF x
  <2> QED BY <1>1, <2>1, <2>2, GoOnOK
<1>10. ASSUME NEW p \in PermissionIds, FindPermission(r, p) PROVE RbacInv'
  <2> DEFINE x == [q EXCEPT !.pc = "act", !.permission = p]
  <2>1. /\ x \in Request /\ x.call = q.call /\ x.name = q.name /\ x.pc = "act"
        /\ x.permission = p
    <3> HIDE DEF q
    <3> QED BY <1>2, SomeLabels DEF Request
  <2>2. /\ request' = [request EXCEPT ![r] = x]
        /\ p \in permissions /\ permissionName[p] = q.name
        /\ UNCHANGED <<permissions, permissionName>>
    BY <1>2, <1>10
    DEF FindPermission, PermissionsNamed, tables, permissionTable
  <2>3. request'[r] = x
    BY <1>2, <2>2
  <2> HIDE DEF x
  <2>4. CheckOK(r)'
    <3>1. /\ x.permission \in PermissionIds
          /\ permissionName'[x.permission] = x.name
          /\ x.permission \in permissions'
      BY <2>1, <2>2
    <3>2. x.pc = "act"
      BY <2>1
    <3> QED BY <2>3, <3>1, <3>2 DEF CheckOK
  <2>5. NameOK(r)'
    BY <1>2, <2>1, <2>3 DEF NameOK
  <2> QED BY <1>1, <2>1, <2>2, <2>4, <2>5, MoveOK
<1>11. CASE NoPermission(r)
  <2>1. CASE q.call = "grant"
    <3> DEFINE x == [q EXCEPT !.pc = "create"]
    <3>1. x \in Request /\ x.call = q.call /\ x.name = q.name /\ x.pc = "create"
      BY <1>2, SomeLabels, LabelTypes
    <3>2. request' = [request EXCEPT ![r] = x]
      BY <1>2, <1>11, <2>1 DEF NoPermission, GoTo
    <3> HIDE DEF x
    <3> QED BY <1>1, <2>1, <3>1, <3>2, GoOnOK
  <2>2. CASE q.call = "revoke"
    BY <1>1, <1>11, <2>2, FinishOK DEF NoPermission
  <2>3. CASE q.call = "check"
    <3> DEFINE x == [q EXCEPT !.pc = "answer"]
    <3>1. /\ x \in Request /\ x.call = "check" /\ x.name = q.name
          /\ x.pc = "answer" /\ x.allowed = q.allowed
      BY <1>2, <2>3, SomeLabels, LabelTypes
    <3>2. /\ request' = [request EXCEPT ![r] = x]
          /\ PermissionsNamed(q.name) = {} /\ ~q.allowed
          /\ UNCHANGED <<permissions, permissionName>>
      BY <1>2, <1>11, <2>3
      DEF NoPermission, GoTo, At, CheckOK, tables, permissionTable
    <3>3. request'[r] = x
      BY <1>2, <3>2
    <3> HIDE DEF x
    <3>4. RightAnswer(r)' = FALSE
      BY <3>1, <3>2, <3>3 DEF RightAnswer, HasPermission, PermissionsNamed
    <3>5. FALSE \in seen'[r]
      BY <3>1, <3>3, <3>4 DEF Observe
    <3>6. x.allowed = FALSE
      BY <1>2, <3>1, <3>2 DEF Request
    <3>7. CheckOK(r)'
      BY <3>1, <3>3, <3>5, <3>6 DEF CheckOK
    <3>8. NameOK(r)'
      BY <1>2, <2>3, <3>1, <3>3 DEF NameOK
    <3> QED BY <1>1, <3>1, <3>2, <3>7, <3>8, MoveOK
  <2> QED BY <1>11, <2>1, <2>2, <2>3 DEF NoPermission, At, PermissionCalls
<1>12. CASE CheckRoles(r)
  <2> DEFINE p == q.permission
             b == \E i \in roles : /\ <<q.user, i>> \in userRoles
                                   /\ <<i, p>> \in rolePermissions
             x == [q EXCEPT !.pc = "answer", !.allowed = b]
  <2>1. b \in BOOLEAN
    OBVIOUS
  <2> HIDE DEF b
  <2>2. /\ x \in Request /\ x.call = q.call /\ x.name = q.name
        /\ x.user = q.user /\ x.pc = "answer" /\ x.allowed = b
    <3> HIDE DEF q
    <3> QED BY <1>2, <2>1, SomeLabels DEF Request
  <2>3. /\ request' = [request EXCEPT ![r] = x]
        /\ q.call = "check" /\ q.pc = "act"
        /\ UNCHANGED <<roles, permissions, permissionName, userRoles, rolePermissions>>
    BY <1>2, <1>12
    DEF CheckRoles, At, tables, roleTable, permissionTable, b
  <2>4. request'[r] = x
    BY <1>2, <2>3
  <2> HIDE DEF x
  <2>5. /\ permissionName[p] = q.name
        /\ p \notin permissions => FALSE \in seen[r]
    BY <1>2, <2>3 DEF CheckOK
  <2>6. seen'[r] = seen[r] \cup {RightAnswer(r)'}
    BY <2>2, <2>3, <2>4 DEF Observe
  <2>7. b \in seen'[r]
    <3>1. CASE p \in permissions
      <4>1. PermissionsNamed(q.name) = {p}
        BY <2>5, <3>1 DEF RbacInv, RowsOK, PermissionsNamed
      <4>2. RightAnswer(r)' = HasPermission(q.user, q.name)
        BY <2>2, <2>3, <2>4 DEF RightAnswer, HasPermission, PermissionsNamed
      <4>3. HasPermission(q.user, q.name) = b
        BY <4>1 DEF HasPermission, b
      <4> QED BY <2>6, <4>2, <4>3
    <3>2. CASE p \notin permissions
      <4>1. b = FALSE
        BY <2>1, <3>2 DEF b, RbacInv, ReferencesHold
      <4> QED BY <2>5, <2>6, <3>2, <4>1
    <3> QED BY <3>1, <3>2
  <2>8. CheckOK(r)'
    BY <2>2, <2>3, <2>4, <2>7 DEF CheckOK
  <2>9. NameOK(r)'
    BY <1>2, <2>2, <2>4 DEF NameOK
  <2> QED BY <1>1, <2>2, <2>3, <2>8, <2>9, MoveOK
<1> QED
  BY <1>3, <1>4, <1>5, <1>6, <1>7, <1>8, <1>9, <1>10, <1>11, <1>12 DEF Step

----------------------------------------------------------------------------
(* Requests that arrive, and the theorems.                                 *)

\* A request that was let through is not a check that was answered.
LEMMA ArgumentsOK ==
  ASSUME NEW x \in Arguments
  PROVE  /\ x \in Request
         /\ x.pc # "answer" /\ (x.call = "check" => x.pc = "find" /\ ~x.allowed)
         /\ x.call \in RoleCalls \cup {"createRole"} => x.name \in RoleNames
         /\ x.call \in PermissionCalls \cup {"createPermission"} =>
               x.name \in PermissionNames
<1>1. CASE \E c \in {"assign", "remove"}, u \in Users, n \in RoleNames :
             x = Asking("find", c, u, n, None)
  BY <1>1 DEF Asking, Request, Labels, Calls, RoleCalls, PermissionCalls
<1>2. CASE \E u \in Users, n \in PermissionNames :
             x = Asking("find", "check", u, n, None)
  BY <1>2 DEF Asking, Request, Labels, Calls, RoleCalls, PermissionCalls
<1>3. CASE \E c \in {"grant", "revoke"}, i \in RoleIds, n \in PermissionNames :
             x = Asking("find", c, None, n, i)
  BY <1>3 DEF Asking, Request, Labels, Calls, RoleCalls, PermissionCalls
<1>4. CASE \E n \in RoleNames :
             x = Asking("find", "deleteRole", None, n, None)
  BY <1>4 DEF Asking, Request, Labels, Calls, RoleCalls, PermissionCalls
<1>5. CASE \E n \in RoleNames :
             x = Asking("create", "createRole", None, n, None)
  BY <1>5 DEF Asking, Request, Labels, Calls, RoleCalls, PermissionCalls
<1>6. CASE \E n \in PermissionNames :
             x = Asking("create", "createPermission", None, n, None)
  BY <1>6 DEF Asking, Request, Labels, Calls, RoleCalls, PermissionCalls
<1>7. CASE \E n \in PermissionNames :
             x = Asking("act", "deletePermission", None, n, None)
  BY <1>7 DEF Asking, Request, Labels, Calls, RoleCalls, PermissionCalls
<1>8. CASE \E u \in Users :
             x = Asking("act", "deleteUser", u, None, None)
  BY <1>8 DEF Asking, Request, Labels, Calls, RoleCalls, PermissionCalls
<1>9. CASE x = Asking("act", "deleteUsers", None, None, None)
  BY <1>9 DEF Asking, Request, Labels, Calls, RoleCalls, PermissionCalls
<1> QED
  BY <1>1, <1>2, <1>3, <1>4, <1>5, <1>6, <1>7, <1>8, <1>9 DEF Arguments

LEMMA NextInv == RbacInv /\ [Next]_vars => RbacInv'
<1> SUFFICES ASSUME RbacInv, [Next]_vars PROVE RbacInv'
  OBVIOUS
<1>1. ASSUME NEW r \in Requests, NEW caller \in users, NEW args \in Arguments,
             RequireRole(r, caller, args), Observe
      PROVE  RbacInv'
  <2>1. request' = [request EXCEPT ![r] = args] /\ request'[r] = args
    BY <1>1 DEF RequireRole, RbacInv
  <2>2. TablesOK
    BY <1>1, QuietTables DEF RequireRole
  <2>3. CheckOK(r)'
    BY <2>1, ArgumentsOK DEF CheckOK
  <2>4. NameOK(r)'
    BY <2>1, ArgumentsOK DEF NameOK
  <2> QED BY <1>1, <2>1, <2>2, <2>3, <2>4, ArgumentsOK, MoveOK
<1>2. ASSUME NEW r \in Requests, NEW caller \in users, DeleteOwnAccount(r, caller),
             Observe
      PROVE  RbacInv'
  <2> DEFINE x == Asking("act", "deleteUser", caller, None, None)
  <2>1. request' = [request EXCEPT ![r] = x] /\ request'[r] = x
    BY <1>2 DEF DeleteOwnAccount, RbacInv
  <2>2. TablesOK
    BY <1>2, QuietTables DEF DeleteOwnAccount
  <2>3. x \in Arguments
    BY DEF RbacInv, RowsOK, Arguments
  <2> HIDE DEF x
  <2>4. CheckOK(r)'
    BY <2>1, <2>3, ArgumentsOK DEF CheckOK
  <2>5. NameOK(r)'
    BY <2>1, <2>3, ArgumentsOK DEF NameOK
  <2> QED BY <1>2, <2>1, <2>2, <2>3, <2>4, <2>5, ArgumentsOK, MoveOK
<1>3. ASSUME NEW r \in Requests, NEW caller \in users, Forbidden(r, caller), Observe
      PROVE  RbacInv'
  <2>1. TablesOK /\ request' = request
    BY <1>3, QuietTables DEF Forbidden
  <2>2. CheckOK(r)' /\ NameOK(r)'
    BY <1>3, <2>1, OthersOK
  <2>3. request[r] \in Request /\ request' = [request EXCEPT ![r] = request[r]]
    BY <2>1 DEF RbacInv
  <2> QED BY <1>3, <2>1, <2>2, <2>3, MoveOK
<1>4. CASE UNCHANGED vars
  <2>1. UNCHANGED <<tables, deleted>> /\ request' = request /\ seen' = seen
    BY <1>4 DEF vars
  <2>2. RowsOK' /\ ReferencesHold'
    BY <2>1, QuietTables DEF TablesOK
  <2>3. permissions' = permissions /\ permissionName' = permissionName
    BY <2>1 DEF tables, permissionTable
  <2>4. \A r \in Requests : CheckOK(r)' /\ NameOK(r)'
    BY <2>1, <2>3 DEF RbacInv, CheckOK, NameOK
  <2> QED BY <2>1, <2>2, <2>3, <2>4 DEF RbacInv
<1> QED BY <1>1, <1>2, <1>3, <1>4, StepInv DEF Next

LEMMA Invariance == Spec => []RbacInv
  BY InitInv, NextInv, PTL DEF Spec

\* Every variable keeps its type and a name belongs to one row at most: the
\* unique indexes and the ids make it so for any interleaving of the endpoints.
THEOREM TypeCorrect == Spec => []TypeOK
  BY Invariance, InvStrong, PTL

\* No assignment or grant ever refers to a row that is gone: what assign,
\* grant, deleteRole, deletePermission and deleteUser do, one query at a time.
THEOREM ReferencesAlwaysHold == Spec => []ReferencesHold
  BY Invariance, InvStrong, PTL

\* What an acknowledged deletion of a role or permission took away is never
\* given by it again.
THEOREM DeletionIsFinal == Spec => []DeletionFinal
  BY Invariance, InvStrong, PTL

\* Whatever comes and goes between the two queries of hasPermission, its
\* answer was right at some instant of the call.
THEOREM ChecksWereRight == Spec => []CheckWasRight
  BY Invariance, InvStrong, PTL

=============================================================================
