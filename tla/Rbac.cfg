SPECIFICATION Spec
CONSTANTS
    Users = {root, bob}
    RoleIds = {i1, i2}
    PermissionIds = {p1, p2}
    RoleNames = {admin, staff}
    PermissionNames = {read}
    Admin = admin
    Root = root
    RootRole = i1
    Requests = {r1, r2}
    None = None
SYMMETRY Symmetric
INVARIANTS TypeOK ReferencesHold DeletionFinal CheckWasRight
CHECK_DEADLOCK FALSE
