SPECIFICATION BothSpec
CONSTANTS
    Users = {u1, u2}
    Emails = {a, b}
    Tokens = {t}
    Requests = {r1, r2}
    None = None
    MaxRows = 3
    MaxKey = 3
    MaxLimit = 2
    MaxPage = 4
SYMMETRY Symmetric
CONSTRAINT Followed
INVARIANTS TypeOK VerifiedEarned OverStaysOver UsesBounded
INVARIANTS PageExactWhenQuiet WalkComplete WalkNoRepeat
CHECK_DEADLOCK FALSE
