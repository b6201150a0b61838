SPECIFICATION Spec
CONSTANTS
    Users = {alice, bob}
    SessionIds = {s1, s2}
    Requests = {r1, r2}
    None = None
    Pinned = {}
    ShortLife = 1
    LongLife = 1
    JwtExpiry = 1
    ClockTolerance = 1
    MaxTime = 2
SYMMETRY Symmetric
INVARIANTS TypeOK RevocationHolds DeadNeverAdmitted
PROPERTIES KeepsRegistry
