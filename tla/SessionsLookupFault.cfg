SPECIFICATION Spec
CONSTANTS
    Users = {alice}
    SessionIds = {s1, s2}
    Requests = {r1, r2}
    None = None
    Pinned = {}
    ShortLife = 1
    LongLife = 2
    JwtExpiry = 1
    ClockTolerance = 1
    MaxTime = 2
SYMMETRY Symmetric
INVARIANTS SessionVerified
