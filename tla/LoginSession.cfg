SPECIFICATION Spec
CONSTANTS
    Users = {alice}
    Requests = {r1, r2}
    Passwords = {p1, p2}
    Agents = {a1}
    None = None
    MaxAttempts = 1
    LockoutDuration = 1
    MaxTime = 1
    MaxGuesses = 1
    MaxChanges = 3
SYMMETRY Symmetric
INVARIANTS TokensJustified DeviceAnnounced
