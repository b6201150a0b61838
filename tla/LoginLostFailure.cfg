SPECIFICATION Spec
CONSTANTS
    Users = {alice}
    Requests = {r1, r2}
    Passwords = {p1, p2}
    Agents = {a1}
    None = None
    MaxAttempts = 2
    LockoutDuration = 1
    MaxTime = 0
    MaxGuesses = 4
    MaxChanges = 0
SYMMETRY Symmetric
INVARIANTS LockedAfterMaxAttempts
