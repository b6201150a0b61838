SPECIFICATION Spec
CONSTANTS
    Users = {alice}
    Requests = {r1, r2}
    Passwords = {p1}
    Agents = {a1, a2}
    None = None
    MaxAttempts = 1
    LockoutDuration = 1
    MaxTime = 0
    MaxGuesses = 0
    MaxChanges = 2
SYMMETRY Symmetric
INVARIANTS NewDeviceMailed
