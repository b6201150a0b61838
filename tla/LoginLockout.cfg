SPECIFICATION Spec
CONSTANTS
    Users = {alice}
    Requests = {r1, r2}
    Passwords = {p1, p2}
    Agents = {a1}
    None = None
    MaxAttempts = 3
    LockoutDuration = 1
    MaxTime = 2
    MaxGuesses = 11
    MaxChanges = 0
SYMMETRY Symmetric
INVARIANTS TypeOK ColumnsAgree CounterIsEarned ExactWhenAlone GuessesBounded
