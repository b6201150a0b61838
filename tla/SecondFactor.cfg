SPECIFICATION BothSpec
CONSTANTS
    Requests = {r1, r2}
    Secrets = {s1, s2}
    Codes = {c1, c2, c3}
    None = None
    MaxAttempts = 2
    AttemptsTtl = 2
    ChallengeTtl = 1
INVARIANTS TypeOK GuessesBounded FactorJustified ConfirmedUnlessOvertaken CodeTypeOK
PROPERTIES LockEnds KeepsPromise
