SPECIFICATION Spec
CONSTANTS
    Requests = {r1, r2, r3}
    PoolSize = 2
    MaxCalls = 2
INVARIANTS PoolOK
PROPERTIES EndsBelowPoolSize EndsByTransactionTimeout
