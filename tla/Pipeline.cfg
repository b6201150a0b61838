SPECIFICATION Spec
CONSTANTS
    Requests = {r1, r2}
    p1 = p1
    Replicas = {p1, p2}
    Scenarios <- MCScenarios
    BudgetCap = 2
    TickMinutes = 8
    MaxRestarts = 1
INVARIANTS TypeOK GuessesBounded GatesHold ReadyJustified
PROPERTIES Answered
