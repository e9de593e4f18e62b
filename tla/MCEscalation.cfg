CONSTANTS
    LedgerMax = 2
    RollingWindow = 6
    Budget = 3
    Unlimited = FALSE
    Durations = {1, 4}
    Lag = 1
    MaxTime = 14
    MaxGen = 7
SPECIFICATION Spec
INVARIANTS TypeOK NeverUnbilled BudgetHolds CommitmentWithinBudget LedgerSound LedgerShape NothingLeftBehind
PROPERTY NeverShortened
CHECK_DEADLOCK FALSE
