CONSTANTS
    NoUpdate = NoUpdate
    MaxUpdates = 2
    MaxAttempts = 2
    Budget <- SignalBudget
SPECIFICATION Spec
INVARIANT ShutdownShowsAccepted
CHECK_DEADLOCK FALSE
