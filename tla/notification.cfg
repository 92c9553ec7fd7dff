CONSTANTS
    NoUpdate = NoUpdate
    MaxUpdates = 2
    MaxAttempts = 2
    Budget <- FaultBudget
SPECIFICATION FairSpec
INVARIANTS TypeOK FirstShownInOrder AckedIsInside
PROPERTIES UpdateIsShown FailureEndsProcess
CHECK_DEADLOCK FALSE
