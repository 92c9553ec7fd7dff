CONSTANTS
    brisk1 = brisk1
    brisk2 = brisk2
    slow = slow
    hasty = hasty
    Processes = {brisk1, brisk2, slow, hasty}
    Interval <- Intervals
    MinHeartbeat = 2
    TrackInterval = 5
    Lag = 1
    StopLag = 4
    Skew = 1
    Horizon = 13
    Limit <- FaultLimit
SPECIFICATION Spec
SYMMETRY Symmetric
INVARIANTS TypeOK NoTwins LiveIsShownOnline DeadIsShownOffline NameIsFreed
