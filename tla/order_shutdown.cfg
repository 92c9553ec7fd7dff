CONSTANTS
    r1 = r1
    r2 = r2
    r3 = r3
    dine_in = dine_in
    NoWorker = NoWorker
    NoOrder = NoOrder
    NoRequest = NoRequest
    Orders = {1, 2, 3}
    OrderTypes = {dine_in}
    Workers = {}
    TypeOf <- AllDineIn
    Requests = {r1, r2, r3}
    MaxConcurrent = 2
    RandomFrom = 3
    PublishAttempts = 2
    IntakeLimit <- SignalOnly
SPECIFICATION Spec
INVARIANT ShutdownLosesNoOrder
CHECK_DEADLOCK FALSE
