CONSTANTS
    o1 = o1
    o2 = o2
    w1 = w1
    w2 = w2
    dine_in = dine_in
    takeout = takeout
    NoWorker = NoWorker
    NoOrder = NoOrder
    Orders = {o1}
    OrderTypes = {dine_in, takeout}
    Workers = {w1}
    TypeOf <- SingleOrder
    Handles <- OneWorker
    Prefetch = 1
    ReconnectAttempt = 2
    Limit <- SignalOnly
SPECIFICATION Spec
INVARIANT InFlightIsFinished
CHECK_DEADLOCK FALSE
