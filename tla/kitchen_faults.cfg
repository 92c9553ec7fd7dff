CONSTANTS
    o1 = o1
    o2 = o2
    w1 = w1
    w2 = w2
    dine_in = dine_in
    takeout = takeout
    NoWorker = NoWorker
    NoOrder = NoOrder
    Orders = {o1, o2}
    OrderTypes = {dine_in}
    Workers = {w1, w2}
    TypeOf <- OneType
    Handles <- TwoWorkers
    Prefetch = 1
    ReconnectAttempt = 1
    Limit <- FaultLimit
SPECIFICATION Spec
SYMMETRY Symmetric
INVARIANTS TypeOK IndInv NoStrandedMessage AckedIsCompleted ReadyAfterCooking NotifiedIsLogged NeverOvercounted
PROPERTIES OnlyHolderSettles ImplementsLifecycle
CHECK_DEADLOCK FALSE
