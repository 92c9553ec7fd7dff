CONSTANTS
    first = first
    second = second
    Requests = {first, second}
    Scenarios <- AllScenarios
    RandomNumbers = {10000, 99999}
SPECIFICATION Spec
INVARIANTS TypeOK AcceptedByTheRules PriorityFollowsTotal StoredTotalAddsUp ReachesItsKitchen HandlerGetsTheOrder RequestIsTraced NumbersReadBack LaunchedAsDocumented
CHECK_DEADLOCK FALSE
