CONSTANTS
    first = first
    second = second
    Requests = {first, second}
    Scenarios <- DisputedFlags
    RandomNumbers = {10000, 99999}
SPECIFICATION Spec
INVARIANT StartsAsDocumented
CHECK_DEADLOCK FALSE
