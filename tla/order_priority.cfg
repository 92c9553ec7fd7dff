CONSTANTS
    first = first
    second = second
    Requests = {first, second}
    Scenarios <- HundredDollars
    RandomNumbers = {10000, 99999}
SPECIFICATION Spec
INVARIANT UrgentAboveHundred
CHECK_DEADLOCK FALSE
