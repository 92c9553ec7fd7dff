CONSTANTS
    first = first
    second = second
    Requests = {first, second}
    Scenarios <- ShortAddress
    RandomNumbers = {10000, 99999}
SPECIFICATION Spec
INVARIANT StoredByTheRules
CHECK_DEADLOCK FALSE
