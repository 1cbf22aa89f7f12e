SPECIFICATION Spec
CONSTANTS
    Claims = {1, 2, 3}
    Capacity = 2
INVARIANTS ClaimsMatch
PROPERTIES ClaimsSettle
CHECK_DEADLOCK FALSE
