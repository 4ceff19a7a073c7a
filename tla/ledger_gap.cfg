SPECIFICATION Spec
CONSTANTS
    Conn = {c1}
    Item = {i1}
    MaxLog = 2
CHECK_DEADLOCK FALSE
INVARIANT EveryTransitionLedgered
