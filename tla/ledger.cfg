SPECIFICATION Spec
CONSTANTS
    Conn = {c1, c2}
    Item = {i1, i2}
    MaxLog = 3
SYMMETRY Interchangeable
CHECK_DEADLOCK FALSE
INVARIANTS TypeOK ChainVerifies StateIsLedgered AllOrNothing CleanBetweenMethods
PROPERTIES AppendOnly
