CONSTANTS
    parent = parent
    child = child
    other = other
    RING_BUFFER_SIZE = 2
    Bytes = {0, 1}
    Zero = 0
    Procs = {parent, child, other}
    MaxLen = 3
    MaxSent = 3
SPECIFICATION LiveSpec
INVARIANT RingHoldsRest
PROPERTIES ImplementsStream ReadSeesClose WriteReturns
CHECK_DEADLOCK FALSE
