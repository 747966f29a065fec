CONSTANTS
    LENGTH = 3
    MAX_CHILD = 2
    DEPTH = 1
    Pids = {0, 1, 2, 3, 4, 5, 6}
    Pipes = {1, 2}
    OSInodes = {1, 2}
    RING_BUFFER_SIZE = 2
    FileNames = {"a", "b", "out", "filea", "testf"}
    NoFile = NoFile
    Lines <- MCLines
    MaxTyped = 5
SPECIFICATION Spec
INVARIANTS  NoStrayDescriptors LineDelivered
PROPERTY LineFinishes
CHECK_DEADLOCK FALSE
