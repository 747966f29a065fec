CONSTANTS
    initproc = initproc
    a = a
    b = b
    c = c
    Threads = {initproc, a, b, c}
    NoThread = NoThread
    INITPROC = initproc
    Codes = {0}
    Signals = {2}
    SIGSEGV = 11
    Pids = {0, 1, 2}
SPECIFICATION LiveSpec
INVARIANTS PidsExact OneParent ChecksHold
PROPERTIES  OrphansReaped
CHECK_DEADLOCK FALSE
