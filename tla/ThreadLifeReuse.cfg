CONSTANTS
    main = main
    a = a
    b = b
    c = c
    d = d
    TCBs = {main, a, b, c, d}
    Main = main
    NoTask = NoTask
    NoTid = NoTid
    Codes = {0}
    NoCode = NoCode
    WaitTids = {0, 1, 2, 3, 4, 5}
SPECIFICATION Spec
INVARIANT ExitedStaysUntilWaited
CHECK_DEADLOCK FALSE
