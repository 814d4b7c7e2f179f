\* Two models, two threads that select, and another program that takes the port once.
SPECIFICATION FairSpec
CONSTANTS
    Models = {"m1", "m2"}
    BootModel = "m1"
    Selectors = {"s1", "s2"}
    Modes = {"console", "tray", "exe"}
    MaxServers = 3
    MaxSelects = 2
    MaxForeign = 1
CHECK_DEADLOCK FALSE
INVARIANTS
    NoStray
    ServedAsTold
PROPERTIES
    SelectsEnd
