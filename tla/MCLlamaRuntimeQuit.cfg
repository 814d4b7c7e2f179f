\* The tray launcher with its one model; nobody selects another and no other program
\* takes the port.
SPECIFICATION RuntimeSpec
CONSTANTS
    Models = {"m1"}
    BootModel = "m1"
    Selectors = {}
    Modes = {"tray"}
    MaxServers = 1
    MaxSelects = 0
    MaxForeign = 0
CHECK_DEADLOCK FALSE
INVARIANTS
    QuitStopsRuntime
