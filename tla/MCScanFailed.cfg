\* One scan with the cloud on, and a request that turns it off.
SPECIFICATION Spec
CONSTANTS
    s1 = s1
    s2 = s2
    w1 = w1
    w2 = w2
    Scans <- OneScan
    Writers <- OneWriter
    Asks <- MCOff
    Prompt <- MCPrompt
    Order <- MCOrder
    Cleared = {"local_ai", "local", "privacy", "cloud"}
    AtStart <- MCAtStart
CHECK_DEADLOCK FALSE
INVARIANTS
    NoForwardOfFailure
