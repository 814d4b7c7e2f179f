\* Two pins at a time, then a scan.
SPECIFICATION Spec
CONSTANTS
    Scanners = {"s1"}
    Ejecters = {}
    Pinners = {"p1", "p2"}
    Model <- MCModel
    Sha <- MCSha
    Current = "current"
    Names <- MCNames
    Hashes <- MCHashes
    AtStart <- MCAtStart
    MaxChanges = 1
    MaxClock = 0
CHECK_DEADLOCK FALSE
INVARIANTS
    PinsAreAlwaysKnown
