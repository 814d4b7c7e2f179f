\* Two pins, a scan and two ejections, each in a thread of its own; one change of
\* files by others.
SPECIFICATION Spec
CONSTANTS
    Scanners = {"s1"}
    Ejecters = {"e1", "e2"}
    Pinners = {"p1", "p2"}
    Model <- MCModel
    Sha <- MCSha
    Current = "current"
    Names <- MCNames
    Hashes <- MCHashes
    AtStart <- MCAtStart
    MaxChanges = 1
    MaxClock = 1
CHECK_DEADLOCK FALSE
INVARIANTS
    TrustedWasPinned
    PinsAreKnown
