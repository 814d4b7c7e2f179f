\* Two ejections of one name, which is put back in between; the clock stands still.
SPECIFICATION Spec
CONSTANTS
    Scanners = {}
    Ejecters = {"e1", "e2"}
    Pinners = {}
    Model <- MCModel
    Sha <- MCSha
    Current = "current"
    Names <- MCNames
    Hashes <- MCHashes
    AtStart <- MCAtStart
    MaxChanges = 1
    MaxClock = 0
CHECK_DEADLOCK FALSE
INVARIANTS
    EjectedIsKept
