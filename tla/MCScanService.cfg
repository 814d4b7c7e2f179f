\* Two settings requests, one of which turns the cloud off, at once or one after the
\* other, beside a scan that may find no gateway.
SPECIFICATION Spec
CONSTANTS
    s1 = s1
    s2 = s2
    w1 = w1
    w2 = w2
    Scans <- OneScan
    Writers <- MCWriters
    Asks <- MCAsks
    Prompt <- MCPrompt
    Order <- MCOrder
    Cleared = {"local_ai", "local", "privacy", "cloud"}
    AtStart <- MCAtStart
CONSTRAINT OneTurnsOff
SYMMETRY Symmetry
CHECK_DEADLOCK FALSE
INVARIANTS
    NoPartialRunIsComplete
    OffMeansOff
    ReportsTruth
