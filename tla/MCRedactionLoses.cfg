\* The proxy only.
SPECIFICATION Spec
CONSTANTS
    Paths = {"proxy"}
    TextLen = 3
    Catalogue <- MCCatalogue
    Answers <- MCAnswers
    MaxReports = 3
    MaxVerdicts = 2
    MaxBoth = 3
CHECK_DEADLOCK FALSE
INVARIANTS
    InternalIsRedacted
