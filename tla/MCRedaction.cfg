\* Three characters; three reports, or up to two verdicts and a report less each.
SPECIFICATION Spec
CONSTANTS
    Paths = {"proxy", "protect"}
    TextLen = 3
    Catalogue <- MCCatalogue
    Answers <- MCAnswers
    MaxReports = 3
    MaxVerdicts = 2
    MaxBoth = 3
CHECK_DEADLOCK FALSE
INVARIANTS
    TypeOK
    Resolved
    RightText
    ConfidentStays
    UnsureAccounted
    SecretsStay
