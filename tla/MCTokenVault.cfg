\* Two callers, two requests, a table of at most two rows and five bytes.
SPECIFICATION Spec
CONSTANTS
    t1 = t1
    t2 = t2
    r1 = r1
    r2 = r2
    v1 = v1
    v2 = v2
    k1 = k1
    k2 = k2
    k3 = k3
    Threads <- MCThreads
    RequestIds <- MCRequestIds
    Values <- MCValues
    Tokens <- MCTokens
    ValueBytes <- MCValueBytes
    MintsFor <- OneMinterEach
    Ttls <- MCTtls
    MaxEntries = 2
    MaxBytes = 5
    MaxClock = 2
SYMMETRY Symmetry
INVARIANTS
    TypeOK
    WithinCap
    PromiseKept
PROPERTIES
    SameTokenAgain
    AnswersOwn
    ImplementsMap
