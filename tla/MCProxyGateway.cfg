\* One plain and one streaming request beside a tool call; each request may be
\* cancelled once, and aclose() does not raise.
SPECIFICATION Spec
CONSTANTS
    ra = ra
    rb = rb
    tool = tool
    v1 = v1
    v2 = v2
    k1 = k1
    k2 = k2
    k3 = k3
    k4 = k4
    Requests <- MCRequests
    ToolIds <- MCToolIds
    RequestIds <- MCRequestIds
    Values <- MCValues
    Tokens <- MCTokens
    ValueBytes <- MCValueBytes
    Payloads <- MCPayloads
    Upstreams = {TRUE}
    Streams <- MCStreams
    Workers = 2
    Ttl = 1
    MaxEntries = 3
    MaxBytes = 10
    MaxClock = 1
    MaxCancels = 1
    MaxTools = 1
    CloseMayFail = TRUE
    Replies <- MCReplies
SYMMETRY Symmetry
CHECK_DEADLOCK FALSE
INVARIANTS
    OnlyUnwalkedLeaves
    SentIsComplete
    RestoresOwn
    OwnTokensRestorable
PROPERTIES
    OthersKeepOut
