\* The same requests with room for everything: each may be cancelled once while it
\* waits, aclose() ends, and the executor and the loop are fair.
SPECIFICATION FairSpec
CONSTANTS
    ra = ra
    rb = rb
    tool = tool
    v1 = v1
    v2 = v2
    k1 = k1
    k2 = k2
    k3 = k3
    k4 = k4
    Requests <- MCRequests
    ToolIds <- MCToolIds
    RequestIds <- MCRequestIds
    Values <- MCValues
    Tokens <- MCTokens
    ValueBytes <- MCValueBytes
    Payloads <- MCBriefPayloads
    Upstreams = {TRUE, FALSE}
    Streams <- MCStreams
    Workers = 1
    Ttl = 1
    MaxEntries = 2
    MaxBytes = 10
    MaxClock = 0
    MaxCancels = 1
    MaxTools = 1
    CloseMayFail = FALSE
    Replies <- MCReplies
CHECK_DEADLOCK FALSE
INVARIANTS
    NothingLeft
PROPERTIES
    EventuallyForgotten
