\* Two requests, one of which may have a part that has not the form it should have.
SPECIFICATION Spec
CONSTANTS
    ra = ra
    rb = rb
    tool = tool
    v1 = v1
    v2 = v2
    k1 = k1
    k2 = k2
    k3 = k3
    k4 = k4
    Requests <- MCRequests
    ToolIds <- MCToolIds
    RequestIds <- MCRequestIds
    Values <- MCValues
    Tokens <- MCTokens
    ValueBytes <- MCValueBytes
    Payloads <- MCMalformedPayloads
    Upstreams = {TRUE}
    Streams <- MCStreams
    Workers = 1
    Ttl = 1
    MaxEntries = 2
    MaxBytes = 10
    MaxClock = 0
    MaxCancels = 0
    MaxTools = 1
    CloseMayFail = FALSE
    Replies <- MCReplies
CHECK_DEADLOCK FALSE
INVARIANTS
    MalformedIsBlocked
