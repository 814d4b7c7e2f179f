\* Two threads and three calls: sessions the gateway makes up, surrogates that collide.
SPECIFICATION Spec
CONSTANTS
    Threads = {"t1", "t2"}
    Uuids <- MCUuids
    ClientIds = {}
    Strangers = {"old"}
    Secrets = {"key1", "key2"}
    People = {"ann", "bob"}
    Prompts <- MCPrompts
    Attempts = 3
    FakeSecret <- MCFakeSecret
    FakeName <- MCFakeName
    MaxCalls = 3
CHECK_DEADLOCK FALSE
INVARIANTS
    RoundTrip
    SecretKeepsSurrogate
