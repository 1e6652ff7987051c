SPECIFICATION FairSpec
CONSTANTS
    None = None
    Instances = {"s1", "s2"}
    Deliveries = {1, 2, 3}
    Messages <- MCMessages
    Origins = {"agent"}
    KeyIds = {"key"}
    Nonces = {"n1"}
    Ttl = 2
    FetchTimeout = 1
    MaxAge = 2
    VerifyMaxAge = 3
    Skew = 1
    MaxTime = 4
INVARIANTS
    ServedOncePerInstance
PROPERTIES
    WithdrawnKeyStopsWorking
    RequestsAreAnswered
CONSTRAINT Focus
CHECK_DEADLOCK FALSE
