SPECIFICATION FairSpec
CONSTANTS
    None = None
    SplitText = SplitText
    i1 = i1
    i2 = i2
    i3 = i3
    k1 = k1
    k2 = k2
    Invocations = {i1, i2}
    Requests <- MixedRequests
    Mandates <- MCMandates
    Names <- MCNames
    Keys = {k1, k2}
    Credentials <- MCCredentials
    MaxU64 = 4
    DaySeconds = 2
    MaxTime = 2
    MaxFaults = 0
INVARIANT
    EffectsWereAuthorised
PROPERTIES
    RecordsCommitUnderCurrentMandate
    ImplementsLedger
    InvocationsEnd
CHECK_DEADLOCK FALSE
