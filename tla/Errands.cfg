SPECIFICATION Spec
CONSTANTS
    Builds = {a, b, trap}
    Runnable = {a, b}
    Probes = 2
    MaxVersion = 2
    Failing = TRUE
    NoBuild = NoBuild
    MaxCalls = 6
    Limit = 5
    PageSize = 2
    PageCap = 1
    NoSeq = NoSeq
    Clients = {"c1", "c2"}
    MaxIndex = 2
    ChainFails = TRUE
    Keys = {k1, k2}
    Peers = {p1}
    OtherCards <- MCOtherCards
    Registry = "identity registry"
    MaxDeploys = 3
    MaxMints = 2
    Killing = TRUE
    Nothing = Nothing
    Setups = {"s1", "s2", "s3"}
    Proofs = {"p"}
    Version <- MCVersion
    Policy <- MCPolicy
    HasKey = {"s1"}
    Killable = {"s1", "s2", "s3", "p"}
    Overlapping = FALSE
    Faulty = {"s2", "p"}
    NoValue = NoValue
    None = None
    SplitText = SplitText
    Mandates <- MCMandates
    Requests <- MCRequests
    MaxTime = 2
INVARIANTS
    PromotedWasProbed
    ReadsEachOnce
    HonestIsConsistent
    ReportIsComplete
    CardMatchesItsKey
    FailureMeansADeploy
    
    SetupProvisions
    ApprovedIssuerIsBoundAndTrusted
    BindingFixesTheTerms
PROPERTIES
    NeverReopened
    TighteningNeverApproves
CONSTRAINT OneReader
CHECK_DEADLOCK FALSE
