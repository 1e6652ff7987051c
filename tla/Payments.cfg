SPECIFICATION FairSpec
CONSTANTS
    None = None
    SplitText = SplitText
    Flows = {"f1", "f2"}
    Paywalls = {"settling", "verifying", "stranger", "undeclared", "unnamed", "free", "dear"}
    Requirement <- MCRequirement
    Settling = {"settling"}
    Clients <- MCClients
    Mandate <- MCMandate
    Requests = {"f1", "f2", "again"}
    Repeats = {"again"}
    PerCent <- MCPerCent
    Slack = 1
    ValidFor = 1
    MaxTime = 2
INVARIANTS
    SignedWithinMandate
    MoneyMovesOnce
    ServedIsCovered
    SettledServesOnce
PROPERTY FlowsEnd
CONSTRAINT Focus
CHECK_DEADLOCK FALSE
