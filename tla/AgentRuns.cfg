SPECIFICATION Spec
CONSTANTS
    Threw = Threw
    Nothing = Nothing
    EmptyText = EmptyText
    MINIMUM_ENTRIES = 16
    SignBit = 128
    Verifiers = {"agent", "wrapped", "beyond", "unlisted", "negative"}
    Agents = {"agent"}
    Credential <- MCCredential
    FailClosed <- MCFailClosed
    Configured = TRUE
    Inputs <- MCInputs
    Lists <- MCLists
    MaxDeploys = 1
    Plan <- MCPlan
    Cap = 2
    Window = 3
    MaxRetries = 3
    Crashing = TRUE
    Orders = {o1}
    Calls = 3
    Retries = 1
    Patient = TRUE
    None = None
INVARIANTS
    OrdersLeaveOnce
    QuotaIsWaitedOut
    NothingBeforeTheCheck
    ListTellsTheTruth
    ClearedOnAnAnswer
    PatientHostOrdersOnce
CONSTRAINT ChecksFirst
CHECK_DEADLOCK FALSE
