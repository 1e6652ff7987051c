SPECIFICATION ToolSpec
CONSTANTS
    Orders = {o1}
    Calls = 2
    Retries = 3
    Patient = TRUE
    None = None
INVARIANT ClaimToolRetry
CHECK_DEADLOCK FALSE
