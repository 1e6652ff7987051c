SPECIFICATION FairTaskSpec
CONSTANTS
    None = None
    SplitText = SplitText
    Calls = {t1, t2}
    Args <- MCArgs
    Messages <- MCMessages
    MayCancel = TRUE
    Commitment = Commitment
    MaxTime = 1
INVARIANTS
    EvaluatedWhileAsked
    ComponentIsNoLaxer
    CompletedCarriesItsVerdict
PROPERTIES
    TasksEnd
    ImplementsTaskLife
CHECK_DEADLOCK FALSE
