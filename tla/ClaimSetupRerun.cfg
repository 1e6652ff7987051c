SPECIFICATION SetupSpec
CONSTANTS
    NoValue = NoValue
    Setups = {"s1", "s2", "s3"}
    Proofs = {"p"}
    Version <- MCVersion
    Policy <- MCPolicy
    HasKey = {"s1"}
    Killable = {"s1", "s2", "s3", "p"}
    Overlapping = FALSE
    Faulty = {}
INVARIANT ClaimSetupRerun
CHECK_DEADLOCK FALSE
