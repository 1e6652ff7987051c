SPECIFICATION PromSpec
CONSTANTS
    Builds = {a, trap}
    Runnable = {a}
    Probes = 4
    MaxVersion = 1
    Failing = FALSE
    NoBuild = NoBuild
INVARIANT ClaimSafeToPromote
