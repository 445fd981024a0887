SPECIFICATION RunnerSpec
CONSTANTS
    Ingestors = {a, b, c}
    Unknown = unknown
    Concurrency = 2
INVARIANTS RunnerTypeOK DependenciesFirst FailureContained
PROPERTY Termination
CHECK_DEADLOCK FALSE
