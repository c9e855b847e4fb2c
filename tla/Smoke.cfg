SPECIFICATION FairSpec
CONSTANT ProbeTries = 3
CHECK_DEADLOCK FALSE
INVARIANTS
    LeaksReported
    CleansUp
    ForeignMachineKept
PROPERTY
    RunReturns
