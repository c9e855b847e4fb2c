SPECIFICATION FairSpec
CONSTANT ProbeTries = 2
CHECK_DEADLOCK FALSE
INVARIANT
    LeavesHostAsFound
