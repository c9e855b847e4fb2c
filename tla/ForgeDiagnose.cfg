SPECIFICATION FairSpec
CONSTANTS
    Endpoint = {e1}
    Entry = {d}
    Tries = 2
CHECK_DEADLOCK FALSE
PROPERTY
    DiagnoseOnlyReads
