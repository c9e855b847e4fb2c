SPECIFICATION FairSpec
CONSTANTS
    Proc = {p1, p2}
    Alias = {a, b}
    HostName = {h1, h2}
    UserLine = {own}
    Include = Include
    NoHost = NoHost
    NoProc = NoProc
    Races = FALSE
INVARIANTS
    TypeOK
    OneInclude
PROPERTIES
    OnlyOwnBlockChanges
    RemoveLeavesNothing
    DeveloperLinesKept
    AtomicSpec
    CallsReturn
