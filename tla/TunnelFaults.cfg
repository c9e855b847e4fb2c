SPECIFICATION FairSpec
CONSTANTS
    Proc = {c1}
    Pid = {i1, i2}
    Machine = {m1, m2}
    Address = {a1, a2}
    Port = {k1}
    Request <- OnePort
    Faults = {"crash", "disk", "start", "release", "ps", "stubborn", "recycle", "session"}
    NoPid = NoPid
    NoMachine = NoMachine
    NoRecord = NoRecord
    m1 = m1
    m2 = m2
    a1 = a1
    a2 = a2
    k1 = k1
    k2 = k2
PROPERTIES
    OnlyMarkedSignalled
    CallsReturn
