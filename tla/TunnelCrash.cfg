SPECIFICATION Spec
CONSTANTS
    Proc = {c1}
    Pid = {i1, i2}
    Machine = {m1}
    Address = {a1, a2}
    Port = {k1, k2}
    Request <- UpDown
    Faults = {"crash"}
    NoPid = NoPid
    NoMachine = NoMachine
    NoRecord = NoRecord
    m1 = m1
    m2 = m2
    a1 = a1
    a2 = a2
    k1 = k1
    k2 = k2
INVARIANT
    LiveTunnelsRecorded
