SPECIFICATION ApartSpec
CONSTANTS
    Proc = {c1, c2}
    Pid = {i1, i2}
    Machine = {m1, m2}
    Address = {a1, a2}
    Port = {k1}
    Request <- SamePort
    Faults = {"recycle", "crash", "release"}
    NoPid = NoPid
    NoMachine = NoMachine
    NoRecord = NoRecord
    m1 = m1
    m2 = m2
    a1 = a1
    a2 = a2
    k1 = k1
    k2 = k2
SYMMETRY Symmetry
PROPERTIES
    MatchingTunnelKept
    OnlyTunnelsSignalled
    AtomicSpec
