SPECIFICATION Spec
CONSTANTS
    Proc = {p1, p2}
    Image = {i1}
    Address = {a1, a2}
    Port = {n1}
    Op = {"up", "stop"}
    MaxFaults = 0
    NoMachine = NoMachine
    NoRecord = NoRecord
    NoAddress = NoAddress
    NoImage = NoImage
    NoTunnel = NoTunnel
INVARIANT
    NoOrphanMachine
