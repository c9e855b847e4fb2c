SPECIFICATION Spec
CONSTANTS
    Proc = {p1}
    Image = {i1}
    Address = {a1}
    Port = {n1}
    Op = {"up", "destroy", "upgrade"}
    MaxFaults = 2
    NoMachine = NoMachine
    NoRecord = NoRecord
    NoAddress = NoAddress
    NoImage = NoImage
    NoTunnel = NoTunnel
PROPERTY
    UpLeavesNoStaleKey
