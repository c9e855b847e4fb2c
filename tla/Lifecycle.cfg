SPECIFICATION FairSpec
CONSTANTS
    Proc = {p1}
    Image = {i1, i2}
    Address = {a1, a2}
    Port = {n1}
    Op = {"up", "stop", "destroy", "upgrade"}
    MaxFaults = 2
    NoMachine = NoMachine
    NoRecord = NoRecord
    NoAddress = NoAddress
    NoImage = NoImage
    NoTunnel = NoTunnel
INVARIANTS
    TypeOK
    NoOrphanMachine
    PinnedImage
PROPERTIES
    UpAgrees
    CreatorDropsOldTrust
    DestroyCleans
    UpgradeKeepsAWayBack
    RerunSucceeds
