SPECIFICATION FairSpec
CONSTANTS
    Missing = Missing
    Invalid = Invalid
    Image = Image
    OtherImage = OtherImage
    Pkg = Pkg
    BadPkg = BadPkg
    Name = Name
    k1 = k1
    k2 = k2
    LegalPackages = {Pkg}
    LegalCommands = {Name}
    DefaultImage = Image
    Managed = {Image}
    MaxPort = 3
    SharedFiles <- MCSharedFiles
    LocalFiles <- MCLocalFiles
    Key = {k1, k2}
    KeyFiles <- MCKeyFiles
    BootTries = 2
    ReadinessTries = 2
    FallbackTries = 2
    MaxFaults = 2
PROPERTY
    UpEndsOldSettings
