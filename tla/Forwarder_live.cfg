\* A working SFTP server, a working and a dead directory; edits that leave the root in place, a halt.
CONSTANTS
    f1 = f1  d1 = d1  d2 = d2  d3 = d3
    Files <- OneFile
    Dests <- ThreeDests
    InitEnabled <- ThreeDests
    Sftp <- OnlyD2
    Unsupported <- NoDests
    Working <- TwoDests
    MaxAttempts = 2
    ReloadRoot = "project"
    NoFile = NoFile
    NoDest = NoDest
    MaxSpools = 2
    MaxEdits = 1
    MaxRestarts = 1
SPECIFICATION FairSpec
PROPERTIES
    EveryFileLeaves
    WorkingDestinationIsServed
