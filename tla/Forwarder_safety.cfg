\* A third destination nobody supports; edits and reloads that move the root, a halt.
CONSTANTS
    f1 = f1  d1 = d1  d2 = d2  d3 = d3
    Files <- OneFile
    Dests <- ThreeDests
    InitEnabled <- TwoDests
    Sftp <- OnlyD2
    Unsupported <- OnlyD3
    Working <- TwoDests
    MaxAttempts = 2
    ReloadRoot = "above"
    NoFile = NoFile
    NoDest = NoDest
    MaxSpools = 2
    MaxEdits = 2
    MaxRestarts = 1
SPECIFICATION Spec
INVARIANTS
    TypeOK
    DeliveredIsTrue
PROPERTIES
    ArchivedWasDelivered
    DeliveredIsFinal
