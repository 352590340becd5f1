\* A reload of the configuration where the installation puts it.
CONSTANTS
    f1 = f1  d1 = d1  d2 = d2  d3 = d3
    Files <- OneFile
    Dests <- OneDest
    InitEnabled <- OneDest
    Sftp <- NoDests
    Unsupported <- NoDests
    Working <- OneDest
    MaxAttempts = 1
    ReloadRoot = "above"
    NoFile = NoFile
    NoDest = NoDest
    MaxSpools = 1
    MaxEdits = 1
    MaxRestarts = 0
SPECIFICATION FairSpec
PROPERTY
    SpooledFileIsTried
