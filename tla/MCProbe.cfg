SPECIFICATION FairSpec
CONSTANTS
    NULL = NULL
    Unreadable = Unreadable
    Tables <- MCTables
    Uploads <- OneUpload
    Runs = {r1, r2}
    Probe = Probe
    Modes = {"copy_into", "auto_loader"}
INVARIANTS
    ProbeRestores
    ProbePasses
    ProbeIsContained
PROPERTIES
    ProbeCleansUp
