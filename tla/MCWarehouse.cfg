SPECIFICATION WSpec
CONSTANTS
    NULL = NULL
    Unreadable = Unreadable
    Tables <- AllTables
    Uploads <- TwoUploads
    Runs = {r1, r2}
    Probe = Probe
    Modes = {"copy_into", "auto_loader"}
    MaxFailures = 2
    SlackDays = 1
SYMMETRY AnyRun
CONSTRAINT OneInGoldFacts
INVARIANTS
    TypeOK
    SilverIsClean
    RoutedOnce
    EachFileLandsOnce
    Reconciles
    ReferencesResolve
    SeededOrdersResolve
    LandedFileIsPublished
PROPERTIES
    RebuildsChangeNothing
    FailuresAreCounted
