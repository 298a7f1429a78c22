\* Holds and releases at any time, and the program dying anywhere but between an item's files and their record.
SPECIFICATION ProduceSpec
CONSTANTS
    N = 4
    Exts <- FourItems
    Pages <- TwoPages
    Start = 1
    Outcomes <- MixedOutcomes
    AbortChoices = {TRUE, FALSE}
    CrashPoints = {"select", "setup", "sweep", "sweepPurged", "loop", "gatePurged", "persisted", "save", "load", "check"}
    MaxStops = 2
    MaxHolds = 2
CHECK_DEADLOCK FALSE
INVARIANTS ControlsNeverShared LoadFileIsExact NoWithheldBytes CountsMatchVolume
PROPERTIES ProductionEnds
