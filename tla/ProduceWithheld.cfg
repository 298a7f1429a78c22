\* The program dies after it has written an item's files and before it records them.
SPECIFICATION ProduceSpec
CONSTANTS
    N = 2
    Exts <- TwoItems
    Pages <- NoPages
    Start = 1
    Outcomes <- AllOk
    AbortChoices = {FALSE}
    CrashPoints = {"written"}
    MaxStops = 1
    MaxHolds = 1
CHECK_DEADLOCK FALSE
INVARIANTS NoWithheldBytes
