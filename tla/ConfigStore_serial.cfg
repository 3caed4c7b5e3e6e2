SPECIFICATION FairSpec
CONSTANTS
    Symbols = {s1, s2}
    LossTuneQueue = 1
    Environments <- Serial

INVARIANTS
    ProcessMatchesFile
    SavedIsSafe

PROPERTIES
    AppliedWasSearched
    LossRequestServed

CHECK_DEADLOCK FALSE
