\* Nothing overlaps: settings edits, resumes, restarts, crashes, failing saves
\* and positions sold by hand.
CONSTANTS
    Loop = loop
    Closer = closer
    Operator = operator
    Equities = {8, 10}
    Phantom = 2
    DrawdownPct = 20
    DailyLossPct = 11
    RealizedPct = 10
    Environments <- Guarded
SPECIFICATION FairSpec

INVARIANTS
    StoreKeepsUp

PROPERTIES
    HaltEndsOnlyByResume
    HaltsExactlyOnLoss
    HaltGetsStored
