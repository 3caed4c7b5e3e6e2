\* Edits, passes and restarts around a position.
CONSTANTS
    a = a
    b = b
    Symbols = {a, b}
    Loop = loop
    Operator = operator
    Pass = pass
    Environments <- Tracked
SPECIFICATION FairSpec

INVARIANTS
    ListsAreTrue
    TrailKeepsPeak

PROPERTIES
    OwnedIsSpared
    HeldGetsTracked
