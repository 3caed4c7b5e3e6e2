\* The calm environments: one handler at a time with restarts and a midnight,
\* and overlapping handlers for what holds even then.
CONSTANTS
    Loop = loop
    Operator = operator
    Watcher = watcher
    Environments <- Calm
SPECIFICATION FairSpec

INVARIANTS
    WindowIsUndone
    BrokerRestored

PROPERTIES
    HaltsAreReal
    WindowEnds
