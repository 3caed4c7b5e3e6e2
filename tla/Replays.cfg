CONSTANTS
    Order <- Symbols
    Settings <- AllSettings
    BarsPerDay = 2
    Positions <- AllPositions
    Jump = 20
    Searches <- AllSearches
    Passes <- AllPasses
    Strategies <- AllStrategies
    Full = 8

SPECIFICATION ReplaysSpec

INVARIANTS
    ReplayIsHonest
    RungsSoldOnce
    SearchIsHonest
    PicksAreHonest

PROPERTIES
    TrailNeverFalls
    BuysKeepTheRules

CHECK_DEADLOCK FALSE
