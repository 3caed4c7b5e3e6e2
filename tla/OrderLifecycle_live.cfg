\* Late outcomes, reconciling, and holdings nobody has a record of.
CONSTANTS
    Loop = loop
    Operator = operator
    Watchers = {w1}
    Settings <- Alive
    MaxQty = 2
SPECIFICATION FairSpec
PROPERTIES
    ExitsComeBack
    HoldingsGetTracked
