\* One buy at a time: every money limit holds of the account itself.
CONSTANTS
    Symbols = {s1, s2}
    Loop = loop
    Desk = desk
    Price = 2
    EffPrice = 3
    FixedFee = 1
    MaxOrderValue = 4
    MaxDailySpend = 11
    CashReserve = 2
    PositionLimits <- Installations
    InitialCash = 14
    Faults = {}
    MaxQty = 2
    Ids = {r1, r2}
    MaxDay = 2
SYMMETRY Symmetry
SPECIFICATION Spec

INVARIANTS
    SpentWithinCap
    WithinEveryCap
    ReservationsMatchOrders
