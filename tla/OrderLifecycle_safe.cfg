\* Market, limit and sliced orders under the faults each property allows.
CONSTANTS
    Loop = loop
    Operator = operator
    Watchers = {w1, w2}
    Settings <- Guarded
    MaxQty = 2
SPECIFICATION Spec
SYMMETRY Symmetry

INVARIANTS
    NoStackedSells
    NoPhantomShares
    OrdersAccountedFor
