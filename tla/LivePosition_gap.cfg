CONSTANTS
    Setups <- Averaged
    Jump = 20

SPECIFICATION Spec

INVARIANT AddsNeedAFurtherFall

CHECK_DEADLOCK FALSE
