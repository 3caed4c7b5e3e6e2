----------------------------- MODULE MCHaltControl -----------------------------
(* HaltControl for TLC: the environments in which it keeps its promises, each *)
(* with the days and the realized profit and loss that matter in it.          *)
EXTENDS HaltControl

In(may, days, realized) == [faults |-> may, maxDay |-> days, maxRealized |-> realized]

Guarded ==
    {In({}, 2, 1), In({"drift"}, 1, 0), In({"saveFails"}, 1, 0),
     In({"crash", "saveFails"}, 2, 0), In({"drift", "expiry"}, 1, 0)}

=============================================================================
