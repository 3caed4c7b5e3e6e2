--------------------------- MODULE MCOrderLifecycle ---------------------------
(* OrderLifecycle for TLC: the settings its runs explore.                    *)
EXTENDS OrderLifecycle, TLC

Setting(execution, fallback, lister, may, sends) ==
    [execution |-> execution, fallback |-> fallback, lister |-> lister,
     faults |-> may, maxOrders |-> sends]

Busy == {"overlap", "partial", "latePartial", "staleList", "hurry", "syncFails"}

Guarded ==
    {Setting("market", FALSE, TRUE, {"partial", "clearEarly", "clearFilled"}, 3),
     Setting("market", FALSE, TRUE, Busy, 2),
     Setting("market", FALSE, TRUE,
             {"hand", "crash", "lostReply", "partial", "clearFilled", "hurry"}, 2),
     Setting("limit", TRUE, TRUE, {}, 3),
     Setting("limit", TRUE, FALSE, {}, 3),
     Setting("limit", TRUE, TRUE, {"hurry", "staleList"}, 3),
     Setting("limit", TRUE, TRUE, {"crash", "lostReply", "cancelFails"}, 3),
     Setting("sliced", FALSE, TRUE, {}, 3)}

Alive ==
    {Setting("limit", FALSE, TRUE, {"hurry", "staleList"}, 3),
     Setting("market", FALSE, TRUE, {"hand", "clearFilled", "hurry", "staleList"}, 2)}

Symmetry == Permutations(Watchers)
=============================================================================
