------------------------------ MODULE MCTestMode ------------------------------
(* TestMode for TLC: the environments, each with the orders, windows and days *)
(* that matter in it.                                                         *)
EXTENDS TestMode

In(may, nOrders, nSims, days) ==
    [events |-> may, maxOrders |-> nOrders, maxSims |-> nSims, maxDay |-> days]

Calm    == {In({}, 3, 1, 2), In({"restart"}, 2, 1, 2), In({"overlap"}, 1, 1, 1)}
=============================================================================
