------------------------------ MODULE MCWatchlist ------------------------------
(* Watchlist for TLC: the environments, each with the requests, buys, restarts *)
(* and prices that matter in it.                                               *)
EXTENDS Watchlist, TLC

CONSTANTS a, b

Base == [events |-> {}, named |-> {a}, universe |-> {a, b}, keepManual |-> TRUE,
         keepHeld |-> FALSE, maxSymbols |-> 1, dropAfter |-> 0, topPrice |-> a :> 1 @@ b :> 1,
         maxRequests |-> 0, maxBuys |-> 0, maxStarts |-> 0]

(* Requests and restarts at any step, with nothing bought. *)
Edited(may, manual) ==
    [Base EXCEPT !.events = may, !.keepManual = manual, !.maxRequests = IF manual THEN 2 ELSE 1, !.maxStarts = 1]
(* A position through every kind of buy and sell, and its tracking. *)
Held(may, top, again) ==
    [Base EXCEPT !.events = may, !.topPrice = a :> 1 @@ b :> top, !.maxBuys = 1,
                 !.maxStarts = again]

Tracked ==
    {Edited({}, TRUE), Edited({"crash"}, TRUE), Edited({}, FALSE),
     [Held({}, 1, 0) EXCEPT !.dropAfter = 1, !.keepHeld = TRUE],
     [Held({"crash", "fileFails"}, 1, 1) EXCEPT !.dropAfter = 1],
     Held({"midpass", "midclose"}, 1, 1),
     [Held({}, 2, 1) EXCEPT !.universe = {a}]}

(* Two positions in a symbol that keeps losing. *)
Losing == {[Base EXCEPT !.universe = {}, !.dropAfter = 1, !.maxBuys = 2]}
=============================================================================
