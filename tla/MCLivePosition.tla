---------------------------- MODULE MCLivePosition ----------------------------
(* An instance of LivePosition: a position that may be averaged down twice, *)
(* every add a step of 4 percent below the average, on a price that falls   *)
(* once and stays there.                                                    *)
EXTENDS LivePosition

Averaged ==
    {[exits |-> {[on |-> TRUE, stop |-> 20, take |-> 0, trail |-> 6, tight |-> 3, offset |-> 5,
                  onlyAfter |-> FALSE, atrStop |-> 0, atrTrail |-> 0, roi |-> {}, ladder |-> <<>>, maxHold |-> 0]},
      scaleIn |-> [on |-> TRUE, most |-> 2, step |-> 4, lot |-> 4], ticks |-> {900, 1000},
      entries |-> 1, edits |-> 0, restarts |-> 0, crashes |-> FALSE, lot |-> 8, atr |-> 0]}
=============================================================================
