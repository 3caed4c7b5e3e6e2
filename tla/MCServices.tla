------------------------------ MODULE MCServices ------------------------------
(***************************************************************************)
(* Instances of Services: two sinks or two lanes in use, a save during an  *)
(* alert; two symbols and one request slot; two callers of one history; a  *)
(* refused neighbour, two outages; a rate change from each side; what may  *)
(* stand in the way of an order; a venue with short days and holidays.     *)
(***************************************************************************)
EXTENDS Services

Alert == [sinks |-> 1, answers |-> {"ok", "busy", "silent"}, overlap |-> FALSE, swaps |-> 1,
          exits |-> FALSE, halts |-> 2, routine |-> 1]
MCAlerts == {Alert, [Alert EXCEPT !.sinks = 2, !.halts = 1], [Alert EXCEPT !.overlap = TRUE, !.halts = 1],
             [Alert EXCEPT !.swaps = 0, !.routine = 2, !.answers = {"ok", "busy"}]}

Vote == [voter |-> "ai", moves |-> FALSE, forgets |-> FALSE, back |-> FALSE]
MCVotes == {[Vote EXCEPT !.moves = TRUE], [Vote EXCEPT !.back = TRUE],
            [Vote EXCEPT !.voter = "ml", !.moves = TRUE, !.forgets = TRUE]}

MCReach == [c \in Callers |-> IF c = CHOOSE d \in Callers : TRUE THEN 0 ELSE 2]

Feed == [kind |-> "finnhub", known |-> Symbols, outages |-> 2, edits |-> 3]
MCFeeds == {Feed, [Feed EXCEPT !.kind = "binance", !.known = {CHOOSE s \in Symbols : TRUE}]}

Price == [overlap |-> FALSE, late |-> FALSE]
MCPrices == {Price, [Price EXCEPT !.late = TRUE]}

Quiet == {"closed", "off"}
Alone == [entry |-> Quiet, exit |-> Quiet, add |-> Quiet \cup {"sizing"}]
Fallible == {"fails", "rejected", "fills"}
MCScenes == {[Alone EXCEPT !.entry = @ \cup {"protected", "venue", "sizing", "cap", "fills"}, !.exit = @ \cup {"fills"}],
             [Alone EXCEPT !.add = @ \cup {"protected", "guard", "cap", "fills"}, !.entry = @ \cup {"guard"}],
             [Alone EXCEPT !.exit = @ \cup Fallible],
             [Alone EXCEPT !.entry = @ \cup Fallible \cup {"banned"}],
             [Alone EXCEPT !.add = @ \cup Fallible \cup {"banned"}]}

Session(o, c, f, t) == [open |-> o, close |-> c, from |-> f, to |-> t]
(* Day 0 regular with a break, day 1 short, day 2 a weekend, day 3 a       *)
(* holiday, day 4 regular.                                                 *)
Listed == [sessions |-> {Session(2, 6, 4, 5), Session(10, 12, 0, 0), Session(34, 38, 36, 37)}, irregular |-> {1, 3},
           early |-> 1, serves |-> 2, calendar |-> "known", regular |-> [open |-> 2, close |-> 6]]
MCVenues == {Listed, [Listed EXCEPT !.calendar = "unknown"], [Listed EXCEPT !.serves = 5, !.early = 0],
  [Listed EXCEPT !.calendar = "always", !.sessions = {Session(0, 41, 0, 0)}, !.serves = 0]}

MCMeets == {[overlap |-> FALSE, restarts |-> TRUE], [overlap |-> TRUE, restarts |-> FALSE]}
=============================================================================
