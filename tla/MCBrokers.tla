------------------------------ MODULE MCBrokers ------------------------------
(* Instances of Brokers for TLC.                                           *)
EXTENDS Brokers

Adapter(kind) ==
    [kind |-> kind, precision |-> DefaultPrecision, quantities |-> {3, 5}, held |-> 5,
     limits |-> kind # "t212", rejects |-> kind # "saxo", names |-> "nothing", losesReply |-> FALSE,
     fails |-> FALSE, calls |-> 2, changes |-> 0]

Reliable ==
    { Adapter("alpaca"), Adapter("sim"),
      [Adapter("saxo") EXCEPT !.quantities = {7, 8, 17}, !.held = 16],
      [Adapter("saxo") EXCEPT !.quantities = {9}, !.calls = 1, !.changes = 3],
      [Adapter("t212") EXCEPT !.names = "anything", !.quantities = {15}, !.held = 7,
                              !.precision = 0, !.calls = 1],
      [Adapter("alpaca") EXCEPT !.losesReply = TRUE, !.quantities = {3}] }
    \cup {[Adapter("t212") EXCEPT !.precision = p, !.names = "the most it takes",
                                 !.quantities = {3, 15}, !.held = 14, !.rejects = p = 0,
                                 !.fails = p = 1] : p \in {0, 1, 3}}
    \cup {[Adapter("t212") EXCEPT !.precision = 1, !.quantities = {15}, !.rejects = FALSE]}

=============================================================================
