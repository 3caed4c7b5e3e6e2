----------------------------- MODULE MCRiskLedger -----------------------------
(* RiskLedger for TLC: reservation ids are interchangeable, and so are the   *)
(* symbols, which all trade at one price under the same limits.  Two sets of *)
(* position limits: under the first the invested total binds, under the      *)
(* second the ceiling on one position and the number of positions.           *)
EXTENDS RiskLedger, TLC

Symmetry == Permutations(Ids) \cup Permutations(Symbols)

Installations ==
    {[perPosition |-> 0, invested |-> 6, positions |-> 0],
     [perPosition |-> 4, invested |-> 0, positions |-> 1]}
=============================================================================
