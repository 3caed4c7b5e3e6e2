---------------------------------- MODULE Sums ----------------------------------
(***************************************************************************)
(* The sum of a function's values: of numbers of something, as the number  *)
(* of all of them together (Total), or of any integers (SumOver).          *)
(***************************************************************************)
EXTENDS Integers, FiniteSets, FiniteSetsExt

SumOver(f) == MapThenSumSet(LAMBDA x : f[x], DOMAIN f)

Units(f) == UNION {{x} \X (1..f[x]) : x \in DOMAIN f}
Total(f) == Cardinality(Units(f))
=============================================================================
