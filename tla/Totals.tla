-------------------------------- MODULE Totals --------------------------------
(***************************************************************************)
(* The sum of a function to natural numbers, as the number of units that   *)
(* its values are made of: without the recursion over the domain that      *)
(* MapThenSumSet has, so that sums can be proved about.                    *)
(***************************************************************************)
EXTENDS Naturals, FiniteSets

Units(f) == UNION {{x} \X (1..f[x]) : x \in DOMAIN f}

Total(f) == Cardinality(Units(f))
===============================================================================
