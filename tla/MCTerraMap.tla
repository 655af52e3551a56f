----------------------------- MODULE MCTerraMap -----------------------------
(***************************************************************************)
(* Small instances of TerraMap: a known that reads a file and one that      *)
(* reads the first.                                                         *)
(***************************************************************************)
EXTENDS TerraMap, TLC

CONSTANTS a, b, r1, r2, r3, v1, v2

OneOnFile == [k \in {a, b} |-> IF k = a THEN File ELSE a]

ThreeRuns == [r \in {r1, r2, r3} |-> IF r = r3 THEN b ELSE a]

Alike == Permutations({r1, r2}) \cup Permutations({v1, v2})
=============================================================================
