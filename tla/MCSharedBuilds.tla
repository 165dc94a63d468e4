------------------------------ MODULE MCSharedBuilds ------------------------------
(* A conventional registry: packages that do not depend on one another.       *)
EXTENDS SharedBuilds, TLC

MCCatalog == [p \in Name |-> {[output |-> p, deps |-> {}]}]

Symmetry == Permutations(Build)
================================================================================
