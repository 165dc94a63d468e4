------------------------------- MODULE MCBuildV8 -------------------------------
(* One package, which may depend on one that is never defined.                *)
EXTENDS BuildV8, TLC

CONSTANTS lib, gen

MCCatalog ==
  (lib :> {}) @@ (gen :> {[output |-> gen, deps |-> D] :
                            D \in {{}, {[mi |-> Outside, alias |-> lib]}}})
================================================================================
