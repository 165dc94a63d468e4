------------------------------- MODULE MCBuilder -------------------------------
(* A registry of a library and the `gen` package that may depend on it: as    *)
(* the bindgen packages do, through an alias, in a cycle, and with a library  *)
(* whose output is not where its name says.                                   *)
EXTENDS Builder, TLC

CONSTANTS lib, gen

On(p) == [mi |-> p, alias |-> p]
ByAlias(p) == [mi |-> Outside, alias |-> p]
Pkg(d, deps) == [output |-> d, deps |-> deps]

MCCatalog == (lib :> {Pkg(lib, {}), Pkg(lib, {On(gen)})})
          @@ (gen :> {Pkg(gen, {}), Pkg(gen, {On(lib)}), Pkg(lib, {ByAlias(lib)})})

MCExtra == {On(lib)}
================================================================================
