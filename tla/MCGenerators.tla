------------------------------ MODULE MCGenerators -------------------------------
(* The worlds of MCBindings, and every text of up to five characters.         *)
EXTENDS MCBindings, Generators

MCScripts == UNION {[1..n -> {"x", "CR", "LF"}] : n \in 0..5}
================================================================================
