---------------------------- MODULE MCSortedPackages ----------------------------
(* Every registry over three names whose packages depend on any of them       *)
(* through the build directory, or on one through an alias.                   *)
EXTENDS SortedPackages

CONSTANTS a, b, c

MCDeps == [mi : {a, b, c}, alias : {a}] \cup [mi : {Outside}, alias : {b}]

MCPackages == [output : {a}, deps : SUBSET MCDeps]

MCRegistries == UNION {[D -> MCPackages] : D \in SUBSET Name}
================================================================================
