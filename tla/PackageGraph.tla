------------------------------ MODULE PackageGraph ------------------------------
(* The package registry of a MoonBitComponent and the dependency graph that   *)
(* `sorted_packages` reads off it.                                            *)
(*                                                                            *)
(* A package `{root}/a/b` is named by its path `a/b` below the root package,  *)
(* so that a directory below target/wasm/release/build and the package whose  *)
(* artefacts are expected there have the same name.                           *)
EXTENDS Naturals, Sequences, FiniteSets

CONSTANTS Name,     \* paths below the root package (and below the build dir)
          Outside   \* a .mi path that is not below target/wasm/release/build

ASSUME OutsideAssumption == Outside \notin Name

\* One entry of MoonBitPackage.dependencies: where the .mi file is, the alias.
Dep == [mi : Name \cup {Outside}, alias : Name]

\* A MoonBitPackage: the directory of its output, and its dependencies.
Package == [output : Name, deps : SUBSET Dep]

\* The BTreeMap of packages is a function on the names that are defined.
IsRegistry(r) == /\ DOMAIN r \subseteq Name
                 /\ \A p \in DOMAIN r : r[p] \in Package

\* The package a dependency is taken to mean: the directory of a .mi file in
\* the build directory, the alias (below the root package) for any other path.
FullDep(d) == IF d.mi # Outside THEN d.mi ELSE d.alias

FullDeps(pkgs, p) == {FullDep(d) : d \in pkgs[p].deps}

\* Mutant of Edges: a package is a dependency of what it depends on.
EdgesReversed(pkgs) == UNION {FullDeps(pkgs, p) \X {p} : p \in DOMAIN pkgs}

Edges(pkgs) == UNION {{p} \X FullDeps(pkgs, p) : p \in DOMAIN pkgs}

Nodes(g) == {e[1] : e \in g} \cup {e[2] : e \in g}

Succ(g, n) == {m \in Nodes(g) : <<n, m>> \in g}

\* A finite graph has a cycle iff some non-empty set of its nodes is left by no
\* node for good: each one has a successor in the set.
HasCycle(g) == \E S \in (SUBSET Nodes(g)) \ {{}} :
                  \A n \in S : Succ(g, n) \cap S # {}

\* Every dependency is a package of the registry.
Closed(pkgs) == \A p \in DOMAIN pkgs : FullDeps(pkgs, p) \subseteq DOMAIN pkgs

Elems(s) == {s[i] : i \in DOMAIN s}

Injective(s) == \A i, j \in DOMAIN s : s[i] = s[j] => i = j

\* Each element of s comes after every package it depends on.
DepsFirst(s, pkgs) ==
  \A i \in DOMAIN s : \A q \in FullDeps(pkgs, s[i]) : \E j \in 1..(i - 1) : s[j] = q

\* What a caller of sorted_packages relies on: every package once, after the
\* packages it depends on.
IsBuildOrder(s, pkgs) == /\ s \in Seq(DOMAIN pkgs)
                         /\ Elems(s) = DOMAIN pkgs
                         /\ Injective(s)
                         /\ DepsFirst(s, pkgs)
================================================================================
