----------------------------- MODULE SortedPackages -----------------------------
(* MoonBitComponent::sorted_packages (src/lib.rs), step by step: the edges go *)
(* into an AcyclicDependencyGraph, its topological layers are pushed one node *)
(* at a time, and the packages no edge mentions are pushed last.              *)
(*                                                                            *)
(* A layer is a HashSet, so its nodes come in any order.  Edges are added and *)
(* the last packages are pushed in the order of the BTreeMap; that order is   *)
(* left open here, which only adds behaviours.                                *)
EXTENDS PackageGraph

CONSTANT Registries   \* the registries sorted_packages may be called with

ASSUME RegistriesAssumption == \A r \in Registries : IsRegistry(r)

VARIABLES packages,   \* self.packages
          stage,      \* where the function is
          todo,       \* edges the first loop has still to add
          graph,      \* the AcyclicDependencyGraph
          layer,      \* what is left of the layer being pushed
          names,      \* names pushed from the layers
          sorted      \* the result under construction

vars == <<packages, stage, todo, graph, layer, names, sorted>>

Terminal == {"ok", "err", "panic"}

Init == /\ packages \in Registries
        /\ stage = "graph"
        /\ todo = Edges(packages)
        /\ graph = {}
        /\ layer = {}
        /\ names = {}
        /\ sorted = << >>

--------------------------------------------------------------------------------
\* Mutant of DependOn: the graph does not refuse a cycle.
DependOnUnchecked(e) == /\ stage = "graph"
                        /\ e \in todo
                        /\ graph' = graph \cup {e}
                        /\ todo' = todo \ {e}
                        /\ UNCHANGED <<packages, stage, layer, names, sorted>>

\* graph.depend_on(package, full_dep)?  adds the edge ...
DependOn(e) == /\ stage = "graph"
               /\ e \in todo
               /\ ~HasCycle(graph \cup {e})
               /\ graph' = graph \cup {e}
               /\ todo' = todo \ {e}
               /\ UNCHANGED <<packages, stage, layer, names, sorted>>

\* ... or fails, and the `?` returns the error.
DependOnCycle(e) == /\ stage = "graph"
                    /\ e \in todo
                    /\ HasCycle(graph \cup {e})
                    /\ stage' = "err"
                    /\ UNCHANGED <<packages, todo, graph, layer, names, sorted>>

GraphDone == /\ stage = "graph"
             /\ todo = {}
             /\ stage' = "layers"
             /\ UNCHANGED <<packages, todo, graph, layer, names, sorted>>

\* The nodes all of whose dependencies are in earlier layers.
Ready == {n \in Nodes(graph) \ names : Succ(graph, n) \subseteq names}

NextLayer == /\ stage = "layers"
             /\ layer = {}
             /\ ~(Nodes(graph) \subseteq names)
             /\ layer' = Ready
             /\ UNCHANGED <<packages, stage, todo, graph, names, sorted>>

\* sorted.push(&self.packages[&package_name]); names.insert(package_name)
Push(n) == /\ stage = "layers"
           /\ n \in layer
           /\ n \in DOMAIN packages
           /\ sorted' = Append(sorted, n)
           /\ names' = names \cup {n}
           /\ layer' = layer \ {n}
           /\ UNCHANGED <<packages, stage, todo, graph>>

\* Mutant of PushUndefined: a name that is not in the registry is skipped.
SkipUndefined(n) == /\ stage = "layers"
                    /\ n \in layer
                    /\ n \notin DOMAIN packages
                    /\ layer' = layer \ {n}
                    /\ names' = names \cup {n}
                    /\ UNCHANGED <<packages, stage, todo, graph, sorted>>

\* Indexing the BTreeMap with a name it does not have panics.
PushUndefined(n) == /\ stage = "layers"
                    /\ n \in layer
                    /\ n \notin DOMAIN packages
                    /\ stage' = "panic"
                    /\ UNCHANGED <<packages, todo, graph, layer, names, sorted>>

LayersDone == /\ stage = "layers"
              /\ layer = {}
              /\ Nodes(graph) \subseteq names
              /\ stage' = "rest"
              /\ UNCHANGED <<packages, todo, graph, layer, names, sorted>>

\* Mutant of PushRest: without the test of `names`.
PushEvery(p) == /\ stage = "rest"
                /\ p \in DOMAIN packages \ (Elems(sorted) \ names)
                /\ sorted' = Append(sorted, p)
                /\ UNCHANGED <<packages, stage, todo, graph, layer, names>>

\* if !names.contains(&package.name) { sorted.push(package) }
PushRest(p) == /\ stage = "rest"
               /\ p \in DOMAIN packages \ (names \cup Elems(sorted))
               /\ sorted' = Append(sorted, p)
               /\ UNCHANGED <<packages, stage, todo, graph, layer, names>>

Return == /\ stage = "rest"
          /\ DOMAIN packages \subseteq names \cup Elems(sorted)
          /\ stage' = "ok"
          /\ UNCHANGED <<packages, todo, graph, layer, names, sorted>>

\* The call is over: nothing moves any more (not a deadlock).
Finished == stage \in Terminal /\ UNCHANGED vars

Step == \/ \E e \in todo : DependOn(e) \/ DependOnCycle(e)
        \/ GraphDone
        \/ NextLayer
        \/ \E n \in layer : Push(n) \/ PushUndefined(n)
        \/ LayersDone
        \/ \E p \in DOMAIN packages : PushRest(p)
        \/ Return

Next == Step \/ Finished

\* The function runs on its caller's thread and never waits.
Fairness == WF_vars(Step)

Spec == Init /\ [][Next]_vars /\ Fairness

--------------------------------------------------------------------------------
TypeOK == /\ IsRegistry(packages)
          /\ stage \in {"graph", "layers", "rest"} \cup Terminal
          /\ todo \subseteq Name \X Name
          /\ graph \subseteq Name \X Name
          /\ layer \subseteq Name
          /\ names \subseteq Name
          /\ sorted \in Seq(DOMAIN packages)

\* At every moment of the sort, not only at its end, the packages already
\* pushed come after everything they depend on (lib.rs:770-777).
PrefixRespectsDeps == DepsFirst(sorted, packages)

\* No package is compiled twice: the layers and the final loop never push the
\* same package (the `names` test at lib.rs:780).
NoPackageTwice == Injective(sorted)

\* The inductive invariant that makes both true.
GraphInv == /\ graph \cup todo = Edges(packages)
            /\ ~HasCycle(graph)
            /\ stage \in {"layers", "rest", "ok", "panic"} => todo = {}
            /\ stage = "graph" => layer = {} /\ names = {}

LayerInv == /\ layer \subseteq Ready
            /\ stage \in {"rest", "ok"} => layer = {} /\ Nodes(graph) \subseteq names
            /\ names \subseteq Nodes(graph)
            /\ names \subseteq Elems(sorted)
            /\ stage \notin {"rest", "ok"} => Elems(sorted) = names
            /\ stage = "ok" => Elems(sorted) = DOMAIN packages
            /\ stage = "err" => HasCycle(Edges(packages))
            /\ stage = "panic" => ~Closed(packages)

IInv == /\ TypeOK
        /\ GraphInv
        /\ LayerInv
        /\ PrefixRespectsDeps
        /\ NoPackageTwice

--------------------------------------------------------------------------------
\* The whole function keeps its promise: see BuildOrder.
Outcome == IF stage \in Terminal THEN stage ELSE "running"
Result == IF stage = "ok" THEN sorted ELSE << >>

Promise == INSTANCE BuildOrder WITH outcome <- Outcome, result <- Result

\* Sorting returns an order of the whole registry that respects the
\* dependencies, or fails for the reason it reports (lib.rs:747-786).
ImplementsBuildOrder == Promise!Spec

\* Whatever the registry, the call comes back: an acyclic graph always has a
\* next layer (lib.rs:772).
Terminates == <>(stage \in Terminal)
================================================================================
