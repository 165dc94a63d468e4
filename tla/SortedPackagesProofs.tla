-------------------------- MODULE SortedPackagesProofs --------------------------
(* Proofs about sorted_packages, for every set of names and every registry:   *)
(* the inductive invariant, and that the step-by-step sort implements the     *)
(* one-step promise of BuildOrder.                                            *)
EXTENDS SortedPackages, TLAPS

\* More edges never remove a cycle.
LEMMA CycleMonotone ==
  ASSUME NEW g, NEW h, g \subseteq h, HasCycle(g)
  PROVE  HasCycle(h)
<1>1. PICK S \in (SUBSET Nodes(g)) \ {{}} : \A n \in S : Succ(g, n) \cap S # {}
  BY DEF HasCycle
<1>2. Nodes(g) \subseteq Nodes(h)
  BY DEF Nodes
<1>3. \A n : Succ(g, n) \subseteq Succ(h, n)
  BY <1>2 DEF Succ
<1>4. S \in (SUBSET Nodes(h)) \ {{}} /\ \A n \in S : Succ(h, n) \cap S # {}
  BY <1>1, <1>2, <1>3
<1> QED
  BY <1>4 DEF HasCycle

\* The empty graph has no cycle.
LEMMA EmptyAcyclic == ~HasCycle({})
BY DEF HasCycle, Nodes

\* A node of an acyclic graph that is not pushed yet implies that some node is
\* ready: the layers cannot run dry before the graph does.
LEMMA AcyclicHasReady ==
  ASSUME NEW g, NEW done, ~HasCycle(g), ~(Nodes(g) \subseteq done)
  PROVE  \E n \in Nodes(g) \ done : Succ(g, n) \subseteq done
<1> DEFINE S == Nodes(g) \ done
<1>1. S \in (SUBSET Nodes(g)) \ {{}}
  OBVIOUS
<1>2. ~(\A n \in S : Succ(g, n) \cap S # {})
  BY <1>1 DEF HasCycle
<1>3. PICK n \in S : Succ(g, n) \cap S = {}
  BY <1>2
<1>4. Succ(g, n) \subseteq done
  BY <1>3 DEF Succ
<1> QED
  BY <1>3, <1>4

\* The edges are pairs of names.
LEMMA EdgesType ==
  ASSUME NEW r, IsRegistry(r)
  PROVE  Edges(r) \subseteq Name \X Name
<1> SUFFICES ASSUME NEW p \in DOMAIN r, NEW q \in FullDeps(r, p)
             PROVE  <<p, q>> \in Name \X Name
  BY DEF Edges
<1>1. PICK d \in r[p].deps : q = FullDep(d)
  BY DEF FullDeps
<1>2. p \in Name /\ d \in Dep
  BY DEF IsRegistry, Package
<1> QED
  BY <1>1, <1>2 DEF Dep, FullDep

\* A dependency of a package is an edge of the graph.
LEMMA DepIsEdge ==
  ASSUME NEW r, NEW p \in DOMAIN r, NEW q \in FullDeps(r, p)
  PROVE  /\ <<p, q>> \in Edges(r)
         /\ p \in Nodes(Edges(r))
         /\ q \in Succ(Edges(r), p)
<1>1. <<p, q>> \in Edges(r)
  BY DEF Edges
<1>2. p \in Nodes(Edges(r)) /\ q \in Nodes(Edges(r))
  BY <1>1 DEF Nodes
<1> QED
  BY <1>1, <1>2 DEF Succ

\* Appending a package whose dependencies are all in s keeps s ordered.
LEMMA AppendKeepsOrder ==
  ASSUME NEW r, NEW s \in Seq(DOMAIN r), NEW n \in DOMAIN r,
         DepsFirst(s, r), FullDeps(r, n) \subseteq Elems(s)
  PROVE  DepsFirst(Append(s, n), r)
<1> DEFINE t == Append(s, n)
<1>1. Len(t) = Len(s) + 1 /\ t[Len(s) + 1] = n /\ DOMAIN t = 1..(Len(s) + 1)
  OBVIOUS
<1>2. \A i \in 1..Len(s) : t[i] = s[i]
  OBVIOUS
<1> SUFFICES ASSUME NEW i \in DOMAIN t, NEW q \in FullDeps(r, t[i])
             PROVE  \E j \in 1..(i - 1) : t[j] = q
  BY DEF DepsFirst
<1>3. CASE i = Len(s) + 1
  <2>1. q \in Elems(s)
    BY <1>1, <1>3
  <2>2. PICK j \in DOMAIN s : s[j] = q
    BY <2>1 DEF Elems
  <2>3. j \in 1..(i - 1) /\ t[j] = q
    BY <1>2, <1>3, <2>2
  <2> QED
    BY <2>3
<1>4. CASE i \in 1..Len(s)
  <2>1. PICK j \in 1..(i - 1) : s[j] = q
    BY <1>2, <1>4 DEF DepsFirst
  <2>2. t[j] = q
    BY <1>2, <1>4, <2>1
  <2> QED
    BY <2>1, <2>2
<1> QED
  BY <1>1, <1>3, <1>4

\* Appending what is not there yet keeps s free of duplicates and adds one
\* element.
LEMMA AppendNew ==
  ASSUME NEW T, NEW s \in Seq(T), NEW n \in T, n \notin Elems(s), Injective(s)
  PROVE  /\ Append(s, n) \in Seq(T)
         /\ Elems(Append(s, n)) = Elems(s) \cup {n}
         /\ Injective(Append(s, n))
<1> DEFINE t == Append(s, n)
<1>1. t \in Seq(T) /\ DOMAIN t = 1..(Len(s) + 1) /\ DOMAIN s = 1..Len(s)
  OBVIOUS
<1>2. t[Len(s) + 1] = n /\ \A i \in 1..Len(s) : t[i] = s[i]
  OBVIOUS
<1>3. 1..(Len(s) + 1) = (1..Len(s)) \cup {Len(s) + 1}
  OBVIOUS
<1> HIDE DEF t
<1>4. Elems(t) = Elems(s) \cup {n}
  BY <1>1, <1>2, <1>3 DEF Elems
<1>5. Injective(t)
  <2> SUFFICES ASSUME NEW i \in DOMAIN t, NEW j \in DOMAIN t, t[i] = t[j]
               PROVE  i = j
    BY DEF Injective
  <2>1. CASE i \in DOMAIN s /\ j \in DOMAIN s
    BY <1>1, <1>2, <2>1 DEF Injective
  <2>2. CASE i = Len(s) + 1 /\ j \in DOMAIN s
    BY <1>1, <1>2, <2>2 DEF Elems
  <2>3. CASE j = Len(s) + 1 /\ i \in DOMAIN s
    BY <1>1, <1>2, <2>3 DEF Elems
  <2> QED
    BY <1>1, <1>3, <2>1, <2>2, <2>3
<1> QED
  BY <1>1, <1>4, <1>5 DEF t

--------------------------------------------------------------------------------
LEMMA InitIInv == Init => IInv
<1> SUFFICES ASSUME Init PROVE IInv
  OBVIOUS
<1>1. IsRegistry(packages)
  BY RegistriesAssumption DEF Init
<1>2. TypeOK
  BY <1>1, EdgesType DEF Init, TypeOK
<1>3. GraphInv
  BY EmptyAcyclic DEF Init, GraphInv
<1>4. LayerInv
  BY DEF Init, LayerInv, Ready, Elems, Terminal
<1>5. PrefixRespectsDeps /\ NoPackageTwice
  BY DEF Init, PrefixRespectsDeps, NoPackageTwice, DepsFirst, Injective
<1> QED
  BY <1>2, <1>3, <1>4, <1>5 DEF IInv

LEMMA NextIInv == IInv /\ [Next]_vars => IInv'
<1> SUFFICES ASSUME IInv, [Next]_vars PROVE IInv'
  OBVIOUS
<1> USE DEF IInv
<1>1. ASSUME NEW e \in todo, DependOn(e) PROVE IInv'
  <2>1. TypeOK'
    BY <1>1 DEF TypeOK, DependOn
  <2>2. GraphInv'
    BY <1>1 DEF GraphInv, DependOn
  <2>3. LayerInv'
    BY <1>1 DEF LayerInv, GraphInv, DependOn, Terminal
  <2>4. PrefixRespectsDeps' /\ NoPackageTwice'
    BY <1>1 DEF PrefixRespectsDeps, NoPackageTwice, DependOn
  <2> QED
    BY <2>1, <2>2, <2>3, <2>4
<1>2. ASSUME NEW e \in todo, DependOnCycle(e) PROVE IInv'
  <2>1. HasCycle(Edges(packages))
    <3>1. graph \cup {e} \subseteq Edges(packages)
      BY <1>2 DEF GraphInv
    <3> QED
      BY <1>2, <3>1, CycleMonotone DEF DependOnCycle
  <2>2. TypeOK'
    BY <1>2 DEF TypeOK, DependOnCycle, Terminal
  <2>3. GraphInv'
    BY <1>2 DEF GraphInv, DependOnCycle
  <2>4. LayerInv'
    BY <1>2, <2>1 DEF LayerInv, DependOnCycle, Ready
  <2>5. PrefixRespectsDeps' /\ NoPackageTwice'
    BY <1>2 DEF PrefixRespectsDeps, NoPackageTwice, DependOnCycle
  <2> QED
    BY <2>2, <2>3, <2>4, <2>5
<1>3. CASE GraphDone
  <2>1. TypeOK'
    BY <1>3 DEF TypeOK, GraphDone
  <2>2. GraphInv'
    BY <1>3 DEF GraphInv, GraphDone
  <2>3. LayerInv'
    BY <1>3 DEF LayerInv, GraphDone, Ready, Elems
  <2>4. PrefixRespectsDeps' /\ NoPackageTwice'
    BY <1>3 DEF PrefixRespectsDeps, NoPackageTwice, GraphDone
  <2> QED
    BY <2>1, <2>2, <2>3, <2>4
<1>4. CASE NextLayer
  <2>1. TypeOK'
    BY <1>4 DEF TypeOK, NextLayer, Ready, Nodes
  <2>2. GraphInv'
    BY <1>4 DEF GraphInv, NextLayer
  <2>3. LayerInv'
    BY <1>4 DEF LayerInv, NextLayer, Ready
  <2>4. PrefixRespectsDeps' /\ NoPackageTwice'
    BY <1>4 DEF PrefixRespectsDeps, NoPackageTwice, NextLayer
  <2> QED
    BY <2>1, <2>2, <2>3, <2>4
<1>5. ASSUME NEW n \in layer, Push(n) PROVE IInv'
  <2>1. /\ n \in DOMAIN packages
        /\ n \in Nodes(graph)
        /\ n \notin names
        /\ Succ(graph, n) \subseteq names
        /\ names = Elems(sorted)
        /\ graph = Edges(packages)
    BY <1>5 DEF Push, LayerInv, GraphInv, Ready
  <2>2. FullDeps(packages, n) \subseteq Elems(sorted)
    BY <2>1, DepIsEdge
  <2>3. /\ sorted' \in Seq(DOMAIN packages)
        /\ Elems(sorted') = Elems(sorted) \cup {n}
        /\ Injective(sorted')
    BY <1>5, <2>1, AppendNew DEF Push, TypeOK, NoPackageTwice
  <2>4. TypeOK'
    BY <1>5, <2>3 DEF TypeOK, Push
  <2>5. GraphInv'
    BY <1>5 DEF GraphInv, Push
  <2>6. layer' \subseteq Ready'
    BY <1>5 DEF LayerInv, Push, Ready
  <2>7. LayerInv'
    BY <1>5, <2>1, <2>3, <2>6 DEF LayerInv, Push, Terminal
  <2>8. PrefixRespectsDeps'
    BY <1>5, <2>1, <2>2, AppendKeepsOrder DEF PrefixRespectsDeps, Push, TypeOK
  <2>9. NoPackageTwice'
    BY <2>3 DEF NoPackageTwice
  <2> QED
    BY <2>4, <2>5, <2>7, <2>8, <2>9
<1>6. ASSUME NEW n \in layer, PushUndefined(n) PROVE IInv'
  <2>1. ~Closed(packages)
    <3>1. n \in Nodes(Edges(packages)) /\ n \notin DOMAIN packages
      BY <1>6 DEF PushUndefined, LayerInv, GraphInv, Ready
    <3>2. PICK e \in Edges(packages) : n = e[1] \/ n = e[2]
      BY <3>1 DEF Nodes
    <3>3. PICK p \in DOMAIN packages : e \in {p} \X FullDeps(packages, p)
      BY <3>2 DEF Edges
    <3> QED
      BY <3>1, <3>2, <3>3 DEF Closed
  <2>2. TypeOK'
    BY <1>6 DEF TypeOK, PushUndefined, Terminal
  <2>3. GraphInv'
    BY <1>6 DEF GraphInv, PushUndefined
  <2>4. LayerInv'
    BY <1>6, <2>1 DEF LayerInv, PushUndefined, Ready
  <2>5. PrefixRespectsDeps' /\ NoPackageTwice'
    BY <1>6 DEF PrefixRespectsDeps, NoPackageTwice, PushUndefined
  <2> QED
    BY <2>2, <2>3, <2>4, <2>5
<1>7. CASE LayersDone
  <2>1. TypeOK'
    BY <1>7 DEF TypeOK, LayersDone
  <2>2. GraphInv'
    BY <1>7 DEF GraphInv, LayersDone
  <2>3. LayerInv'
    BY <1>7 DEF LayerInv, LayersDone, Ready
  <2>4. PrefixRespectsDeps' /\ NoPackageTwice'
    BY <1>7 DEF PrefixRespectsDeps, NoPackageTwice, LayersDone
  <2> QED
    BY <2>1, <2>2, <2>3, <2>4
<1>8. ASSUME NEW p \in DOMAIN packages, PushRest(p) PROVE IInv'
  <2>1. p \notin Elems(sorted) /\ p \notin Nodes(Edges(packages))
    BY <1>8 DEF PushRest, LayerInv, GraphInv
  <2>2. FullDeps(packages, p) = {}
    BY <2>1, DepIsEdge
  <2>3. /\ sorted' \in Seq(DOMAIN packages)
        /\ Elems(sorted') = Elems(sorted) \cup {p}
        /\ Injective(sorted')
    BY <1>8, <2>1, AppendNew DEF PushRest, TypeOK, NoPackageTwice
  <2>4. TypeOK'
    BY <1>8, <2>3 DEF TypeOK, PushRest
  <2>5. GraphInv'
    BY <1>8 DEF GraphInv, PushRest
  <2>6. LayerInv'
    BY <1>8, <2>3 DEF LayerInv, PushRest, Ready
  <2>7. PrefixRespectsDeps'
    BY <1>8, <2>2, AppendKeepsOrder DEF PrefixRespectsDeps, PushRest, TypeOK
  <2>8. NoPackageTwice'
    BY <2>3 DEF NoPackageTwice
  <2> QED
    BY <2>4, <2>5, <2>6, <2>7, <2>8
<1>9. CASE Return
  <2>1. Elems(sorted) = DOMAIN packages
    <3>1. Elems(sorted) \subseteq DOMAIN packages
      BY DEF TypeOK, Elems
    <3>2. names \subseteq Elems(sorted)
      BY DEF LayerInv
    <3> QED
      BY <1>9, <3>1, <3>2 DEF Return
  <2>2. TypeOK'
    BY <1>9 DEF TypeOK, Return, Terminal
  <2>3. GraphInv'
    BY <1>9 DEF GraphInv, Return
  <2>4. LayerInv'
    BY <1>9, <2>1 DEF LayerInv, Return, Ready
  <2>5. PrefixRespectsDeps' /\ NoPackageTwice'
    BY <1>9 DEF PrefixRespectsDeps, NoPackageTwice, Return
  <2> QED
    BY <2>2, <2>3, <2>4, <2>5
<1>10. CASE UNCHANGED vars
  BY <1>10 DEF vars, TypeOK, GraphInv, LayerInv, PrefixRespectsDeps, NoPackageTwice, Ready
<1> QED
  BY <1>1, <1>2, <1>3, <1>4, <1>5, <1>6, <1>7, <1>8, <1>9, <1>10 DEF Next, Step, Finished

--------------------------------------------------------------------------------
\* The invariant that explains why the sort is right, at every one of its
\* steps (lib.rs:747-786).
THEOREM SortInvariant == Spec => []IInv
<1>1. Init => IInv
  BY InitIInv
<1>2. IInv /\ [Next]_vars => IInv'
  BY NextIInv
<1> QED
  BY <1>1, <1>2, PTL DEF Spec

\* Whatever has been pushed comes after everything it depends on
\* (lib.rs:770-777).
THEOREM OrderRespected == Spec => []PrefixRespectsDeps
<1>1. IInv => PrefixRespectsDeps
  BY DEF IInv
<1> QED
  BY <1>1, SortInvariant, PTL

\* No package is pushed twice (lib.rs:779-783).
THEOREM NeverTwice == Spec => []NoPackageTwice
<1>1. IInv => NoPackageTwice
  BY DEF IInv
<1> QED
  BY <1>1, SortInvariant, PTL

\* The sort never gets stuck between two layers: while a node is missing and
\* the layer is used up, the next layer is not empty (lib.rs:772).
THEOREM LayersNeverStuck ==
  Spec => [](stage = "layers" /\ layer = {} /\ ~(Nodes(graph) \subseteq names) => Ready # {})
<1>1. IInv => (stage = "layers" /\ layer = {} /\ ~(Nodes(graph) \subseteq names) => Ready # {})
  BY AcyclicHasReady DEF IInv, GraphInv, Ready
<1> QED
  BY <1>1, SortInvariant, PTL

--------------------------------------------------------------------------------
\* The instance reads the registry with the operators of its own copy of
\* PackageGraph; they are the same operators.
LEMMA SameGraph ==
  /\ Promise!HasCycle(Promise!Edges(packages)) <=> HasCycle(Edges(packages))
  /\ Promise!Closed(packages) <=> Closed(packages)
  /\ Promise!IsRegistry(packages) <=> IsRegistry(packages)
  /\ \A s : Promise!IsBuildOrder(s, packages) <=> IsBuildOrder(s, packages)
<1>1. \A p : Promise!FullDeps(packages, p) = FullDeps(packages, p)
  BY DEF Promise!FullDeps, FullDeps, Promise!FullDep, FullDep
<1>2. Promise!Edges(packages) = Edges(packages)
  BY <1>1 DEF Promise!Edges, Edges
<1>3. \A g : Promise!HasCycle(g) <=> HasCycle(g)
  BY DEF Promise!HasCycle, HasCycle, Promise!Nodes, Nodes, Promise!Succ, Succ
<1>4. Promise!Closed(packages) <=> Closed(packages)
  BY <1>1 DEF Promise!Closed, Closed
<1>5. Promise!IsRegistry(packages) <=> IsRegistry(packages)
  BY DEF Promise!IsRegistry, IsRegistry, Promise!Package, Package, Promise!Dep, Dep
<1>6. \A s : Promise!IsBuildOrder(s, packages) <=> IsBuildOrder(s, packages)
  BY <1>1 DEF Promise!IsBuildOrder, IsBuildOrder, Promise!Elems, Elems,
              Promise!Injective, Injective, Promise!DepsFirst, DepsFirst
<1> QED
  BY <1>2, <1>3, <1>4, <1>5, <1>6

\* Every step of the sort is a step of the promise, or changes nothing of it.
LEMMA StepSimulates == IInv /\ IInv' /\ [Next]_vars => [Promise!Next]_Promise!vars
<1> SUFFICES ASSUME IInv, IInv', [Next]_vars PROVE [Promise!Next]_Promise!vars
  OBVIOUS
<1> USE DEF Promise!vars, Outcome, Result, Terminal
<1>1. ASSUME NEW e \in todo, DependOn(e) PROVE UNCHANGED Promise!vars
  BY <1>1 DEF DependOn
<1>2. ASSUME NEW e \in todo, DependOnCycle(e) PROVE Promise!Next
  <2>1. HasCycle(Edges(packages)) /\ packages' = packages
    BY <1>2 DEF IInv, LayerInv, DependOnCycle
  <2> QED
    BY <1>2, <2>1, SameGraph DEF DependOnCycle, Promise!Next, Promise!CycleError
<1>3. CASE GraphDone
  BY <1>3 DEF GraphDone
<1>4. CASE NextLayer
  BY <1>4 DEF NextLayer
<1>5. ASSUME NEW n \in layer, Push(n) PROVE UNCHANGED Promise!vars
  BY <1>5 DEF Push
<1>6. ASSUME NEW n \in layer, PushUndefined(n) PROVE Promise!Next
  <2>1. ~Closed(packages) /\ packages' = packages /\ ~HasCycle(Edges(packages))
    BY <1>6 DEF IInv, LayerInv, GraphInv, PushUndefined
  <2> QED
    BY <1>6, <2>1, SameGraph DEF PushUndefined, Promise!Next, Promise!Panic
<1>7. CASE LayersDone
  BY <1>7 DEF LayersDone
<1>8. ASSUME NEW p \in DOMAIN packages, PushRest(p) PROVE UNCHANGED Promise!vars
  BY <1>8 DEF PushRest
<1>9. CASE Return
  <2>1. packages' = packages /\ sorted' = sorted /\ stage = "rest" /\ stage' = "ok"
    BY <1>9 DEF Return
  <2>2. ~HasCycle(Edges(packages))
    BY <2>1 DEF IInv, GraphInv
  <2>3. IsBuildOrder(sorted, packages)
    BY <2>1 DEF IInv, TypeOK, LayerInv, PrefixRespectsDeps, NoPackageTwice, IsBuildOrder
  <2>4. Closed(packages)
    <3> SUFFICES ASSUME NEW p \in DOMAIN packages, NEW q \in FullDeps(packages, p)
                 PROVE  q \in DOMAIN packages
      BY DEF Closed
    <3>1. PICK i \in DOMAIN sorted : sorted[i] = p
      BY <2>3 DEF IsBuildOrder, Elems
    <3>2. PICK j \in 1..(i - 1) : sorted[j] = q
      BY <2>3, <3>1 DEF IsBuildOrder, DepsFirst
    <3> QED
      BY <2>3, <3>1, <3>2 DEF IsBuildOrder
  <2> QED
    BY <2>1, <2>2, <2>3, <2>4, SameGraph DEF Promise!Next, Promise!Ordered
<1>10. CASE UNCHANGED vars
  BY <1>10 DEF vars
<1> QED
  BY <1>1, <1>2, <1>3, <1>4, <1>5, <1>6, <1>7, <1>8, <1>9, <1>10 DEF Next, Step, Finished

\* sorted_packages returns an order of the whole registry that respects the
\* dependencies, an error only for a cycle and a panic only for a dependency
\* that is no package (lib.rs:747-786).
THEOREM SortImplements == Spec => Promise!Spec
<1>1. Init => Promise!Init
  BY RegistriesAssumption, SameGraph DEF Init, Promise!Init, Outcome, Result, Terminal
<1>2. IInv /\ IInv' /\ [Next]_vars => [Promise!Next]_Promise!vars
  BY StepSimulates
<1> QED
  BY <1>1, <1>2, SortInvariant, PTL DEF Spec, Promise!Spec
================================================================================
