------------------------------- MODULE BuildOrder -------------------------------
(* What sorted_packages promises, in one step: an order of the whole registry *)
(* that respects the dependencies, an error if they form a cycle, a panic if  *)
(* one of them is not a package.  A registry with both defects may show       *)
(* either, but never yields an order.                                         *)
EXTENDS PackageGraph

VARIABLES packages,   \* the registry, not changed by sorting
          outcome,    \* "running", "ok", "err" or "panic"
          result      \* the order returned; << >> unless outcome = "ok"

vars == <<packages, outcome, result>>

Init == /\ IsRegistry(packages)
        /\ outcome = "running"
        /\ result = << >>

Ordered == /\ Closed(packages)
           /\ ~HasCycle(Edges(packages))
           /\ outcome' = "ok"
           /\ IsBuildOrder(result', packages)

CycleError == /\ HasCycle(Edges(packages))
              /\ outcome' = "err"
              /\ result' = << >>

Panic == /\ ~Closed(packages)
         /\ ~HasCycle(Edges(packages))
         /\ outcome' = "panic"
         /\ result' = << >>

Next == /\ outcome = "running"
        /\ Ordered \/ CycleError \/ Panic
        /\ UNCHANGED packages

Spec == Init /\ [][Next]_vars
================================================================================
