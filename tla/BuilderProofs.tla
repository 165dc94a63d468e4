------------------------------ MODULE BuilderProofs ------------------------------
(* Proofs about Builder, and about the two modules that build on it: BuildV8,  *)
(* builds and the start of V8 (MoonC), and SharedBuilds, builds that overlap.  *)
(* They hold for any number of threads, any catalog of packages and any        *)
(* number of edits.                                                            *)
EXTENDS BuildV8, SharedBuilds, TLAPS

\* define_package keeps a registry a registry.
LEMMA DefineKeepsRegistry ==
  ASSUME NEW r, IsRegistry(r), NEW p \in Name, NEW pkg \in Package
  PROVE  IsRegistry([q \in DOMAIN r \cup {p} |-> IF q = p THEN pkg ELSE r[q]])
BY DEF IsRegistry

\* add_dependency does, too.
LEMMA DependKeepsRegistry ==
  ASSUME NEW r, IsRegistry(r), NEW p \in DOMAIN r, NEW d \in Dep
  PROVE  IsRegistry([r EXCEPT ![p].deps = @ \cup {d}])
<1> DEFINE t == [r EXCEPT ![p].deps = @ \cup {d}]
<1>1. DOMAIN t = DOMAIN r
  OBVIOUS
<1>2. ASSUME NEW q \in DOMAIN r PROVE t[q] \in Package
  <2>1. r[q] \in Package
    BY DEF IsRegistry
  <2>2. CASE q = p
    <3>1. t[q] = [r[q] EXCEPT !.deps = @ \cup {d}]
      BY <2>2
    <3> QED
      BY <2>1, <3>1 DEF Package
  <2>3. CASE q # p
    BY <2>1, <2>3
  <2> QED
    BY <2>2, <2>3
<1> QED
  BY <1>1, <1>2 DEF IsRegistry

\* The package being built is in the registry, and its output is a name.
LEMMA CurrentDefined ==
  ASSUME TypeOK, NEW b \in Build, PlaceInv(b),
         pc[b] \in Compiling, next[b] <= Len(order[b])
  PROVE  /\ next[b] \in DOMAIN order[b]
         /\ Current(b) \in DOMAIN packages
         /\ Current(b) \in Name
         /\ Output(b) \in Name
<1>1. order[b] \in Seq(DOMAIN packages) /\ next[b] \in Nat \ {0}
  BY DEF PlaceInv, IsBuildOrder, TypeOK
<1>2. next[b] \in DOMAIN order[b]
  BY <1>1
<1>3. Current(b) \in DOMAIN packages
  BY <1>1, <1>2 DEF Current
<1>4. Current(b) \in Name /\ packages[Current(b)] \in Package
  BY <1>3 DEF TypeOK, IsRegistry
<1> QED
  BY <1>2, <1>3, <1>4 DEF Output, Package

\* An order of the registry is a sequence of names.
LEMMA OrderType ==
  ASSUME NEW r, IsRegistry(r), NEW s, IsBuildOrder(s, r)
  PROVE  s \in Seq(Name)
<1>1. s \in Seq(DOMAIN r) /\ DOMAIN r \subseteq Name
  BY DEF IsRegistry, IsBuildOrder
<1> QED
  BY <1>1

\* What link-core makes is a module, or torn.
LEMMA LinkedType ==
  ASSUME TypeOK, NEW b \in Build, IsBuildOrder(order[b], packages)
  PROVE  Linked(b) \in Module \cup {Torn}
<1>1. \A i \in DOMAIN order[b] : packages[order[b][i]].output \in Name
  BY DEF IsBuildOrder, TypeOK, IsRegistry, Package
<1>2. Inputs(b) \subseteq Object \cup {NoFile, Torn}
  BY <1>1 DEF Inputs, TypeOK
<1>3. main[b] \in Name
  BY BuilderAssumption DEF TypeOK
<1>4. Inputs(b) \cap {NoFile, Torn} = {} => Inputs(b) \subseteq Object
  BY <1>2
<1> QED
  BY <1>3, <1>4 DEF Linked, Module

\* A thread keeps its place while it does not move and the registry stays.
LEMMA PlaceFrame ==
  ASSUME NEW x \in Build, PlaceInv(x), packages' = packages, pc'[x] = pc[x],
         order'[x] = order[x], next'[x] = next[x], held'[x] = held[x]
  PROVE  PlaceInv(x)'
BY DEF PlaceInv

\* A thread outside a call claims nothing.
LEMMA RestingPlace ==
  ASSUME NEW x \in Build, pc'[x] \in Resting \cup {"sort"}, next'[x] = 1
  PROVE  PlaceInv(x)'
BY DEF PlaceInv, Resting, Compiling, Linking, Packing

--------------------------------------------------------------------------------
LEMMA InitShape == Init => Shape
<1> SUFFICES ASSUME Init PROVE Shape
  OBVIOUS
<1>1. IsRegistry(packages)
  BY DEF Init, IsRegistry
<1>2. TypeOK
  BY <1>1, BuilderAssumption DEF Init, TypeOK, Image, Pcs, Resting
<1>3. \A b \in Build : PlaceInv(b)
  BY DEF Init, PlaceInv, Compiling, Linking, Packing, Resting
<1> QED
  BY <1>2, <1>3 DEF Shape

\* A return leaves the types right and the place empty.
LEMMA ReturnShape ==
  ASSUME Shape, NEW b \in Build, NEW how \in Resting, Return(b, how), UNCHANGED <<registry, files>>
  PROVE  Shape'
<1>1. TypeOK'
  BY DEF Shape, TypeOK, Return, Goto, Pcs, registry, files, history, Image
<1>2. ASSUME NEW x \in Build PROVE PlaceInv(x)'
  <2>1. CASE x = b
    BY <2>1, RestingPlace DEF Shape, TypeOK, Return, Goto
  <2>2. CASE x # b
    BY <2>2, PlaceFrame DEF Shape, TypeOK, Return, Goto, registry
  <2> QED
    BY <2>1, <2>2
<1> QED
  BY <1>1, <1>2 DEF Shape

\* A step of b that stays in the call: the other threads keep their places.
LEMMA MoveShape ==
  ASSUME Shape, NEW b \in Build, packages' = packages, TypeOK', PlaceInv(b)',
         \A x \in Build \ {b} : /\ pc'[x] = pc[x] /\ order'[x] = order[x]
                               /\ next'[x] = next[x] /\ held'[x] = held[x]
  PROVE  Shape'
<1>1. ASSUME NEW x \in Build PROVE PlaceInv(x)'
  <2>1. CASE x # b
    BY <2>1, PlaceFrame DEF Shape
  <2> QED
    BY <2>1
<1> QED
  BY <1>1 DEF Shape

LEMMA NextShape == Shape /\ [Next]_vars => Shape'
<1> SUFFICES ASSUME Shape, [Next]_vars PROVE Shape'
  OBVIOUS
<1> USE DEF registry, files, locals, history
<1>0. TypeOK /\ \A b \in Build : PlaceInv(b)
  BY DEF Shape
<1>1. ASSUME NEW p \in Name, NEW pkg \in Catalog[p], DefinePackage(p, pkg) PROVE Shape'
  <2>1. pkg \in Package
    BY BuilderAssumption
  <2>2. IsRegistry(packages')
    <3>1. IsRegistry(packages)
      BY <1>0 DEF TypeOK
    <3>2. packages' = [q \in DOMAIN packages \cup {p} |-> IF q = p THEN pkg ELSE packages[q]]
      BY <1>1 DEF DefinePackage
    <3> QED
      BY <2>1, <3>1, <3>2, DefineKeepsRegistry
  <2>3. TypeOK'
    BY <1>0, <1>1, <2>2 DEF TypeOK, DefinePackage, Image
  <2>4. \A b \in Build : PlaceInv(b)'
    BY <1>0, <1>1, RestingPlace DEF PlaceInv, DefinePackage, NobodyBuilds
  <2> QED
    BY <2>3, <2>4 DEF Shape
<1>2. ASSUME NEW p \in Name, NEW d \in Extra, AddDependency(p, d) PROVE Shape'
  <2>1. d \in Dep
    BY BuilderAssumption
  <2>2. IsRegistry(packages')
    BY <1>0, <1>2, <2>1, DependKeepsRegistry DEF TypeOK, AddDependency
  <2>3. TypeOK'
    BY <1>0, <1>2, <2>2 DEF TypeOK, AddDependency, Image
  <2>4. \A b \in Build : PlaceInv(b)'
    BY <1>0, <1>2, RestingPlace DEF PlaceInv, AddDependency, NobodyBuilds
  <2> QED
    BY <2>3, <2>4 DEF Shape
<1>3. ASSUME NEW p \in Name, WriteSource(p) PROVE Shape'
  <2>1. source' \in [Name -> 0..MaxVersion]
    BY <1>0, <1>3, BuilderAssumption DEF TypeOK, WriteSource
  <2>2. TypeOK'
    BY <1>0, <1>3, <2>1 DEF TypeOK, WriteSource, Image
  <2>3. \A b \in Build : PlaceInv(b)'
    BY <1>0, <1>3, PlaceFrame DEF WriteSource
  <2> QED
    BY <2>2, <2>3 DEF Shape
<1>4. CASE Crash
  <2>1. TypeOK'
    BY <1>0, <1>4 DEF TypeOK, Crash, IsRegistry, Pcs, Resting, Image
  <2>2. \A b \in Build : PlaceInv(b)'
    BY <1>4, RestingPlace DEF Crash, Resting
  <2> QED
    BY <2>1, <2>2 DEF Shape
<1>5. ASSUME NEW b \in Build, Begin(b) PROVE Shape'
  <2>1. TypeOK'
    BY <1>0, <1>5 DEF TypeOK, Begin, Goto, Pcs, Image
  <2>2. PlaceInv(b)'
    BY <1>0, <1>5, RestingPlace DEF PlaceInv, TypeOK, Begin, Goto
  <2> QED
    BY <1>0, <1>5, <2>1, <2>2, MoveShape DEF TypeOK, Begin, Goto
<1>6. ASSUME NEW b \in Build, Sort(b) PROVE Shape'
  <2>1. PICK s : /\ IsBuildOrder(s, packages)
                 /\ order' = [order EXCEPT ![b] = s]
    BY <1>6 DEF Sort
  <2>2. s \in Seq(Name)
    BY <1>0, <2>1, OrderType DEF TypeOK
  <2>3. TypeOK'
    BY <1>0, <1>6, <2>1, <2>2 DEF TypeOK, Sort, Goto, Pcs, Image
  <2>4. PlaceInv(b)'
    <3>1. order'[b] = s /\ pc'[b] = "check" /\ packages' = packages
      BY <1>0, <1>6, <2>1 DEF TypeOK, Sort, Goto
    <3>2. pc[b] = "sort" /\ next'[b] = next[b]
      BY <1>6 DEF Sort
    <3>3. next[b] = 1
      BY <1>0, <3>2 DEF PlaceInv
    <3> QED
      BY <2>1, <2>2, <3>1, <3>2, <3>3 DEF PlaceInv, Compiling, Linking, Packing, Resting
  <2> QED
    BY <1>0, <1>6, <2>1, <2>3, <2>4, MoveShape DEF TypeOK, Sort, Goto
<1>7. ASSUME NEW b \in Build, SortFails(b) PROVE Shape'
  BY <1>7, ReturnShape DEF SortFails, Resting
<1>8. ASSUME NEW b \in Build, Check(b) PROVE Shape'
  <2>1. CASE ~Present(Current(b))
    BY <1>8, <2>1, ReturnShape DEF Check, Resting
  <2>2. CASE Present(Current(b))
    <3>1. Current(b) \in Name
      BY <1>0, <1>8, CurrentDefined DEF Check, Compiling
    <3>2. Compile(Current(b)) \in Object \cup {Torn}
      BY <1>0, <2>2, <3>1 DEF TypeOK, Present, Compile, Compiled, Object
    <3>3. TypeOK'
      BY <1>0, <1>8, <2>2, <3>2 DEF TypeOK, Check, Goto, Pcs, Image
    <3>4. PlaceInv(b)'
      BY <1>0, <1>8, <2>2, <3>2 DEF TypeOK, Check, Goto, PlaceInv, Compiling, Linking, Packing, Resting
    <3> QED
      BY <1>0, <1>8, <2>2, <3>3, <3>4, MoveShape DEF TypeOK, Check, Goto
  <2> QED
    BY <2>1, <2>2
<1>9. ASSUME NEW b \in Build, OpenOutput(b) PROVE Shape'
  <2>1. Output(b) \in Name
    BY <1>0, <1>9, CurrentDefined DEF OpenOutput, PlaceInv, Compiling
  <2>2. TypeOK'
    BY <1>0, <1>9, <2>1 DEF TypeOK, OpenOutput, Goto, Pcs, Image
  <2>3. PlaceInv(b)'
    BY <1>0, <1>9 DEF TypeOK, OpenOutput, Goto, PlaceInv, Compiling, Linking, Packing, Resting
  <2> QED
    BY <1>0, <1>9, <2>2, <2>3, MoveShape DEF TypeOK, OpenOutput, Goto
<1>10. ASSUME NEW b \in Build, EmitOutput(b) PROVE Shape'
  <2>1. Output(b) \in Name
    BY <1>0, <1>10, CurrentDefined DEF EmitOutput, PlaceInv, Compiling
  <2>2. held[b] \in Object
    BY <1>0, <1>10 DEF EmitOutput, PlaceInv
  <2>3. TypeOK'
    BY <1>0, <1>10, <2>1, <2>2 DEF TypeOK, EmitOutput, Goto, Pcs, Image
  <2>4. PlaceInv(b)'
    BY <1>0, <1>10 DEF TypeOK, EmitOutput, Goto, PlaceInv, Compiling, Linking, Packing, Resting
  <2> QED
    BY <1>0, <1>10, <2>3, <2>4, MoveShape DEF TypeOK, EmitOutput, Goto
<1>11. ASSUME NEW b \in Build, Swallow(b) PROVE Shape'
  <2>1. TypeOK'
    BY <1>0, <1>11 DEF TypeOK, Swallow, Goto, Pcs, Image
  <2>2. PlaceInv(b)'
    BY <1>0, <1>11 DEF TypeOK, Swallow, Goto, PlaceInv, Compiling, Linking, Packing, Resting
  <2> QED
    BY <1>0, <1>11, <2>1, <2>2, MoveShape DEF TypeOK, Swallow, Goto
<1>12. ASSUME NEW b \in Build, RunFails(b) PROVE Shape'
  BY <1>12, ReturnShape DEF RunFails, Resting
<1>13. ASSUME NEW b \in Build, Verify(b) PROVE Shape'
  <2>1. CASE artefact[Output(b)] = NoFile
    BY <1>13, <2>1, ReturnShape DEF Verify, Resting
  <2>2. CASE artefact[Output(b)] # NoFile
    <3>1. TypeOK'
      <4>1. next' = [next EXCEPT ![b] = next[b] + 1] /\ next[b] + 1 \in Nat \ {0}
        BY <1>0, <1>13, <2>2 DEF TypeOK, Verify
      <4>2. next' \in [Build -> Nat \ {0}]
        BY <1>0, <4>1 DEF TypeOK
      <4> QED
        BY <1>0, <1>13, <2>2, <4>2 DEF TypeOK, Verify, Goto, Pcs, Image
    <3>2. PlaceInv(b)'
      BY <1>0, <1>13, <2>2 DEF TypeOK, Verify, Goto, PlaceInv, Compiling, Linking, Packing, Resting
    <3> QED
      BY <1>0, <1>13, <2>2, <3>1, <3>2, MoveShape DEF TypeOK, Verify, Goto
  <2> QED
    BY <2>1, <2>2
<1>14. ASSUME NEW b \in Build, StartLink(b) PROVE Shape'
  <2>1. Linked(b) \in Module \cup {Torn}
    BY <1>0, <1>14, LinkedType DEF StartLink, PlaceInv, Compiling
  <2>2. TypeOK'
    BY <1>0, <1>14, <2>1 DEF TypeOK, StartLink, Goto, Pcs, Image
  <2>3. PlaceInv(b)'
    BY <1>0, <1>14, <2>1 DEF TypeOK, StartLink, Goto, PlaceInv, Compiling, Linking, Packing, Resting, IsBuildOrder
  <2> QED
    BY <1>0, <1>14, <2>2, <2>3, MoveShape DEF TypeOK, StartLink, Goto
<1>15. ASSUME NEW b \in Build, MainFails(b) PROVE Shape'
  BY <1>15, ReturnShape DEF MainFails, Resting
<1>16. ASSUME NEW b \in Build, OpenModule(b) PROVE Shape'
  <2>1. TypeOK'
    BY <1>0, <1>16 DEF TypeOK, OpenModule, Goto, Pcs, Image
  <2>2. PlaceInv(b)'
    BY <1>0, <1>16 DEF TypeOK, OpenModule, Goto, PlaceInv, Compiling, Linking, Packing, Resting
  <2> QED
    BY <1>0, <1>16, <2>1, <2>2, MoveShape DEF TypeOK, OpenModule, Goto
<1>17. ASSUME NEW b \in Build, EmitModule(b) PROVE Shape'
  <2>1. held[b] \in Module
    BY <1>0, <1>17 DEF EmitModule, PlaceInv, Linking
  <2>2. TypeOK'
    BY <1>0, <1>17, <2>1 DEF TypeOK, EmitModule, Goto, Pcs, Image
  <2>3. PlaceInv(b)'
    BY <1>0, <1>17 DEF TypeOK, EmitModule, Goto, PlaceInv, Compiling, Linking, Packing, Resting
  <2> QED
    BY <1>0, <1>17, <2>2, <2>3, MoveShape DEF TypeOK, EmitModule, Goto
<1>18. ASSUME NEW b \in Build, Embed(b) PROVE Shape'
  <2>1. module \in Module \cup {Torn}
    BY <1>0, <1>18 DEF TypeOK, Embed, Image
  <2>2. TypeOK'
    BY <1>0, <1>18, <2>1 DEF TypeOK, Embed, Goto, Pcs, Image
  <2>3. PlaceInv(b)'
    BY <1>0, <1>18, <2>1 DEF TypeOK, Embed, Goto, PlaceInv, Compiling, Linking, Packing, Resting
  <2> QED
    BY <1>0, <1>18, <2>2, <2>3, MoveShape DEF TypeOK, Embed, Goto
<1>19. ASSUME NEW b \in Build, EmitEmbedded(b) PROVE Shape'
  <2>1. held[b] \in Module \cup {Torn}
    BY <1>0, <1>19 DEF EmitEmbedded, PlaceInv
  <2>2. TypeOK'
    BY <1>0, <1>19, <2>1 DEF TypeOK, EmitEmbedded, Goto, Pcs, Image
  <2>3. PlaceInv(b)'
    BY <1>0, <1>19 DEF TypeOK, EmitEmbedded, Goto, PlaceInv, Compiling, Linking, Packing, Resting
  <2> QED
    BY <1>0, <1>19, <2>2, <2>3, MoveShape DEF TypeOK, EmitEmbedded, Goto
<1>20. ASSUME NEW b \in Build, Create(b) PROVE Shape'
  <2>1. embedded \in Module
    BY <1>0, <1>20 DEF TypeOK, Create, Image
  <2>2. TypeOK'
    BY <1>0, <1>20, <2>1 DEF TypeOK, Create, Goto, Pcs, Image
  <2>3. PlaceInv(b)'
    BY <1>0, <1>20, <2>1 DEF TypeOK, Create, Goto, PlaceInv, Compiling, Linking, Packing, Resting
  <2> QED
    BY <1>0, <1>20, <2>2, <2>3, MoveShape DEF TypeOK, Create, Goto
<1>21. ASSUME NEW b \in Build, EmitTarget(b) PROVE Shape'
  <2>1. held[b] \in Module \cup {Torn}
    BY <1>0, <1>21 DEF EmitTarget, PlaceInv
  <2>2. TypeOK'
    BY <1>0, <1>21, <2>1 DEF TypeOK, EmitTarget, Return, Goto, Pcs, Resting, Image
  <2>3. PlaceInv(b)'
    BY <1>0, <1>21, RestingPlace DEF TypeOK, EmitTarget, Return, Goto, Resting
  <2> QED
    BY <1>0, <1>21, <2>2, <2>3, MoveShape DEF TypeOK, EmitTarget, Return, Goto
<1>22. ASSUME NEW b \in Build, PackFails(b) PROVE Shape'
  BY <1>22, ReturnShape DEF PackFails, Resting
<1>23. CASE UNCHANGED vars
  BY <1>0, <1>23, PlaceFrame DEF Shape, vars, TypeOK, Image
<1> QED
  BY <1>1, <1>2, <1>3, <1>4, <1>5, <1>6, <1>7, <1>8, <1>9, <1>10, <1>11, <1>12, <1>13, <1>14,
     <1>15, <1>16, <1>17, <1>18, <1>19, <1>20, <1>21, <1>22, <1>23 DEF Next, Edit, BuildStep

\* Whatever the threads, edits and crashes do, every file and every local has
\* the type its place calls for.
THEOREM ShapeInvariant == Spec => []Shape
<1>1. Init => Shape
  BY InitShape
<1>2. Shape /\ [Next]_vars => Shape'
  BY NextShape
<1> QED
  BY <1>1, <1>2, PTL DEF Spec

\* The type invariant of Builder, for any number of threads.
THEOREM TypeCorrect == Spec => []TypeOK
<1>1. Shape => TypeOK
  BY DEF Shape
<1> QED
  BY <1>1, ShapeInvariant, PTL

--------------------------------------------------------------------------------
(* Freshness, for one thread.                                                 *)

OneThread == \A x, y \in Build : x = y

\* Nothing is claimed of a thread outside a call.
LEMMA RestingFresh ==
  ASSUME NEW b \in Build, pc'[b] \in Resting
  PROVE  ArtefactInv(b)' /\ ModuleInv(b)'
BY DEF ArtefactInv, ModuleInv, Resting, Compiling, Linking, Packing

LEMMA ReturnFresh ==
  ASSUME TypeOK, NEW b \in Build, NEW how \in Resting, Return(b, how)
  PROVE  ArtefactInv(b)' /\ ModuleInv(b)'
<1>1. pc'[b] \in Resting
  BY DEF TypeOK, Return, Goto
<1> QED
  BY <1>1, RestingFresh

\* What a step of b leaves alone.
LEMMA SameComponent ==
  ASSUME UNCHANGED <<packages, source, main>>, NEW b \in Build
  PROVE  /\ Component(b)' = Component(b)
         /\ \A p : Compiled(p)' = Compiled(p)
BY DEF Component, Compiled

\* In a conventional registry the package being built writes to its own name,
\* and no package passed before has that name.
LEMMA CurrentOutput ==
  ASSUME TypeOK, NEW b \in Build, PlaceInv(b), Conventional,
         pc[b] \in Compiling, next[b] <= Len(order[b])
  PROVE  /\ Output(b) = Current(b)
         /\ Current(b) \in DOMAIN packages
         /\ Current(b) \in Name
         /\ next[b] \in DOMAIN order[b]
         /\ \A i \in DOMAIN order[b] : order[b][i] \in Name
         /\ \A i \in DOMAIN order[b] : i # next[b] => order[b][i] # Current(b)
<1>1. IsBuildOrder(order[b], packages)
  BY DEF PlaceInv
<1>2. Current(b) \in DOMAIN packages /\ next[b] \in DOMAIN order[b] /\ Current(b) \in Name
  BY CurrentDefined
<1>3. order[b] \in Seq(Name)
  BY <1>1, OrderType DEF TypeOK
<1>4. \A i \in DOMAIN order[b] : i # next[b] => order[b][i] # Current(b)
  BY <1>1, <1>2 DEF IsBuildOrder, Injective, Current
<1> QED
  BY <1>2, <1>3, <1>4 DEF Output, Conventional

\* If every package has been passed without a loss, or nothing old was on disk,
\* then what can be linked is the component of the registry.
LEMMA LinkedComponent ==
  ASSUME TypeOK, NEW b \in Build, PlaceInv(b), Conventional, ArtefactInv(b),
         clean[b] \/ ~lost[b], pc[b] = "check", next[b] > Len(order[b])
  PROVE  Linked(b) \in {Torn, Component(b)}
<1>1. IsBuildOrder(order[b], packages)
  BY DEF PlaceInv, Compiling
<1>2. \A i \in DOMAIN order[b] : order[b][i] \in DOMAIN packages /\ Passed(b, i)
  <2>1. order[b] \in Seq(DOMAIN packages) /\ next[b] \in Nat
    BY <1>1 DEF IsBuildOrder, TypeOK
  <2> QED
    BY <2>1 DEF Passed
<1>3. Inputs(b) = {artefact[order[b][i]] : i \in DOMAIN order[b]}
  BY <1>2 DEF Inputs, Conventional
<1>4. ASSUME NEW i \in DOMAIN order[b], Inputs(b) \cap {NoFile, Torn} = {}
      PROVE  artefact[order[b][i]] = Compiled(order[b][i])
  <2>1. artefact[order[b][i]] \notin {NoFile, Torn}
    BY <1>3, <1>4
  <2> QED
    BY <1>2, <2>1 DEF ArtefactInv, Compiling
<1>5. Inputs(b) \cap {NoFile, Torn} = {} =>
        Inputs(b) = {Compiled(p) : p \in DOMAIN packages}
  <2> SUFFICES ASSUME Inputs(b) \cap {NoFile, Torn} = {}
               PROVE  Inputs(b) = {Compiled(p) : p \in DOMAIN packages}
    OBVIOUS
  <2>1. DOMAIN packages = {order[b][i] : i \in DOMAIN order[b]}
    BY <1>1 DEF IsBuildOrder, Elems
  <2>2. \A i \in DOMAIN order[b] : artefact[order[b][i]] = Compiled(order[b][i])
    BY <1>4
  <2>3. Inputs(b) = {Compiled(order[b][i]) : i \in DOMAIN order[b]}
    BY <1>3, <2>2
  <2> QED
    BY <2>1, <2>3
<1> QED
  BY <1>5 DEF Linked, Component

LEMMA NextFresh ==
  ASSUME OneThread, IInv, [Next]_vars
  PROVE  FreshInv'
<1> USE DEF registry, files, locals, history
<1>0. TypeOK /\ FreshInv /\ \A b \in Build : PlaceInv(b)
  BY DEF IInv, Shape
<1>1. ASSUME NEW p \in Name, NEW pkg \in Catalog[p], DefinePackage(p, pkg) PROVE FreshInv'
  BY <1>1, RestingFresh DEF DefinePackage, NobodyBuilds, FreshInv
<1>2. ASSUME NEW p \in Name, NEW d \in Extra, AddDependency(p, d) PROVE FreshInv'
  BY <1>2, RestingFresh DEF AddDependency, NobodyBuilds, FreshInv
<1>3. ASSUME NEW p \in Name, WriteSource(p) PROVE FreshInv'
  BY <1>3 DEF WriteSource, FreshInv
<1>4. CASE Crash
  BY <1>4, RestingFresh DEF Crash, Resting, FreshInv
<1>5. ASSUME NEW b \in Build, Begin(b) PROVE FreshInv'
  <2>1. \A x \in Build : x = b
    BY DEF OneThread
  <2>2. pc'[b] = "sort" /\ packages' = packages /\ artefact' = artefact /\ module' = module
    BY <1>0, <1>5 DEF TypeOK, Begin, Goto
  <2>3. clean'[b] => module = NoFile /\ \A d \in Name : artefact[d] = NoFile
    BY <1>0, <1>5 DEF TypeOK, Begin
  <2>4. DOMAIN packages \subseteq Name
    BY <1>0 DEF TypeOK, IsRegistry
  <2>5. ArtefactInv(b)'
    BY <2>2, <2>3, <2>4 DEF ArtefactInv, Compiling, Linking
  <2>6. ModuleInv(b)'
    BY <2>2, <2>3 DEF ModuleInv, Compiling, Linking, Packing
  <2> QED
    BY <2>1, <2>5, <2>6 DEF FreshInv
<1>6. ASSUME NEW b \in Build, BuildStep(b) PROVE FreshInv'
  <2>1. \A x \in Build : x = b
    BY DEF OneThread
  <2>2. UNCHANGED <<packages, source, edited, main>>
    BY <1>6 DEF BuildStep, Sort, SortFails, Check, OpenOutput, EmitOutput, Swallow, RunFails,
                Verify, StartLink, MainFails, OpenModule, EmitModule, Embed, EmitEmbedded,
                Create, EmitTarget, PackFails, Return
  <2> SUFFICES ASSUME ~edited[b], Conventional
               PROVE  ArtefactInv(b)' /\ ModuleInv(b)'
    BY <2>1, <2>2 DEF FreshInv, Conventional
  <2>3. ArtefactInv(b) /\ ModuleInv(b) /\ PlaceInv(b)
    BY <1>0 DEF FreshInv
  <2>4. Component(b)' = Component(b) /\ \A p : Compiled(p)' = Compiled(p)
    BY <2>2, SameComponent
  <2> USE DEF Compiling, Linking, Packing
  <2>5. CASE Sort(b)
    <3>1. pc[b] = "sort" /\ pc'[b] = "check" /\ next'[b] = 1
      BY <1>0, <2>3, <2>5 DEF TypeOK, Sort, Goto, PlaceInv
    <3>2. order'[b] \in Seq(DOMAIN packages)
      BY <1>0, <2>5 DEF TypeOK, Sort, IsBuildOrder
    <3>3. ArtefactInv(b)'
      BY <2>3, <2>4, <2>5, <3>1, <3>2 DEF ArtefactInv, Sort, Passed
    <3> QED
      BY <2>3, <2>4, <2>5, <3>1, <3>3 DEF ModuleInv, Sort
  <2>6. CASE Check(b)
    <3>1. CASE ~Present(Current(b))
      BY <1>0, <2>6, <3>1, ReturnFresh DEF Check, Resting
    <3>2. CASE Present(Current(b))
      <4>1. pc[b] = "check" /\ pc'[b] = "compile" /\ held'[b] = Compile(Current(b))
        BY <1>0, <2>6, <3>2 DEF TypeOK, Check, Goto
      <4>2. held'[b] \in {Torn, Compiled(Current(b))}
        BY <4>1 DEF Compile
      <4>3. UNCHANGED <<artefact, module, order, next, clean, lost>>
        BY <2>6, <3>2 DEF Check
      <4>4. Current(b)' = Current(b)
        BY <4>3 DEF Current
      <4>5. ArtefactInv(b)'
        BY <2>2, <2>3, <2>4, <4>1, <4>2, <4>3, <4>4 DEF ArtefactInv, Passed
      <4> QED
        BY <2>3, <2>4, <4>1, <4>3, <4>5 DEF ModuleInv
    <3> QED
      BY <3>1, <3>2
  <2>7. CASE OpenOutput(b)
    <3>1. pc[b] = "compile" /\ pc'[b] = "emit" /\ UNCHANGED <<order, next, held, clean, lost, module>>
      BY <1>0, <2>7 DEF TypeOK, OpenOutput, Goto
    <3>2. /\ Output(b) = Current(b)
          /\ \A i \in DOMAIN order[b] : i # next[b] => order[b][i] # Current(b)
      BY <1>0, <2>3, <3>1, CurrentOutput DEF PlaceInv
    <3>3. artefact' = [artefact EXCEPT ![Current(b)] = Torn] /\ Current(b)' = Current(b)
      BY <2>7, <3>1, <3>2 DEF OpenOutput, Current
    <3>4. next[b] \in Nat /\ artefact \in [Name -> Object \cup {NoFile, Torn}]
          /\ DOMAIN packages \subseteq Name
      BY <1>0 DEF TypeOK, IsRegistry
    <3>5. ArtefactInv(b)'
      BY <2>2, <2>3, <2>4, <3>1, <3>2, <3>3, <3>4 DEF ArtefactInv, Passed
    <3> QED
      BY <2>3, <2>4, <3>1, <3>5 DEF ModuleInv
  <2>8. CASE EmitOutput(b)
    <3>1. pc[b] = "emit" /\ pc'[b] = "verify" /\ UNCHANGED <<order, next, held, clean, lost, module>>
      BY <1>0, <2>8 DEF TypeOK, EmitOutput, Goto
    <3>2. /\ Output(b) = Current(b)
          /\ Current(b) \in Name
          /\ next[b] \in DOMAIN order[b]
          /\ \A i \in DOMAIN order[b] : order[b][i] \in Name
          /\ \A i \in DOMAIN order[b] : i # next[b] => order[b][i] # Current(b)
      BY <1>0, <2>3, <3>1, CurrentOutput DEF PlaceInv
    <3>3. held[b] = Compiled(Current(b))
      BY <2>3, <2>8, <3>1 DEF EmitOutput, ArtefactInv
    <3>4. artefact' = [artefact EXCEPT ![Current(b)] = Compiled(Current(b))]
      BY <2>8, <3>2, <3>3 DEF EmitOutput
    <3>5. next[b] \in Nat /\ artefact \in [Name -> Object \cup {NoFile, Torn}]
          /\ DOMAIN packages \subseteq Name /\ Current(b) = order[b][next[b]]
      BY <1>0 DEF TypeOK, IsRegistry, Current
    <3>6. ArtefactInv(b)'
      BY <2>2, <2>3, <2>4, <3>1, <3>2, <3>4, <3>5 DEF ArtefactInv, Passed
    <3> QED
      BY <2>3, <2>4, <3>1, <3>6 DEF ModuleInv
  <2>9. CASE Swallow(b)
    <3>1. lost'[b] /\ UNCHANGED <<artefact, module, embedded, order, next, held, clean>>
      BY <1>0, <2>9 DEF TypeOK, Swallow
    <3>2. \/ pc[b] \in {"compile", "emit"} /\ pc'[b] = "verify"
          \/ pc[b] \in {"link", "linkEmit"} /\ pc'[b] = "embed"
      BY <1>0, <2>9 DEF TypeOK, Swallow, Goto
    <3>3. ArtefactInv(b)'
      BY <2>2, <2>3, <2>4, <3>1, <3>2 DEF ArtefactInv
    <3> QED
      BY <2>3, <2>4, <3>1, <3>2, <3>3 DEF ModuleInv
  <2>10. CASE Verify(b)
    <3>1. CASE artefact[Output(b)] = NoFile
      BY <1>0, <2>10, <3>1, ReturnFresh DEF Verify, Resting
    <3>2. CASE artefact[Output(b)] # NoFile
      <4>1. pc[b] = "verify" /\ pc'[b] = "check" /\ next'[b] = next[b] + 1
        BY <1>0, <2>10, <3>2 DEF TypeOK, Verify, Goto
      <4>2. UNCHANGED <<artefact, module, order, clean, lost>>
        BY <2>10, <3>2 DEF Verify
      <4>3. \A i \in DOMAIN order[b] : Passed(b, i)' => Passed(b, i)
        BY <1>0, <4>1 DEF Passed, TypeOK
      <4>4. ArtefactInv(b)'
        BY <2>2, <2>3, <2>4, <4>1, <4>2, <4>3 DEF ArtefactInv
      <4> QED
        BY <2>3, <2>4, <4>1, <4>2, <4>4 DEF ModuleInv
    <3> QED
      BY <3>1, <3>2
  <2>11. CASE StartLink(b)
    <3>1. pc[b] = "check" /\ pc'[b] = "link" /\ held'[b] = Linked(b) /\ next[b] > Len(order[b])
      BY <1>0, <2>11 DEF TypeOK, StartLink, Goto
    <3>2. clean[b] \/ ~lost[b] => held'[b] \in {Torn, Component(b)}
      BY <1>0, <2>3, <3>1, LinkedComponent
    <3>3. UNCHANGED <<artefact, module, order, next, clean, lost>>
      BY <2>11 DEF StartLink
    <3>4. ArtefactInv(b)'
      BY <2>2, <2>3, <2>4, <3>1, <3>3 DEF ArtefactInv, Passed
    <3> QED
      BY <2>3, <2>4, <3>1, <3>2, <3>3, <3>4 DEF ModuleInv
  <2>12. CASE OpenModule(b)
    <3>1. /\ pc[b] = "link" /\ pc'[b] = "linkEmit" /\ module' = Torn
          /\ UNCHANGED <<artefact, order, next, held, clean, lost>>
      BY <1>0, <2>12 DEF TypeOK, OpenModule, Goto
    <3>2. ArtefactInv(b)'
      BY <2>2, <2>3, <2>4, <3>1 DEF ArtefactInv, Passed
    <3> QED
      BY <2>3, <2>4, <3>1, <3>2 DEF ModuleInv
  <2>13. CASE EmitModule(b)
    <3>1. /\ pc[b] = "linkEmit" /\ pc'[b] = "embed" /\ module' = held[b] /\ held[b] # Torn
          /\ UNCHANGED <<artefact, order, next, held, clean, lost>>
      BY <1>0, <2>13 DEF TypeOK, EmitModule, Goto
    <3>2. ArtefactInv(b)'
      BY <2>2, <2>3, <2>4, <3>1 DEF ArtefactInv
    <3> QED
      BY <2>3, <2>4, <3>1, <3>2 DEF ModuleInv
  <2>14. CASE Embed(b)
    <3>1. /\ pc[b] = "embed" /\ pc'[b] = "embedEmit" /\ held'[b] = module /\ module # NoFile
          /\ UNCHANGED <<artefact, module, order, next, clean, lost>>
      BY <1>0, <2>14 DEF TypeOK, Embed, Goto
    <3>2. ArtefactInv(b)'
      BY <2>2, <2>3, <2>4, <3>1 DEF ArtefactInv
    <3> QED
      BY <2>3, <2>4, <3>1, <3>2 DEF ModuleInv
  <2>15. CASE EmitEmbedded(b)
    <3>1. /\ pc[b] = "embedEmit" /\ pc'[b] = "create" /\ embedded' = held[b]
          /\ UNCHANGED <<artefact, module, order, next, clean, lost>>
      BY <1>0, <2>15 DEF TypeOK, EmitEmbedded, Goto
    <3>2. ArtefactInv(b)'
      BY <2>2, <2>3, <2>4, <3>1 DEF ArtefactInv
    <3> QED
      BY <2>3, <2>4, <3>1, <3>2 DEF ModuleInv
  <2>16. CASE Create(b)
    <3>1. /\ pc[b] = "create" /\ pc'[b] = "createEmit" /\ held'[b] = embedded
          /\ embedded \notin {NoFile, Torn}
          /\ UNCHANGED <<artefact, module, order, next, clean, lost>>
      BY <1>0, <2>16 DEF TypeOK, Create, Goto
    <3>2. ArtefactInv(b)'
      BY <2>2, <2>3, <2>4, <3>1 DEF ArtefactInv
    <3> QED
      BY <2>3, <2>4, <3>1, <3>2 DEF ModuleInv
  <2>17. CASE SortFails(b) \/ RunFails(b) \/ MainFails(b) \/ EmitTarget(b) \/ PackFails(b)
    BY <1>0, <2>17, ReturnFresh DEF SortFails, RunFails, MainFails, EmitTarget, PackFails, Resting
  <2> QED
    BY <1>6, <2>5, <2>6, <2>7, <2>8, <2>9, <2>10, <2>11, <2>12, <2>13, <2>14, <2>15, <2>16, <2>17
       DEF BuildStep
<1>7. CASE UNCHANGED vars
  BY <1>0, <1>7 DEF vars, FreshInv, Conventional, ArtefactInv, ModuleInv, Passed, Current,
                    Component, Compiled
<1> QED
  BY <1>1, <1>2, <1>3, <1>4, <1>5, <1>6, <1>7 DEF Next, Edit

\* One thread builds at a time: the inductive invariant.
THEOREM FreshInvariant ==
  ASSUME OneThread
  PROVE  Spec => []IInv
<1>1. Init => IInv
  <2> SUFFICES ASSUME Init PROVE IInv
    OBVIOUS
  <2>1. \A b \in Build : pc[b] = "idle"
    BY DEF Init
  <2>2. FreshInv
    BY <2>1 DEF FreshInv, ArtefactInv, ModuleInv, Compiling, Linking, Packing
  <2> QED
    BY <2>2, InitShape DEF IInv
<1>2. IInv /\ [Next]_vars => IInv'
  BY NextShape, NextFresh DEF IInv
<1> QED
  BY <1>1, <1>2, PTL DEF Spec

\* Only the last write of a build makes it succeed.
LEMMA SuccessIsEmitTarget ==
  ASSUME TypeOK, [Next]_vars, NEW b \in Build, Succeeds(b)
  PROVE  EmitTarget(b)
<1> USE DEF Succeeds, registry, files, locals, history
<1>1. pc' # pc
  OBVIOUS
<1>2. ~Edit
  BY <1>1 DEF Edit, DefinePackage, AddDependency, WriteSource
<1>3. ~Crash
  BY DEF Crash
<1>4. PICK x \in Build : Begin(x) \/ BuildStep(x)
  BY <1>1, <1>2, <1>3 DEF Next, vars
<1>5. x = b
  BY <1>4 DEF TypeOK, Begin, BuildStep, Sort, SortFails, Check, OpenOutput, EmitOutput, Swallow,
              RunFails, Verify, StartLink, MainFails, OpenModule, EmitModule, Embed,
              EmitEmbedded, Create, EmitTarget, PackFails, Return, Goto
<1> QED
  BY <1>4, <1>5 DEF TypeOK, Begin, BuildStep, Sort, SortFails, Check, OpenOutput, EmitOutput,
              Swallow, RunFails, Verify, StartLink, MainFails, OpenModule, EmitModule, Embed,
              EmitEmbedded, Create, PackFails, Return, Goto

\* When a build that began clean, or lost nothing, succeeds, its target is the
\* component of the registry.
LEMMA SuccessIsFresh ==
  ASSUME IInv, [Next]_vars, NEW b \in Build, Succeeds(b), Conventional, clean[b] \/ ~lost[b]
  PROVE  target'[b] = Component(b)
<1>1. TypeOK
  BY DEF IInv, Shape
<1>2. EmitTarget(b)
  BY <1>1, SuccessIsEmitTarget
<1>3. ModuleInv(b)
  BY DEF IInv, FreshInv, Succeeds
<1>4. held[b] = Component(b)
  BY <1>2, <1>3 DEF EmitTarget, ModuleInv, Packing
<1> QED
  BY <1>1, <1>2, <1>4 DEF EmitTarget, TypeOK

\* The first build in a fresh directory that returns Ok has made the component
\* of the registry and the sources, whatever its compiler runs did
\* (lib.rs:488-569, 643-646).
THEOREM FirstBuild ==
  ASSUME OneThread
  PROVE  Spec => FirstBuildFresh
<1>1. IInv /\ [Next]_vars =>
        [\A b \in Build : Succeeds(b) /\ clean[b] /\ Conventional => target'[b] = Component(b)]_vars
  BY SuccessIsFresh
<1> QED
  BY <1>1, FreshInvariant, PTL DEF Spec, FirstBuildFresh

\* A later build that returns Ok, none of whose compiler runs ended early
\* unnoticed, has done so too: after failures, edits and crashes
\* (lib.rs:502-569).
THEOREM Rebuild ==
  ASSUME OneThread
  PROVE  Spec => RebuildFresh
<1>1. IInv /\ [Next]_vars =>
        [\A b \in Build : Succeeds(b) /\ ~lost[b] /\ Conventional => target'[b] = Component(b)]_vars
  BY SuccessIsFresh
<1> QED
  BY <1>1, FreshInvariant, PTL DEF Spec, RebuildFresh

\* No package is compiled against an interface an earlier build left behind
\* (lib.rs:600-604, 770-777).
THEOREM Interfaces ==
  ASSUME OneThread
  PROVE  Spec => []InterfacesFresh
<1>1. IInv => InterfacesFresh
  <2> SUFFICES ASSUME IInv, NEW b \in Build, pc[b] = "compile", ~lost[b], ~edited[b], Conventional,
                      NEW d \in packages[Current(b)].deps, d.mi \in DOMAIN packages
               PROVE  artefact[d.mi] = Compiled(d.mi)
    BY DEF InterfacesFresh
  <2>1. TypeOK /\ PlaceInv(b) /\ ArtefactInv(b)
    BY DEF IInv, Shape, FreshInv
  <2>2. IsBuildOrder(order[b], packages) /\ next[b] <= Len(order[b])
    BY <2>1 DEF PlaceInv, Compiling
  <2>3. next[b] \in DOMAIN order[b]
    BY <2>1, <2>2, CurrentDefined DEF Compiling
  <2>4. d.mi \in FullDeps(packages, Current(b))
    <3>1. d.mi # Outside
      BY <2>1, OutsideAssumption DEF TypeOK, IsRegistry
    <3> QED
      BY <3>1 DEF FullDeps, FullDep
  <2>5. PICK j \in 1..(next[b] - 1) : order[b][j] = d.mi
    BY <2>2, <2>3, <2>4 DEF IsBuildOrder, DepsFirst, Current
  <2>6. j \in DOMAIN order[b] /\ Passed(b, j)
    <3>1. order[b] \in Seq(DOMAIN packages) /\ next[b] \in Nat
      BY <2>1, <2>2 DEF IsBuildOrder, TypeOK
    <3> QED
      BY <2>2, <2>5, <3>1 DEF Passed
  <2> QED
    BY <2>1, <2>5, <2>6 DEF ArtefactInv, Compiling
<1> QED
  BY <1>1, FreshInvariant, PTL

--------------------------------------------------------------------------------
(* MoonC, with the threads of the builds.                                     *)

LEMMA V8InitIInv == V8!Init => V8!IInv
BY DEF V8!Init, V8!IInv, V8!TypeOK, V8!IsolateAfterInit, V8!QuietInv, V8!Away, V8!Window

LEMMA V8NextIInv == V8!IInv /\ [V8!Next]_(V8!vars) => (V8!IInv)'
<1> SUFFICES ASSUME V8!IInv, [V8!Next]_(V8!vars) PROVE (V8!IInv)'
  OBVIOUS
<1> USE DEF V8!IInv, V8!TypeOK, V8!IsolateAfterInit, V8!QuietInv, V8!Away, V8!Window, V8!Goto, V8!Panic, V8!Locked
<1>1. ASSUME NEW t \in Build, V8!Call(t) PROVE (V8!IInv)'
  BY <1>1 DEF V8!Call
<1>2. ASSUME NEW t \in Build, V8!LoadTrue(t) PROVE (V8!IInv)'
  BY <1>2 DEF V8!LoadTrue
<1>3. ASSUME NEW t \in Build, V8!LoadFalse(t) PROVE (V8!IInv)'
  <2>1. (V8!TypeOK)' /\ (V8!IsolateAfterInit)'
    BY <1>3 DEF V8!LoadFalse
  <2>2. (V8!QuietInv)'
    BY <1>3 DEF V8!LoadFalse
  <2> QED
    BY <2>1, <2>2
<1>4. ASSUME NEW t \in Build, V8!InitializePlatform(t) PROVE (V8!IInv)'
  <2>1. CASE V8!Locked(t, "uninitialized")
    BY <1>4, <2>1 DEF V8!InitializePlatform
  <2>2. CASE ~V8!Locked(t, "uninitialized")
    BY <1>4, <2>2 DEF V8!InitializePlatform
  <2> QED
    BY <2>1, <2>2
<1>5. ASSUME NEW t \in Build, V8!Initialize(t) PROVE (V8!IInv)'
  <2>1. CASE V8!Locked(t, "platform")
    BY <1>5, <2>1 DEF V8!Initialize
  <2>2. CASE ~V8!Locked(t, "platform")
    BY <1>5, <2>2 DEF V8!Initialize
  <2> QED
    BY <2>1, <2>2
<1>6. ASSUME NEW t \in Build, V8!Store(t) PROVE (V8!IInv)'
  BY <1>6 DEF V8!Store
<1>7. ASSUME NEW t \in Build, V8!NewIsolate(t) PROVE (V8!IInv)'
  BY <1>7 DEF V8!NewIsolate
<1>8. ASSUME NEW t \in Build, V8!RunScript(t) PROVE (V8!IInv)'
  BY <1>8 DEF V8!RunScript
<1>9. CASE V8!Restart
  BY <1>9 DEF V8!Restart
<1>10. CASE UNCHANGED V8!vars
  BY <1>10 DEF V8!vars
<1> QED
  BY <1>1, <1>2, <1>3, <1>4, <1>5, <1>6, <1>7, <1>8, <1>9, <1>10 DEF V8!Next, V8!RunStep

\* The invariant behind both safety properties, for any number of threads.
THEOREM MoonCInvariant == V8!Spec => []V8!IInv
<1> QED
  BY V8InitIInv, V8NextIInv, PTL DEF V8!Spec

\* No isolate is created before V8 is initialised, however the threads race
\* (lib.rs:46-53, mod.rs:4).
THEOREM SafeIsolates == V8!Spec => []V8!IsolateAfterInit
<1>1. V8!IInv => V8!IsolateAfterInit
  BY DEF V8!IInv
<1> QED
  BY <1>1, MoonCInvariant, PTL

\* A process whose first runs do not overlap never sees a run panic
\* (lib.rs:46-53).
THEOREM OnlyRacesPanic == V8!Spec => []V8!PanicNeedsRace
<1>1. V8!IInv => V8!PanicNeedsRace
  BY DEF V8!IInv, V8!TypeOK, V8!QuietInv, V8!PanicNeedsRace
<1> QED
  BY <1>1, MoonCInvariant, PTL

--------------------------------------------------------------------------------
(* BuildV8: a step of the whole is a step of each of the components.          *)

LEMMA StepsOfBuilder == [NextAll]_allvars => [Next]_vars
<1> SUFFICES ASSUME [NextAll]_allvars PROVE [Next]_vars
  OBVIOUS
<1>1. CASE Edits
  BY <1>1 DEF Edits, Next
<1>2. CASE ProcessEnds
  BY <1>2 DEF ProcessEnds, Next
<1>3. ASSUME NEW b \in Build, Begins(b) PROVE Next
  BY <1>3 DEF Begins, Next
<1>4. ASSUME NEW b \in Build, RunStarts(b) PROVE UNCHANGED vars
  BY <1>4 DEF RunStarts
<1>5. ASSUME NEW b \in Build, StartsV8(b) PROVE [Next]_vars
  BY <1>5 DEF StartsV8, Unwinds, Next, BuildStep
<1>6. ASSUME NEW b \in Build, InScript(b) PROVE Next
  BY <1>6 DEF InScript, EndsRun, Reports, Next, BuildStep
<1>7. ASSUME NEW b \in Build, OutOfScript(b) PROVE Next
  BY <1>7 DEF OutOfScript, Next, BuildStep
<1>8. CASE UNCHANGED allvars
  BY <1>8 DEF allvars
<1> QED
  BY <1>1, <1>2, <1>3, <1>4, <1>5, <1>6, <1>7, <1>8 DEF NextAll, Step

LEMMA StepsOfMoonC == [NextAll]_allvars => [V8!Next]_(V8!vars)
<1> SUFFICES ASSUME [NextAll]_allvars PROVE [V8!Next]_v8
  BY DEF v8, V8!vars
<1>1. CASE Edits
  BY <1>1 DEF Edits
<1>2. CASE ProcessEnds
  BY <1>2 DEF ProcessEnds, V8!Next
<1>3. ASSUME NEW b \in Build, Begins(b) PROVE UNCHANGED v8
  BY <1>3 DEF Begins
<1>4. ASSUME NEW b \in Build, RunStarts(b) PROVE V8!Next
  BY <1>4 DEF RunStarts, V8!Next
<1>5. ASSUME NEW b \in Build, StartsV8(b) PROVE V8!Next
  BY <1>5 DEF StartsV8, V8!Next, V8!RunStep
<1>6. ASSUME NEW b \in Build, InScript(b) PROVE [V8!Next]_v8
  BY <1>6 DEF InScript, EndsRun, V8!Next, V8!RunStep
<1>7. ASSUME NEW b \in Build, OutOfScript(b) PROVE UNCHANGED v8
  BY <1>7 DEF OutOfScript
<1>8. CASE UNCHANGED allvars
  BY <1>8 DEF allvars
<1> QED
  BY <1>1, <1>2, <1>3, <1>4, <1>5, <1>6, <1>7, <1>8 DEF NextAll, Step

--------------------------------------------------------------------------------
(* BuildV8: the inductive invariant, where a thread can be in both.           *)

\* The shape of both components and the relation between them.
Whole == Shape /\ IInvAll

LEMMA InitWhole == InitAll => Whole
<1> SUFFICES ASSUME InitAll PROVE Whole
  OBVIOUS
<1>1. Shape
  BY InitShape DEF InitAll
<1>2. V8!TypeOK /\ V8!IInv
  BY DEF InitAll, V8!Init, V8!IInv, V8!TypeOK, V8!IsolateAfterInit, V8!QuietInv, V8!Away,
         V8!Window
<1>3. RunsOfBuilds
  BY DEF InitAll, Init, V8!Init, RunsOfBuilds, V8!Away, Resting
<1>4. doomed \in [Build -> BOOLEAN]
  BY DEF InitAll
<1> QED
  BY <1>1, <1>2, <1>3, <1>4 DEF Whole, IInvAll, TypeOKAll, Shape

\* RunsOfBuilds, for one thread.
RunOf(b) ==
  /\ at[b] \notin V8!Away => pc[b] \in {"compile", "emit", "link", "linkEmit"}
  /\ pc[b] \in {"emit", "linkEmit"} => at[b] = "script"
  /\ doomed[b] /\ pc[b] \notin Resting =>
       /\ poisoned
       /\ pc[b] \in {"sort", "check", "compile", "link"}
       /\ at[b] # "script"

\* A step of one thread leaves the others where they are, and V8 poisoned.
LEMMA ThreadStep ==
  ASSUME RunsOfBuilds, NEW b \in Build, RunOf(b)', poisoned => poisoned',
         \A x \in Build \ {b} : pc'[x] = pc[x] /\ at'[x] = at[x] /\ doomed'[x] = doomed[x]
  PROVE  RunsOfBuilds'
BY DEF RunsOfBuilds, RunOf

LEMMA NextRuns == Whole /\ [NextAll]_allvars => RunsOfBuilds'
<1> SUFFICES ASSUME Whole, [NextAll]_allvars PROVE RunsOfBuilds'
  OBVIOUS
<1>0. /\ pc \in [Build -> Pcs] /\ doomed \in [Build -> BOOLEAN]
      /\ at \in [Build -> V8!Away \cup V8!Window \cup {"load", "isolate", "script"}]
      /\ RunsOfBuilds
      /\ \A b \in Build : RunOf(b)
  BY DEF Whole, IInvAll, TypeOKAll, TypeOK, V8!TypeOK, RunsOfBuilds, RunOf
<1> USE DEF V8!Goto, Goto, V8!Away, V8!Window, Resting, RunOf
<1>1. CASE Edits
  BY <1>0, <1>1 DEF Edits, Edit, DefinePackage, AddDependency, WriteSource, RunsOfBuilds, v8
<1>2. CASE ProcessEnds
  BY <1>2 DEF ProcessEnds, Crash, V8!Restart, RunsOfBuilds
<1>3. ASSUME NEW b \in Build, Begins(b) PROVE RunsOfBuilds'
  BY <1>0, <1>3, ThreadStep DEF Begins, Begin, v8
<1>4. ASSUME NEW b \in Build, RunStarts(b) PROVE RunsOfBuilds'
  BY <1>0, <1>4, ThreadStep DEF RunStarts, V8!Call, vars
<1>5. ASSUME NEW b \in Build, StartsV8(b) PROVE RunsOfBuilds'
  <2>1. /\ UNCHANGED doomed
        /\ poisoned => poisoned'
        /\ pc[b] \in {"compile", "link"}
        /\ \A x \in Build \ {b} : at'[x] = at[x]
        /\ at[b] \notin V8!Away
        /\ at'[b] = "script" => ~poisoned
        /\ at' \in [Build -> V8!Away \cup V8!Window \cup {"load", "isolate", "script"}]
    BY <1>0, <1>5 DEF StartsV8, V8!LoadTrue, V8!LoadFalse, V8!InitializePlatform, V8!Initialize,
                      V8!Store, V8!NewIsolate, V8!Panic, V8!Locked
  <2>2. CASE at'[b] = "panicked"
    <3>1. pc' = [pc EXCEPT ![b] = "panic"]
      BY <1>0, <1>5, <2>2 DEF StartsV8, Unwinds, RunFails, Return
    <3> QED
      BY <1>0, <2>1, <2>2, <3>1, ThreadStep
  <2>3. CASE at'[b] # "panicked"
    <3>1. UNCHANGED pc
      BY <1>5, <2>3 DEF StartsV8, vars
    <3> QED
      BY <1>0, <2>1, <3>1, ThreadStep
  <2> QED
    BY <2>2, <2>3
<1>6. ASSUME NEW b \in Build, InScript(b) PROVE RunsOfBuilds'
  <2>1. UNCHANGED <<doomed, poisoned>> /\ at[b] = "script" /\ ~(doomed[b] /\ pc[b] \notin Resting)
    BY <1>0, <1>6 DEF InScript, EndsRun, V8!RunScript, v8
  <2>2. CASE (OpenOutput(b) \/ OpenModule(b)) /\ UNCHANGED v8
    BY <1>0, <2>1, <2>2, ThreadStep DEF OpenOutput, OpenModule, v8
  <2>3. CASE EndsRun(b)
    <3>1. at' = [at EXCEPT ![b] = "returned"]
      BY <2>3 DEF EndsRun, V8!RunScript
    <3>2. \E l \in {"verify", "embed", "err"} : pc' = [pc EXCEPT ![b] = l]
      BY <1>0, <2>3 DEF EndsRun, EmitOutput, EmitModule, Swallow, Reports, RunFails, Return
    <3>3. pc[b] \notin Resting
      BY <2>3 DEF EndsRun, EmitOutput, EmitModule, Swallow, Reports, RunFails
    <3> QED
      BY <1>0, <2>1, <3>1, <3>2, <3>3, ThreadStep
  <2> QED
    BY <1>6, <2>2, <2>3 DEF InScript
<1>7. ASSUME NEW b \in Build, OutOfScript(b) PROVE RunsOfBuilds'
  <2>1. UNCHANGED <<at, poisoned, doomed>>
    BY <1>7 DEF OutOfScript, v8
  <2>2. pc[b] \in {"sort", "check"} =>
          \E l \in Resting \cup {"check", "compile", "link"} : pc' = [pc EXCEPT ![b] = l]
    BY <1>0, <1>7 DEF OutOfScript, Sort, SortFails, Check, Verify, StartLink, MainFails, Embed,
                      EmitEmbedded, Create, EmitTarget, PackFails, Return
  <2>3. \E l \in Resting \cup {"check", "compile", "link", "embedEmit", "create", "createEmit"} :
           pc' = [pc EXCEPT ![b] = l]
    BY <1>0, <1>7 DEF OutOfScript, Sort, SortFails, Check, Verify, StartLink, MainFails, Embed,
                      EmitEmbedded, Create, EmitTarget, PackFails, Return
  <2>4. pc[b] \notin {"compile", "emit", "link", "linkEmit"} \cup Resting
    BY <1>0, <1>7 DEF OutOfScript, Sort, SortFails, Check, Verify, StartLink, MainFails, Embed,
                      EmitEmbedded, Create, EmitTarget, PackFails
  <2> QED
    BY <1>0, <2>1, <2>2, <2>3, <2>4, ThreadStep
<1>8. CASE UNCHANGED allvars
  BY <1>0, <1>8 DEF allvars, vars, v8, RunsOfBuilds
<1> QED
  BY <1>1, <1>2, <1>3, <1>4, <1>5, <1>6, <1>7, <1>8 DEF NextAll, Step

LEMMA NextWhole == Whole /\ [NextAll]_allvars => Whole'
<1> SUFFICES ASSUME Whole, [NextAll]_allvars PROVE Whole'
  OBVIOUS
<1>1. Shape'
  BY StepsOfBuilder, NextShape DEF Whole
<1>2. (V8!IInv)'
  BY StepsOfMoonC, V8NextIInv DEF Whole, IInvAll
<1>3. doomed' \in [Build -> BOOLEAN]
  <2>1. doomed \in [Build -> BOOLEAN] /\ poisoned \in BOOLEAN
    BY DEF Whole, IInvAll, TypeOKAll, V8!TypeOK
  <2> QED
    BY <2>1 DEF NextAll, allvars, Edits, ProcessEnds, Begins, Step, RunStarts, StartsV8, InScript,
                OutOfScript
<1>4. RunsOfBuilds'
  BY NextRuns
<1> QED
  BY <1>1, <1>2, <1>3, <1>4 DEF Whole, IInvAll, TypeOKAll, Shape, V8!IInv

LEMMA WholeInvariant == SpecAll => []Whole
<1> QED
  BY InitWhole, NextWhole, PTL DEF SpecAll

\* A thread is in the compiler, and at the start of V8, only where its build says
\* (lib.rs:38-54, 641, 691).
THEOREM RunsBelongToBuilds == SpecAll => []IInvAll
<1>1. Whole => IInvAll
  BY DEF Whole
<1> QED
  BY <1>1, WholeInvariant, PTL

\* Builds start V8 as MoonC says: its steps are all the steps they take there
\* (lib.rs:36-54).
THEOREM RunsRefineMoonC == SpecAll => V8!Init /\ [][V8!Next]_(V8!vars)
<1>1. InitAll => V8!Init
  BY DEF InitAll
<1> QED
  BY <1>1, StepsOfMoonC, PTL DEF SpecAll

\* The start of V8 adds nothing to what a build may do to the registry and the
\* files (lib.rs:488-569).
THEOREM BuildsRefineBuilder == SpecAll => Init /\ [][Next]_vars
<1>1. InitAll => Init
  BY DEF InitAll
<1> QED
  BY <1>1, StepsOfBuilder, PTL DEF SpecAll

LEMMA PanicHasCause ==
  ASSUME Whole, Whole', [NextAll]_allvars, NEW b \in Build, pc[b] # "panic", pc'[b] = "panic"
  PROVE  ~Closed(packages) \/ raced
<1>0. pc \in [Build -> Pcs]
  BY DEF Whole, Shape, TypeOK
<1> USE DEF Goto
<1>1. CASE Edits
  BY <1>1 DEF Edits, Edit, DefinePackage, AddDependency, WriteSource
<1>2. CASE ProcessEnds
  BY <1>2 DEF ProcessEnds, Crash
<1>3. ASSUME NEW x \in Build, Begins(x) PROVE FALSE
  BY <1>0, <1>3 DEF Begins, Begin
<1>4. ASSUME NEW x \in Build, RunStarts(x) PROVE FALSE
  BY <1>4 DEF RunStarts, vars
<1>5. ASSUME NEW x \in Build, StartsV8(x) PROVE raced
  <2>1. at'[x] = "panicked"
    BY <1>5 DEF StartsV8, vars
  <2>2. raced'
    BY <2>1 DEF Whole, IInvAll, V8!IInv, V8!QuietInv
  <2>3. raced' = raced
    BY <1>5, <2>1 DEF StartsV8, V8!LoadTrue, V8!LoadFalse, V8!InitializePlatform, V8!Initialize,
                      V8!Store, V8!NewIsolate, V8!Panic, V8!Goto, Whole, IInvAll, TypeOKAll, V8!TypeOK
  <2> QED
    BY <2>2, <2>3
<1>6. ASSUME NEW x \in Build, InScript(x) PROVE FALSE
  BY <1>0, <1>6 DEF InScript, EndsRun, Reports, OpenOutput, OpenModule, EmitOutput, EmitModule,
                    Swallow, RunFails, Return
<1>7. ASSUME NEW x \in Build, OutOfScript(x) PROVE ~Closed(packages)
  BY <1>0, <1>7 DEF OutOfScript, Sort, SortFails, Check, Verify, StartLink, MainFails, Embed,
                    EmitEmbedded, Create, EmitTarget, PackFails, Return
<1>8. CASE UNCHANGED allvars
  BY <1>8 DEF allvars, vars
<1> QED
  BY <1>1, <1>2, <1>3, <1>4, <1>5, <1>6, <1>7, <1>8 DEF NextAll, Step

\* A build panics only for a dependency that is not a package, or after two
\* threads have been starting V8 at once (lib.rs:46-53, 774).
THEOREM PanicsAreExplained == SpecAll => PanicsExplained
<1>1. Whole /\ Whole' /\ [NextAll]_allvars =>
        [\A b \in Build : pc[b] # "panic" /\ pc'[b] = "panic" => ~Closed(packages) \/ raced]_allvars
  BY PanicHasCause
<1> QED
  BY <1>1, WholeInvariant, PTL DEF SpecAll, PanicsExplained

LEMMA DoomedStep ==
  ASSUME Whole, NextAll, \A b \in Build : pc[b] \in Resting \/ doomed[b]
  PROVE  /\ UNCHANGED <<artefact, module, embedded>>
         /\ \A b \in Build : pc[b] # "ok" => pc'[b] # "ok"
<1>0. /\ pc \in [Build -> Pcs]
      /\ \A b \in Build : at[b] = "script" => pc[b] \notin Resting /\ ~doomed[b]
      /\ \A b \in Build : pc[b] \notin Resting => pc[b] \in {"sort", "check", "compile", "link"}
  BY DEF Whole, IInvAll, Shape, TypeOK, RunsOfBuilds, V8!Away, Resting
<1> USE DEF Goto, files
<1>1. CASE Edits
  BY <1>1 DEF Edits, Edit, DefinePackage, AddDependency, WriteSource
<1>2. CASE ProcessEnds
  BY <1>2 DEF ProcessEnds, Crash
<1>3. ASSUME NEW x \in Build, Begins(x)
      PROVE  UNCHANGED <<artefact, module, embedded>> /\ pc' = [pc EXCEPT ![x] = "sort"]
  BY <1>3 DEF Begins, Begin
<1>4. ASSUME NEW x \in Build, RunStarts(x) PROVE UNCHANGED vars
  BY <1>4 DEF RunStarts
<1>5. ASSUME NEW x \in Build, StartsV8(x)
      PROVE  UNCHANGED <<artefact, module, embedded>> /\ \A b \in Build : pc'[b] \in {pc[b], "panic"}
  BY <1>0, <1>5 DEF StartsV8, Unwinds, RunFails, Return, vars
<1>6. ASSUME NEW x \in Build, InScript(x) PROVE FALSE
  BY <1>0, <1>6 DEF InScript
<1>7. ASSUME NEW x \in Build, OutOfScript(x)
      PROVE  /\ UNCHANGED <<artefact, module, embedded>>
             /\ \E l \in {"err", "panic", "check", "compile", "link"} : pc' = [pc EXCEPT ![x] = l]
  BY <1>0, <1>7 DEF OutOfScript, Sort, SortFails, Check, Verify, StartLink, MainFails, Embed,
                    EmitEmbedded, Create, EmitTarget, PackFails, Return, Resting
<1> QED
  BY <1>0, <1>1, <1>2, <1>3, <1>4, <1>5, <1>6, <1>7 DEF NextAll, Step, vars

\* After a panic of V8, nothing is built in the process any more
\* (lib.rs:46-53, 641, 691).
THEOREM PoisonIsForGood == SpecAll => PoisonedForGood
<1>1. Whole /\ [NextAll]_allvars =>
        [(\A b \in Build : pc[b] \in Resting \/ doomed[b]) =>
           /\ UNCHANGED <<artefact, module, embedded>>
           /\ \A b \in Build : pc[b] # "ok" => pc'[b] # "ok"]_allvars
  BY DoomedStep
<1> QED
  BY <1>1, WholeInvariant, PTL DEF SpecAll, PoisonedForGood

--------------------------------------------------------------------------------
(* SharedBuilds.                                                              *)

LEMMA StepsShared == [NextShared]_sharedvars => [Next]_vars
BY DEF NextShared, Joins, GoesOn, Next, sharedvars

LEMMA InitIInvShared == InitShared => IInvShared
<1> SUFFICES ASSUME InitShared PROVE IInvShared
  OBVIOUS
<1>1. Shape
  BY InitShape DEF InitShared
<1>2. \A b \in Build : ~Active(b)
  BY DEF InitShared, Init, Active, Resting
<1>3. met = {}
  BY DEF InitShared
<1> QED
  BY <1>1, <1>2, <1>3 DEF IInvShared, MetInv, SharedInv, Agreed

\* A step of one build leaves alone what it is to build, and the other builds.
LEMMA StepIsLocal ==
  ASSUME TypeOK, NEW b \in Build, BuildStep(b)
  PROVE  /\ UNCHANGED <<packages, source, main>>
         /\ Active(b)
         /\ \A x \in Build \ {b} : /\ pc'[x] = pc[x] /\ order'[x] = order[x]
                                   /\ next'[x] = next[x] /\ held'[x] = held[x]
<1> USE DEF registry, files, locals, history, TypeOK, Goto, Active, Resting
<1>1. CASE Sort(b) \/ StartLink(b)
  BY <1>1 DEF Sort, StartLink
<1>2. CASE OpenOutput(b) \/ EmitOutput(b) \/ Swallow(b) \/ OpenModule(b) \/ EmitModule(b)
  BY <1>2 DEF OpenOutput, EmitOutput, Swallow, OpenModule, EmitModule
<1>3. CASE Embed(b) \/ EmitEmbedded(b) \/ Create(b)
  BY <1>3 DEF Embed, EmitEmbedded, Create
<1>4. CASE Check(b) \/ Verify(b)
  BY <1>4 DEF Check, Verify, Return
<1>5. CASE SortFails(b) \/ RunFails(b) \/ MainFails(b)
  BY <1>5 DEF SortFails, RunFails, MainFails, Return
<1>6. CASE EmitTarget(b) \/ PackFails(b)
  BY <1>6 DEF EmitTarget, PackFails, Return
<1>7. \/ Sort(b) \/ StartLink(b)
      \/ OpenOutput(b) \/ EmitOutput(b) \/ Swallow(b) \/ OpenModule(b) \/ EmitModule(b)
      \/ Embed(b) \/ EmitEmbedded(b) \/ Create(b)
      \/ Check(b) \/ Verify(b)
      \/ SortFails(b) \/ RunFails(b) \/ MainFails(b)
      \/ EmitTarget(b) \/ PackFails(b)
  BY DEF BuildStep
<1> QED
  BY <1>1, <1>2, <1>3, <1>4, <1>5, <1>6, <1>7

LEMMA NextMet == Shape /\ MetInv /\ [NextShared]_sharedvars => MetInv'
<1> SUFFICES ASSUME Shape, MetInv, [NextShared]_sharedvars PROVE MetInv'
  OBVIOUS
<1> USE DEF MetInv, Active
<1>0. source \in [Name -> 0..MaxVersion] /\ MaxVersion \in Nat /\ pc \in [Build -> Pcs]
  BY BuilderAssumption DEF Shape, TypeOK
<1>1. ASSUME NEW b \in Build, Joins(b) PROVE MetInv'
  <2>1. source' = source /\ met' \subseteq met \cup {Plan(main'[b])} /\ met' # {}
    BY <1>1 DEF Joins, Begin, registry
  <2>2. main'[b] \in Mains
    <3>1. PICK m \in Mains : main' = [main EXCEPT ![b] = m]
      BY <1>1 DEF Joins, Begin
    <3> QED
      BY <3>1 DEF Shape, TypeOK
  <2>3. Plan(main'[b]) \in [main : Mains, source : [Name -> 0..MaxVersion]]
    BY <1>0, <2>2 DEF Plan
  <2>4. \A p \in Name : Plan(main'[b]).source[p] <= source[p]
    BY <1>0 DEF Plan
  <2> QED
    BY <2>1, <2>3, <2>4
<1>2. ASSUME NEW b \in Build, GoesOn(b) PROVE MetInv'
  <2>1. UNCHANGED <<met, source>> /\ Active(b) /\ \A x \in Build \ {b} : pc'[x] = pc[x]
    BY <1>2, StepIsLocal DEF GoesOn, Shape
  <2> QED
    BY <2>1
<1>3. CASE Edit /\ UNCHANGED <<met, spoilt>>
  <2>1. UNCHANGED pc
    BY <1>3 DEF Edit, DefinePackage, AddDependency, WriteSource
  <2>2. \A p \in Name : source[p] <= source'[p] /\ source[p] \in Nat /\ source'[p] \in Nat
    BY <1>0, <1>3 DEF Edit, DefinePackage, AddDependency, WriteSource
  <2>3. \A q \in met : \A p \in Name : q.source[p] \in Nat
    OBVIOUS
  <2>4. \A q \in met : \A p \in Name : q.source[p] <= source'[p]
    BY <2>2, <2>3
  <2> QED
    BY <1>3, <2>1, <2>4
<1>4. CASE UNCHANGED sharedvars
  BY <1>4 DEF sharedvars, vars, registry
<1> QED
  BY <1>1, <1>2, <1>3, <1>4 DEF NextShared

\* What is written while all agree is torn, or what all would write.
Rewritten(b) ==
  /\ \A p \in DOMAIN packages : artefact'[p] \in {artefact[p]} \cup TornOr(Compiled(p))
  /\ module' \in {module} \cup TornOr(Component(b))
  /\ embedded' \in {embedded} \cup TornOr(Component(b))

LEMMA OthersAgree ==
  ASSUME Shape, NEW x \in Build, AgreedInv(x), Rewritten(x),
         UNCHANGED <<packages, source, main, met>>,
         pc'[x] = pc[x], order'[x] = order[x], next'[x] = next[x], held'[x] = held[x]
  PROVE  AgreedInv(x)'
<1>1. Component(x)' = Component(x) /\ \A p : Compiled(p)' = Compiled(p)
  BY SameComponent
<1>2. Current(x)' = Current(x) /\ \A i : Passed(x, i)' <=> Passed(x, i)
  BY DEF Current, Passed
<1>3. Plan(main[x])' = Plan(main[x])
  BY DEF Plan
<1>4. pc[x] \in Compiling \cup Linking => \A i \in DOMAIN order[x] : order[x][i] \in DOMAIN packages
  <2> SUFFICES ASSUME pc[x] \in Compiling \cup Linking
               PROVE  \A i \in DOMAIN order[x] : order[x][i] \in DOMAIN packages
    OBVIOUS
  <2>1. order[x] \in Seq(DOMAIN packages)
    BY DEF Shape, PlaceInv, IsBuildOrder
  <2> QED
    BY <2>1
<1> QED
  BY <1>1, <1>2, <1>3, <1>4 DEF AgreedInv, Rewritten, TornOr

\* What link-core makes of the files of packages that all have been passed.
LEMMA LinkedAgreed ==
  ASSUME Shape, NEW b \in Build, Conventional, AgreedInv(b), pc[b] = "check", next[b] > Len(order[b])
  PROVE  Linked(b) \in TornOr(Component(b))
<1>1. IsBuildOrder(order[b], packages)
  BY DEF Shape, PlaceInv, Compiling
<1>2. \A i \in DOMAIN order[b] : order[b][i] \in DOMAIN packages /\ Passed(b, i)
  <2>1. order[b] \in Seq(DOMAIN packages) /\ next[b] \in Nat
    BY <1>1 DEF IsBuildOrder, Shape, TypeOK
  <2> QED
    BY <2>1 DEF Passed
<1>3. Inputs(b) = {artefact[order[b][i]] : i \in DOMAIN order[b]}
  BY <1>2 DEF Inputs, Conventional
<1>4. Inputs(b) \cap {NoFile, Torn} = {} =>
        Inputs(b) = {Compiled(p) : p \in DOMAIN packages}
  <2> SUFFICES ASSUME Inputs(b) \cap {NoFile, Torn} = {}
               PROVE  Inputs(b) = {Compiled(p) : p \in DOMAIN packages}
    OBVIOUS
  <2>1. DOMAIN packages = {order[b][i] : i \in DOMAIN order[b]}
    BY <1>1 DEF IsBuildOrder, Elems
  <2>2. \A i \in DOMAIN order[b] : artefact[order[b][i]] = Compiled(order[b][i])
    BY <1>2, <1>3 DEF AgreedInv, TornOr, Compiling
  <2>3. Inputs(b) = {Compiled(order[b][i]) : i \in DOMAIN order[b]}
    BY <1>3, <2>2
  <2> QED
    BY <2>1, <2>3
<1> QED
  BY <1>4 DEF Linked, Component, TornOr

\* A step of a build that loses nothing: what it writes, and what it knows.
LEMMA OneAgrees ==
  ASSUME Shape, NEW b \in Build, Conventional, AgreedInv(b), BuildStep(b), ~lost'[b],
         UNCHANGED met
  PROVE  Rewritten(b) /\ (Active(b)' => AgreedInv(b)')
<1> USE DEF registry, files, locals, history, TornOr
<1>0. TypeOK /\ PlaceInv(b) /\ DOMAIN packages \subseteq Name
  BY DEF Shape, TypeOK, IsRegistry
<1>1. UNCHANGED <<packages, source, main>>
  BY <1>0, StepIsLocal
<1>2. Component(b)' = Component(b) /\ \A p : Compiled(p)' = Compiled(p)
  BY <1>1, SameComponent
<1>3. met' = {Plan(main[b])'}
  BY <1>1 DEF AgreedInv, Plan
<1> USE DEF Compiling, Linking, Packing
<1>4. CASE Sort(b)
  <2>1. pc[b] = "sort" /\ pc'[b] = "check" /\ next'[b] = 1 /\ UNCHANGED files
    BY <1>0, <1>4 DEF TypeOK, Sort, Goto, PlaceInv
  <2>2. order'[b] \in Seq(DOMAIN packages)
    BY <1>0, <1>4 DEF TypeOK, Sort, IsBuildOrder
  <2>3. \A i \in DOMAIN order'[b] : ~Passed(b, i)'
    BY <2>1, <2>2 DEF Passed
  <2> QED
    BY <1>2, <1>3, <2>1, <2>3 DEF AgreedInv, Rewritten
<1>5. CASE Check(b)
  <2>1. UNCHANGED files
    BY <1>5 DEF Check
  <2>2. CASE ~Present(Current(b))
    BY <1>0, <1>5, <2>1, <2>2 DEF TypeOK, Check, Return, Goto, Active, Resting, Rewritten
  <2>3. CASE Present(Current(b))
    <3>1. /\ pc[b] = "check" /\ pc'[b] = "compile" /\ held'[b] \in {Torn, Compiled(Current(b))}
          /\ UNCHANGED <<order, next>>
      BY <1>0, <1>5, <2>3 DEF TypeOK, Check, Goto, Compile
    <3> QED
      BY <1>2, <1>3, <2>1, <3>1 DEF AgreedInv, Rewritten, Passed, Current
  <2> QED
    BY <2>2, <2>3
<1>6. CASE OpenOutput(b) \/ EmitOutput(b)
  <2>1. pc[b] \in {"compile", "emit"} /\ UNCHANGED <<order, next, held, module, embedded>>
    BY <1>6 DEF OpenOutput, EmitOutput
  <2>2. /\ Output(b) = Current(b)
        /\ Current(b) \in Name
        /\ next[b] \in DOMAIN order[b]
        /\ \A i \in DOMAIN order[b] : order[b][i] \in Name
    BY <1>0, <2>1, CurrentOutput DEF PlaceInv
  <2>3. /\ next[b] \in Nat /\ artefact \in [Name -> Object \cup {NoFile, Torn}]
        /\ Current(b) = order[b][next[b]] /\ Current(b)' = Current(b)
    BY <1>0, <2>1 DEF TypeOK, Current
  <2>4. CASE OpenOutput(b)
    <3>1. pc[b] = "compile" /\ pc'[b] = "emit"
      BY <1>0, <2>4 DEF TypeOK, OpenOutput, Goto
    <3>2. artefact' = [artefact EXCEPT ![Current(b)] = Torn]
      BY <2>2, <2>4 DEF OpenOutput
    <3> QED
      BY <1>0, <1>2, <1>3, <2>1, <2>2, <2>3, <3>1, <3>2 DEF AgreedInv, Rewritten, Passed
  <2>5. CASE EmitOutput(b)
    <3>1. pc[b] = "emit" /\ pc'[b] = "verify"
      BY <1>0, <2>5 DEF TypeOK, EmitOutput, Goto
    <3>2. artefact' = [artefact EXCEPT ![Current(b)] = Compiled(Current(b))]
      BY <2>2, <2>5, <3>1 DEF EmitOutput, AgreedInv
    <3> QED
      BY <1>0, <1>2, <1>3, <2>1, <2>2, <2>3, <3>1, <3>2 DEF AgreedInv, Rewritten, Passed
  <2> QED
    BY <1>6, <2>4, <2>5
<1>7. CASE Swallow(b)
  BY <1>0, <1>7 DEF TypeOK, Swallow
<1>8. CASE Verify(b)
  <2>1. UNCHANGED files
    BY <1>8 DEF Verify
  <2>2. CASE artefact[Output(b)] = NoFile
    BY <1>0, <1>8, <2>1, <2>2 DEF TypeOK, Verify, Return, Goto, Active, Resting, Rewritten
  <2>3. CASE artefact[Output(b)] # NoFile
    <3>1. /\ pc[b] = "verify" /\ pc'[b] = "check" /\ next'[b] = next[b] + 1
          /\ UNCHANGED <<order, held>>
      BY <1>0, <1>8, <2>3 DEF TypeOK, Verify, Goto
    <3>2. order[b] \in Seq(Name) /\ next[b] \in Nat
      BY <1>0 DEF TypeOK
    <3>3. \A i \in DOMAIN order[b] : Passed(b, i)' => Passed(b, i)
      BY <3>1, <3>2 DEF Passed
    <3> QED
      BY <1>2, <1>3, <2>1, <3>1, <3>3 DEF AgreedInv, Rewritten
  <2> QED
    BY <2>2, <2>3
<1>9. CASE StartLink(b)
  <2>1. /\ pc[b] = "check" /\ pc'[b] = "link" /\ held'[b] = Linked(b) /\ next[b] > Len(order[b])
        /\ UNCHANGED <<files, order, next>>
    BY <1>0, <1>9 DEF TypeOK, StartLink, Goto
  <2>2. held'[b] \in {Torn, Component(b)}
    BY <2>1, LinkedAgreed
  <2> QED
    BY <1>2, <1>3, <2>1, <2>2 DEF AgreedInv, Rewritten, Passed
<1>10. CASE OpenModule(b)
  <2>1. /\ pc[b] = "link" /\ pc'[b] = "linkEmit" /\ module' = Torn
        /\ UNCHANGED <<artefact, embedded, order, next, held>>
    BY <1>0, <1>10 DEF TypeOK, OpenModule, Goto
  <2> QED
    BY <1>2, <1>3, <2>1 DEF AgreedInv, Rewritten, Passed
<1>11. CASE EmitModule(b)
  <2>1. /\ pc[b] = "linkEmit" /\ pc'[b] = "embed" /\ module' = held[b] /\ held[b] # Torn
        /\ UNCHANGED <<artefact, embedded, order, next, held>>
    BY <1>0, <1>11 DEF TypeOK, EmitModule, Goto
  <2> QED
    BY <1>2, <1>3, <2>1 DEF AgreedInv, Rewritten
<1>12. CASE Embed(b)
  <2>1. /\ pc[b] = "embed" /\ pc'[b] = "embedEmit" /\ held'[b] = module /\ embedded' = Torn
        /\ UNCHANGED <<artefact, module, order, next>>
    BY <1>0, <1>12 DEF TypeOK, Embed, Goto
  <2> QED
    BY <1>2, <1>3, <2>1 DEF AgreedInv, Rewritten
<1>13. CASE EmitEmbedded(b)
  <2>1. /\ pc[b] = "embedEmit" /\ pc'[b] = "create" /\ embedded' = held[b]
        /\ UNCHANGED <<artefact, module, order, next, held>>
    BY <1>0, <1>13 DEF TypeOK, EmitEmbedded, Goto
  <2> QED
    BY <1>2, <1>3, <2>1 DEF AgreedInv, Rewritten
<1>14. CASE Create(b)
  <2>1. /\ pc[b] = "create" /\ pc'[b] = "createEmit" /\ held'[b] = embedded /\ embedded # Torn
        /\ UNCHANGED <<artefact, module, embedded, order, next>>
    BY <1>0, <1>14 DEF TypeOK, Create, Goto
  <2> QED
    BY <1>2, <1>3, <2>1 DEF AgreedInv, Rewritten
<1>15. CASE SortFails(b) \/ RunFails(b) \/ MainFails(b) \/ EmitTarget(b) \/ PackFails(b)
  <2>1. UNCHANGED <<artefact, module, embedded>> /\ pc'[b] \in Resting
    BY <1>0, <1>15 DEF TypeOK, SortFails, RunFails, MainFails, EmitTarget, PackFails, Return, Goto,
                       Resting
  <2> QED
    BY <2>1 DEF Active, Rewritten
<1> QED
  BY <1>4, <1>5, <1>6, <1>7, <1>8, <1>9, <1>10, <1>11, <1>12, <1>13, <1>14, <1>15 DEF BuildStep

LEMMA NextSharedInv == IInvShared /\ [NextShared]_sharedvars => SharedInv'
<1> SUFFICES ASSUME IInvShared, [NextShared]_sharedvars, Agreed', NEW x \in Build, Active(x)'
             PROVE  AgreedInv(x)'
  BY DEF SharedInv
<1>0. TypeOK /\ MetInv /\ SharedInv /\ Shape
  BY DEF IInvShared, Shape
<1>1. CASE Edit /\ UNCHANGED <<met, spoilt>>
  <2>1. UNCHANGED pc
    BY <1>1 DEF Edit, DefinePackage, AddDependency, WriteSource
  <2>2. ~NobodyBuilds
    BY <2>1 DEF Active, NobodyBuilds
  <2>3. PICK p \in Name : WriteSource(p)
    BY <1>1, <2>2 DEF Edit, DefinePackage, AddDependency
  <2>4. PICK m \in Mains : met = {Plan(m)'}
    BY <1>1 DEF Agreed
  <2>5. Plan(m)'.source[p] = source[p] + 1
    BY <1>0, <2>3 DEF Plan, WriteSource, TypeOK
  <2>6. Plan(m)'.source[p] <= source[p]
    BY <1>0, <2>4 DEF MetInv
  <2>7. source[p] \in Nat
    BY <1>0, BuilderAssumption DEF TypeOK
  <2> QED
    BY <2>5, <2>6, <2>7
<1>2. ASSUME NEW b \in Build, Joins(b) PROVE AgreedInv(x)'
  <2>1. PICK m \in Mains : main' = [main EXCEPT ![b] = m]
    BY <1>2 DEF Joins, Begin
  <2>2. /\ pc' = [pc EXCEPT ![b] = "sort"]
        /\ UNCHANGED <<packages, source, artefact, module, embedded, order, next, held>>
        /\ pc[b] \in Resting
    BY <1>2 DEF Joins, Begin, Goto, registry
  <2>3. main'[b] = m /\ Plan(m)' = Plan(m) /\ Plan(m) \in met'
    BY <1>0, <1>2, <2>1, <2>2 DEF Joins, TypeOK, Plan
  <2>4. met' = {Plan(m)}
    BY <2>3 DEF Agreed
  <2>5. CASE x = b
    <3>1. pc'[x] = "sort"
      BY <1>0, <2>2, <2>5 DEF TypeOK
    <3> QED
      BY <2>3, <2>4, <2>5, <3>1 DEF AgreedInv, Compiling, Linking, Packing
  <2>6. CASE x # b
    <3>1. Active(x) /\ pc'[x] = pc[x] /\ main'[x] = main[x]
      BY <1>0, <2>1, <2>2, <2>6 DEF Active, TypeOK
    <3>2. ~NobodyBuilds
      BY <3>1 DEF Active, NobodyBuilds
    <3>3. met' = {Plan(m)} \cup met /\ ~spoilt
      BY <1>2, <2>3, <3>2 DEF Joins, Agreed
    <3>4. met = {Plan(m)} /\ met' = met
      BY <1>0, <2>4, <3>1, <3>3 DEF MetInv
    <3>5. Conventional
      BY <2>2 DEF Agreed, Conventional
    <3>6. AgreedInv(x)
      BY <1>0, <2>1, <3>1, <3>3, <3>4, <3>5 DEF SharedInv, Agreed
    <3>7. Component(x)' = Component(x) /\ \A p : Compiled(p)' = Compiled(p)
      BY <2>2, <3>1 DEF Component, Compiled
    <3>8. Current(x)' = Current(x) /\ \A i : Passed(x, i)' <=> Passed(x, i)
      BY <2>2, <3>1 DEF Current, Passed
    <3>9. Plan(main[x])' = Plan(main[x])
      BY <2>2, <3>1 DEF Plan
    <3> QED
      BY <2>2, <3>1, <3>4, <3>6, <3>7, <3>8, <3>9 DEF AgreedInv, TornOr
  <2> QED
    BY <2>5, <2>6
<1>3. ASSUME NEW b \in Build, GoesOn(b) PROVE AgreedInv(x)'
  <2>1. ~spoilt /\ ~lost'[b] /\ UNCHANGED met /\ BuildStep(b)
    BY <1>3 DEF GoesOn, Agreed
  <2>2. UNCHANGED <<packages, source, main>>
    BY <1>0, <2>1, StepIsLocal
  <2>3. Conventional /\ Agreed
    <3>1. \A m : Plan(m)' = Plan(m)
      BY <2>2 DEF Plan
    <3> QED
      BY <2>1, <2>2, <3>1 DEF Agreed, Conventional
  <2>4. /\ Active(b)
        /\ \A y \in Build \ {b} : /\ pc'[y] = pc[y] /\ order'[y] = order[y]
                                  /\ next'[y] = next[y] /\ held'[y] = held[y]
    BY <1>0, <2>1, StepIsLocal
  <2>5. AgreedInv(b)
    BY <1>0, <2>3, <2>4 DEF SharedInv
  <2>6. Rewritten(b) /\ (Active(b)' => AgreedInv(b)')
    BY <1>0, <2>1, <2>3, <2>5, OneAgrees
  <2>7. CASE x # b
    <3>1. Active(x) /\ AgreedInv(x)
      BY <1>0, <2>3, <2>4, <2>7 DEF SharedInv, Active
    <3>2. Plan(main[x]) = Plan(main[b])
      BY <2>5, <3>1 DEF AgreedInv
    <3>3. main[x] = main[b]
      BY <3>2 DEF Plan
    <3>4. Rewritten(x)
      BY <2>6, <3>3 DEF Rewritten, Component
    <3> QED
      BY <1>0, <2>1, <2>2, <2>4, <2>7, <3>1, <3>4, OthersAgree
  <2> QED
    BY <2>6, <2>7
<1>4. CASE UNCHANGED sharedvars
  BY <1>0, <1>4 DEF sharedvars, vars, registry, files, locals, SharedInv, Agreed, Conventional, Plan,
     Active, AgreedInv, Component, Compiled, Passed, Current
<1> QED
  BY <1>1, <1>2, <1>3, <1>4 DEF NextShared

\* What builds that share a directory may rely on, for any number of them.
THEOREM SharedInvariant == SpecShared => []IInvShared
<1>1. IInvShared /\ [NextShared]_sharedvars => IInvShared'
  BY StepsShared, NextShape, NextMet, NextSharedInv DEF IInvShared
<1> QED
  BY <1>1, InitIInvShared, PTL DEF SpecShared

\* Any number of builds may overlap in a directory, if they are to build the same
\* and lose no run of the compiler: each that returns Ok has made its component
\* (lib.rs:488-569, 672, 711, 735).
THEOREM SharedBuildsFresh == SpecShared => SharedFresh
<1>1. ASSUME IInvShared, [NextShared]_sharedvars, NEW b \in Build,
             Succeeds(b), ~spoilt, Conventional, met = {Plan(main[b])}
      PROVE  target'[b] = Component(b)
  <2>1. TypeOK
    BY <1>1 DEF IInvShared, Shape
  <2>2. EmitTarget(b)
    BY <1>1, <2>1, StepsShared, SuccessIsEmitTarget
  <2>3. Agreed /\ Active(b)
    BY <1>1, <2>1, <2>2 DEF Agreed, TypeOK, EmitTarget, Active, Resting
  <2>4. held[b] = Component(b)
    BY <1>1, <2>2, <2>3 DEF IInvShared, SharedInv, AgreedInv, EmitTarget
  <2> QED
    BY <2>1, <2>2, <2>4 DEF EmitTarget, TypeOK
<1>2. IInvShared /\ [NextShared]_sharedvars =>
        [\A b \in Build : Succeeds(b) /\ ~spoilt /\ Conventional /\ met = {Plan(main[b])}
            => target'[b] = Component(b)]_sharedvars
  BY <1>1
<1> QED
  BY <1>2, SharedInvariant, PTL DEF SpecShared, SharedFresh
================================================================================
