--------------------------------- MODULE Builder ---------------------------------
(* MoonBitComponent (src/lib.rs): the package registry, and `build` from the  *)
(* sorted packages to the component file.                                     *)
(*                                                                            *)
(* Every operation that changes the registry takes `&mut self`, so it runs    *)
(* between builds; `build` and `write_file` take `&self`, so several threads  *)
(* may be in them at once.  Builds of one component meet in its directory:    *)
(* they share every artefact, target/module.wasm and target/module.embed.wasm.*)
(*                                                                            *)
(* Files hold versions.  A file being written is Torn until it is complete:   *)
(* the compiler and std::fs::write truncate first and write afterwards.       *)
EXTENDS PackageGraph

CONSTANTS Build,        \* the threads that call build, each with its own target
          Mains,        \* the main packages they may name
          Catalog,      \* Catalog[p]: the definitions of package p that are used
          Extra,        \* the dependencies add_dependency is called with
          MaxVersion,   \* bound: how often the sources of a package are written
          NoFile, Torn  \* a file that is not there; one not completely written

ASSUME BuilderAssumption ==
  /\ Mains \subseteq Name
  /\ Catalog \in [Name -> SUBSET Package]
  /\ Extra \subseteq Dep
  /\ MaxVersion \in Nat

Object == [pkg : Name, ver : 1..MaxVersion]          \* a compiled package
Module == [main : Name, objects : SUBSET Object]     \* a linked module

ASSUME FileAssumption == /\ NoFile # Torn
                         /\ {NoFile, Torn} \cap (Object \cup Module) = {}

VARIABLES packages,   \* self.packages
          source,     \* source[p]: version of p's sources on disk, 0 if absent
          artefact,   \* artefact[d]: the .core and .mi files in directory d
          module,     \* target/module.wasm
          embedded,   \* target/module.embed.wasm
          target,     \* target[b]: the component file build b is asked for
          pc,         \* pc[b]: where b is, or how its last call ended
          main,       \* main[b]: main_package_name
          order,      \* order[b]: sorted_packages
          next,       \* next[b]: index in order[b] of the package b is building
          held,       \* held[b]: what b, or the compiler it runs, has read
          clean,      \* history: when b began, no build output was on disk
          lost,       \* history: a compiler run of b ended early, unnoticed
          edited      \* history: sources were written since b began

registry == <<packages, source>>
files == <<artefact, module, embedded, target>>
locals == <<main, order, next, held>>
history == <<clean, lost, edited>>
vars == <<registry, files, pc, locals, history>>

Resting == {"idle", "ok", "err", "panic"}

Init == /\ packages = [p \in {} |-> {}]
        /\ source = [p \in Name |-> 0]
        /\ artefact = [d \in Name |-> NoFile]
        /\ module = NoFile
        /\ embedded = NoFile
        /\ target = [b \in Build |-> NoFile]
        /\ pc = [b \in Build |-> "idle"]
        /\ main \in [Build -> Mains]
        /\ order = [b \in Build |-> << >>]
        /\ next = [b \in Build |-> 1]
        /\ held = [b \in Build |-> NoFile]
        /\ clean = [b \in Build |-> FALSE]
        /\ lost = [b \in Build |-> FALSE]
        /\ edited = [b \in Build |-> FALSE]

Goto(b, l) == pc' = [pc EXCEPT ![b] = l]

\* The call returns, or panics, and its locals are gone.
Return(b, how) == /\ Goto(b, how)
                  /\ order' = [order EXCEPT ![b] = << >>]
                  /\ next' = [next EXCEPT ![b] = 1]
                  /\ held' = [held EXCEPT ![b] = NoFile]
                  /\ UNCHANGED <<main, history>>

--------------------------------------------------------------------------------
(* The registry and the sources.                                              *)

NobodyBuilds == \A b \in Build : pc[b] \in Resting

\* define_package inserts, or replaces what was defined under the name.
DefinePackage(p, pkg) ==
  /\ NobodyBuilds
  /\ packages' = [q \in DOMAIN packages \cup {p} |-> IF q = p THEN pkg ELSE packages[q]]
  /\ UNCHANGED <<source, files, pc, locals, history>>

\* add_dependency; for an undefined package it is an error and changes nothing.
AddDependency(p, d) ==
  /\ NobodyBuilds
  /\ p \in DOMAIN packages
  /\ packages' = [packages EXCEPT ![p].deps = @ \cup {d}]
  /\ UNCHANGED <<source, files, pc, locals, history>>

\* write_file, write_world_stub, write_interface_stub: also during a build.
WriteSource(p) ==
  /\ source[p] < MaxVersion
  /\ source' = [source EXCEPT ![p] = @ + 1]
  /\ edited' = [b \in Build |-> TRUE]
  /\ UNCHANGED <<packages, files, pc, locals, clean, lost>>

\* The process ends: killed, or by the exit the compiler calls on an error
\* (std::process::exit).  The temporary directory is not removed then; another
\* process opens it with `existing`, and starts from an empty registry.
Crash == /\ packages' = [p \in {} |-> {}]
         /\ pc' = [b \in Build |-> "idle"]
         /\ order' = [b \in Build |-> << >>]
         /\ next' = [b \in Build |-> 1]
         /\ held' = [b \in Build |-> NoFile]
         /\ UNCHANGED <<source, files, main, history>>

--------------------------------------------------------------------------------
(* build: sorting and compiling.                                              *)

\* Each call is given a target path of its own.
Begin(b) ==
  /\ pc[b] \in Resting
  /\ Goto(b, "sort")
  /\ \E m \in Mains : main' = [main EXCEPT ![b] = m]
  /\ target' = [target EXCEPT ![b] = NoFile]
  /\ clean' = [clean EXCEPT ![b] = /\ \A d \in Name : artefact[d] = NoFile
                                   /\ module = NoFile]
  /\ lost' = [lost EXCEPT ![b] = FALSE]
  /\ edited' = [edited EXCEPT ![b] = FALSE]
  /\ UNCHANGED <<registry, artefact, module, embedded, order, next, held>>

\* Mutant of Sort: the packages in any order.
SortAnyhow(b) ==
  /\ pc[b] = "sort"
  /\ Closed(packages) /\ ~HasCycle(Edges(packages))
  /\ \E s \in [1..Cardinality(DOMAIN packages) -> DOMAIN packages] :
        /\ Injective(s)
        /\ order' = [order EXCEPT ![b] = s]
  /\ Goto(b, "check")
  /\ UNCHANGED <<registry, files, main, next, held, history>>

\* sorted_packages, whose steps are in SortedPackages.
Sort(b) ==
  /\ pc[b] = "sort"
  /\ Closed(packages) /\ ~HasCycle(Edges(packages))
  /\ \E s \in [1..Cardinality(DOMAIN packages) -> DOMAIN packages] :
        /\ IsBuildOrder(s, packages)
        /\ order' = [order EXCEPT ![b] = s]
  /\ Goto(b, "check")
  /\ UNCHANGED <<registry, files, main, next, held, history>>

SortFails(b) ==
  /\ pc[b] = "sort"
  /\ IF HasCycle(Edges(packages)) THEN Return(b, "err")
                                  ELSE ~Closed(packages) /\ Return(b, "panic")
  /\ UNCHANGED <<registry, files>>

Current(b) == order[b][next[b]]
Output(b) == packages[Current(b)].output

\* The files build_package looks for before it runs the compiler.  A file the
\* build does not make (Outside) is the caller's, and is there.
Present(p) == /\ source[p] > 0
              /\ \A d \in packages[p].deps : d.mi # Outside => artefact[d.mi] # NoFile

\* What the compiler makes of package p, given what it reads: nothing if one of
\* the interfaces is torn.
Compiled(p) == [pkg |-> p, ver |-> source[p]]

Compile(p) == IF \E d \in packages[p].deps : d.mi # Outside /\ artefact[d.mi] = Torn
              THEN Torn
              ELSE Compiled(p)

\* Mutant of Check: what has been compiled before is not compiled again.
CheckCached(b) ==
  /\ pc[b] = "check"
  /\ next[b] <= Len(order[b])
  /\ IF Present(Current(b))
     THEN /\ held' = [held EXCEPT ![b] = Compile(Current(b))]
          /\ Goto(b, IF artefact[Output(b)] = NoFile THEN "compile" ELSE "verify")
          /\ UNCHANGED <<main, order, next, history>>
     ELSE Return(b, "err")
  /\ UNCHANGED <<registry, files>>

Check(b) ==
  /\ pc[b] = "check"
  /\ next[b] <= Len(order[b])
  /\ IF Present(Current(b))
     THEN /\ held' = [held EXCEPT ![b] = Compile(Current(b))]
          /\ Goto(b, "compile")
          /\ UNCHANGED <<main, order, next, history>>
     ELSE Return(b, "err")
  /\ UNCHANGED <<registry, files>>

\* The compiler opens its output, and completes it.
OpenOutput(b) ==
  /\ pc[b] = "compile"
  /\ artefact' = [artefact EXCEPT ![Output(b)] = Torn]
  /\ Goto(b, "emit")
  /\ UNCHANGED <<registry, module, embedded, target, locals, history>>

EmitOutput(b) ==
  /\ pc[b] = "emit"
  /\ held[b] # Torn
  /\ artefact' = [artefact EXCEPT ![Output(b)] = held[b]]
  /\ Goto(b, "verify")
  /\ UNCHANGED <<registry, module, embedded, target, locals, history>>

\* A compiler run that throws: run_wasmoo drops the result of code.run, so the
\* caller sees Ok, whatever the run had or had not written.
Swallow(b) ==
  /\ \/ pc[b] \in {"compile", "emit"} /\ Goto(b, "verify")
     \/ pc[b] \in {"link", "linkEmit"} /\ Goto(b, "embed")
  /\ lost' = [lost EXCEPT ![b] = TRUE]
  /\ UNCHANGED <<registry, files, locals, clean, edited>>

\* An error MOONC.run does report, or a panic of V8 when it is started (MoonC).
RunFails(b) == /\ pc[b] \in {"compile", "link"}
               /\ \E how \in {"err", "panic"} : Return(b, how)
               /\ UNCHANGED <<registry, files>>

\* Mutant of Verify: a package whose output is missing is compiled again.
VerifyRetries(b) ==
  /\ pc[b] = "verify"
  /\ Goto(b, "check")
  /\ next' = [next EXCEPT ![b] = IF artefact[Output(b)] # NoFile THEN @ + 1 ELSE @]
  /\ UNCHANGED <<registry, files, main, order, held, history>>

\* After the run: if !abs.exists() { return Err(..) }
Verify(b) ==
  /\ pc[b] = "verify"
  /\ IF artefact[Output(b)] # NoFile
     THEN /\ next' = [next EXCEPT ![b] = @ + 1]
          /\ Goto(b, "check")
          /\ UNCHANGED <<main, order, held, history>>
     ELSE Return(b, "err")
  /\ UNCHANGED <<registry, files>>

--------------------------------------------------------------------------------
(* build: linking, embedding, encoding.                                       *)

\* Mutant of Inputs: the first package is left out.
InputsButFirst(b) == {artefact[packages[order[b][i]].output] : i \in 2..Len(order[b])}

\* The core files of the packages, as link-core would read them now.
Inputs(b) == {artefact[packages[order[b][i]].output] : i \in DOMAIN order[b]}

Linked(b) == IF Inputs(b) \cap {NoFile, Torn} = {}
             THEN [main |-> main[b], objects |-> Inputs(b)]
             ELSE Torn

\* The main package is looked up only after everything has been compiled.
StartLink(b) ==
  /\ pc[b] = "check"
  /\ next[b] > Len(order[b])
  /\ main[b] \in DOMAIN packages
  /\ source[main[b]] > 0
  /\ held' = [held EXCEPT ![b] = Linked(b)]
  /\ Goto(b, "link")
  /\ UNCHANGED <<registry, files, main, order, next, history>>

\* No such main package, or no usable linker configuration for it.
MainFails(b) ==
  /\ pc[b] = "check"
  /\ next[b] > Len(order[b])
  /\ Return(b, "err")
  /\ UNCHANGED <<registry, files>>

OpenModule(b) ==
  /\ pc[b] = "link"
  /\ module' = Torn
  /\ Goto(b, "linkEmit")
  /\ UNCHANGED <<registry, artefact, embedded, target, locals, history>>

\* A missing or torn core file cannot be linked.
EmitModule(b) ==
  /\ pc[b] = "linkEmit"
  /\ held[b] # Torn
  /\ module' = held[b]
  /\ Goto(b, "embed")
  /\ UNCHANGED <<registry, artefact, embedded, target, locals, history>>

\* Mutant of Embed: a module that is not there is read as well.
EmbedUnread(b) ==
  /\ pc[b] = "embed"
  /\ held' = [held EXCEPT ![b] = module]
  /\ embedded' = Torn
  /\ Goto(b, "embedEmit")
  /\ UNCHANGED <<registry, artefact, module, target, main, order, next, history>>

\* embed_wit reads whatever module is there: link_core does not look.
Embed(b) ==
  /\ pc[b] = "embed"
  /\ module # NoFile
  /\ held' = [held EXCEPT ![b] = module]
  /\ embedded' = Torn
  /\ Goto(b, "embedEmit")
  /\ UNCHANGED <<registry, artefact, module, target, main, order, next, history>>

EmitEmbedded(b) ==
  /\ pc[b] = "embedEmit"
  /\ embedded' = held[b]
  /\ Goto(b, "create")
  /\ UNCHANGED <<registry, artefact, module, target, locals, history>>

\* Mutant of Create: what is embedded is not validated.
CreateUnvalidated(b) ==
  /\ pc[b] = "create"
  /\ embedded # NoFile
  /\ held' = [held EXCEPT ![b] = embedded]
  /\ target' = [target EXCEPT ![b] = Torn]
  /\ Goto(b, "createEmit")
  /\ UNCHANGED <<registry, artefact, module, embedded, main, order, next, history>>

\* create_component validates what it reads before it touches the target.
Create(b) ==
  /\ pc[b] = "create"
  /\ embedded \notin {NoFile, Torn}
  /\ held' = [held EXCEPT ![b] = embedded]
  /\ target' = [target EXCEPT ![b] = Torn]
  /\ Goto(b, "createEmit")
  /\ UNCHANGED <<registry, artefact, module, embedded, main, order, next, history>>

EmitTarget(b) ==
  /\ pc[b] = "createEmit"
  /\ target' = [target EXCEPT ![b] = held[b]]
  /\ Return(b, "ok")
  /\ UNCHANGED <<registry, artefact, module, embedded>>

\* A read, an encoding or a write of the last two stages fails.
PackFails(b) ==
  /\ pc[b] \in {"embed", "embedEmit", "create", "createEmit"}
  /\ Return(b, "err")
  /\ UNCHANGED <<registry, files>>

--------------------------------------------------------------------------------
BuildStep(b) ==
  \/ Sort(b) \/ SortFails(b)
  \/ Check(b) \/ OpenOutput(b) \/ EmitOutput(b) \/ Swallow(b) \/ RunFails(b) \/ Verify(b)
  \/ StartLink(b) \/ MainFails(b) \/ OpenModule(b) \/ EmitModule(b)
  \/ Embed(b) \/ EmitEmbedded(b) \/ Create(b) \/ EmitTarget(b) \/ PackFails(b)

Edit == \E p \in Name : \/ \E pkg \in Catalog[p] : DefinePackage(p, pkg)
                        \/ \E d \in Extra : AddDependency(p, d)
                        \/ WriteSource(p)

Next == Edit \/ Crash \/ \E b \in Build : Begin(b) \/ BuildStep(b)

\* A call runs on its caller's thread, and the compiler terminates.
Fairness == \A b \in Build : WF_vars(BuildStep(b))

Spec == Init /\ [][Next]_vars /\ Fairness

--------------------------------------------------------------------------------
Pcs == Resting \cup {"sort", "check", "compile", "emit", "verify", "link", "linkEmit",
                     "embed", "embedEmit", "create", "createEmit"}

Image == Module \cup {NoFile, Torn}

TypeOK == /\ IsRegistry(packages)
          /\ source \in [Name -> 0..MaxVersion]
          /\ artefact \in [Name -> Object \cup {NoFile, Torn}]
          /\ module \in Image
          /\ embedded \in Image
          /\ target \in [Build -> Image]
          /\ pc \in [Build -> Pcs]
          /\ main \in [Build -> Mains]
          /\ order \in [Build -> Seq(Name)]
          /\ next \in [Build -> Nat \ {0}]
          /\ held \in [Build -> Object \cup Image]
          /\ clean \in [Build -> BOOLEAN]
          /\ lost \in [Build -> BOOLEAN]
          /\ edited \in [Build -> BOOLEAN]

\* The component a build should make of the registry and the sources.
Component(b) == [main |-> main[b], objects |-> {Compiled(p) : p \in DOMAIN packages}]

\* Every package writes its output where its name says, as the packages of
\* define_bindgen_packages do (lib.rs:195-353).
Conventional == \A p \in DOMAIN packages : packages[p].output = p

\* The step by which build b returns Ok, its sources untouched since it began.
Succeeds(b) == pc[b] # "ok" /\ pc'[b] = "ok" /\ ~edited[b]

\* The first build in a fresh directory can be believed: when it returns Ok,
\* the target holds every package of the registry, compiled from the sources on
\* disk, whatever the compiler runs did (lib.rs:488-569, 643-646).
FirstBuildFresh ==
  [][\A b \in Build : Succeeds(b) /\ clean[b] /\ Conventional => target'[b] = Component(b)]_vars

\* So can any later build, after failed builds, edits and crashes, in which no
\* compiler run ended early unnoticed: nothing of an earlier build is reused
\* (lib.rs:502-569).
RebuildFresh ==
  [][\A b \in Build : Succeeds(b) /\ ~lost[b] /\ Conventional => target'[b] = Component(b)]_vars

\* A package is compiled against the interfaces this build made, not against
\* those of an earlier one: the .mi existence check alone would accept them
\* (lib.rs:600-604, 770-777).
InterfacesFresh ==
  \A b \in Build : pc[b] = "compile" /\ ~lost[b] /\ ~edited[b] /\ Conventional =>
     \A d \in packages[Current(b)].deps :
        d.mi \in DOMAIN packages => artefact[d.mi] = Compiled(d.mi)

--------------------------------------------------------------------------------
(* Why the first two hold: the inductive invariant.                           *)

Compiling == {"check", "compile", "emit", "verify"}
Linking == {"link", "linkEmit"}
Packing == {"embed", "embedEmit", "create", "createEmit"}

\* What b knows of its order and of what it holds, at each place.
PlaceInv(b) ==
  /\ pc[b] \in Compiling \cup Linking \cup Packing =>
       /\ IsBuildOrder(order[b], packages)
       /\ next[b] <= Len(order[b]) + 1
  /\ pc[b] \in Resting \cup {"sort"} => next[b] = 1
  /\ pc[b] \in {"compile", "emit", "verify"} => next[b] <= Len(order[b])
  /\ pc[b] \in Linking \cup Packing => next[b] = Len(order[b]) + 1
  /\ pc[b] \in {"compile", "emit"} => held[b] \in Object \cup {Torn}
  /\ pc[b] \in Linking \cup {"embedEmit", "createEmit"} => held[b] \in Module \cup {Torn}

\* Package i of the order has been compiled by this build.
Passed(b, i) == i < next[b] \/ (i = next[b] /\ pc[b] = "verify")

\* A run that lost nothing has renewed what it passed; a run that began clean
\* has left nothing on disk but what it made itself, or a torn file.
ArtefactInv(b) ==
  /\ ~lost[b] /\ pc[b] \in Compiling \cup Linking =>
       \A i \in DOMAIN order[b] : Passed(b, i) => artefact[order[b][i]] = Compiled(order[b][i])
  /\ clean[b] /\ pc[b] \in {"sort"} \cup Compiling \cup Linking =>
       \A p \in DOMAIN packages : artefact[p] \in {NoFile, Torn, Compiled(p)}
  /\ pc[b] \in {"compile", "emit"} => held[b] \in {Torn, Compiled(Current(b))}

ModuleInv(b) ==
  /\ clean[b] /\ pc[b] \in {"sort"} \cup Compiling => module = NoFile
  /\ clean[b] /\ pc[b] \in Linking => module \in {NoFile, Torn}
  /\ clean[b] \/ ~lost[b] =>
       /\ pc[b] \in Linking => held[b] \in {Torn, Component(b)}
       /\ pc[b] \in Packing => module \in {NoFile, Torn, Component(b)}
       /\ pc[b] = "embedEmit" => held[b] \in {Torn, Component(b)}
       /\ pc[b] = "create" => embedded \in {Torn, Component(b)}
       /\ pc[b] = "createEmit" => held[b] = Component(b)

\* For a single thread.
FreshInv == \A b \in Build : ~edited[b] /\ Conventional => ArtefactInv(b) /\ ModuleInv(b)

Shape == TypeOK /\ \A b \in Build : PlaceInv(b)

IInv == Shape /\ FreshInv

--------------------------------------------------------------------------------
\* The doc comment of build (lib.rs:484-485), read as it stands: Ok means that all
\* packages have been compiled and linked into the target.
OkMeansBuilt ==
  [][\A b \in Build : Succeeds(b) /\ Conventional => target'[b] = Component(b)]_vars

\* Every call of build comes to an end (lib.rs:488-569).
BuildReturns == \A b \in Build : pc[b] \notin Resting ~> pc[b] \in Resting
================================================================================
