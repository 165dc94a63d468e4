---------------------------- MODULE GeneratorsProofs ----------------------------
(* The generators, for every set of names, every world of them and every      *)
(* script.                                                                    *)
(*                                                                            *)
(* The packages of every world can be sorted: their dependencies go down a    *)
(* ladder, gen - exported interfaces - imported interfaces - ffi and world    *)
(* stub, whatever paths the names of the world are converted to.  None of     *)
(* them replaces another unless their names have the same letters, and the    *)
(* typed configuration is wired up.  The literal of the script component has  *)
(* the lines of the script.                                                   *)
EXTENDS Generators, Inductions, SequenceTheorems, FiniteSetTheorems

--------------------------------------------------------------------------------
(* The packages of a world, and the typed configuration (Bindings).           *)

Rank(p) == IF p = Gen THEN 3
           ELSE IF Len(p) = 5 THEN 2
           ELSE IF Len(p) = 4 THEN 1
           ELSE 0

Outer == << <<"outside", "outside">> >>

\* Dependency d of p is in the build directory, lower on the ladder, and one of
\* the packages D.
Downward(p, d, D) == d.mi # Outer /\ d.mi \in D /\ Rank(d.mi) < Rank(p)

PastFfi == {"world", "imports", "exports", "depend", "stub", "build"}
PastImports == {"exports", "depend", "stub", "build"}

LadderInv ==
  /\ \A p \in DOMAIN packages : \A d \in packages[p].deps : Downward(p, d, DOMAIN packages)
  /\ \A d \in gen_dependencies : Downward(Gen, d, DOMAIN packages)
  /\ pc \in PastFfi => Ffi \in DOMAIN packages
  /\ pc \notin PastImports \cup {"imports", "refused", "error"} => next = 1
  /\ pc \in PastImports \cup {"imports"} =>
        \A k \in DOMAIN imports :
           pc \in PastImports \/ k < next => ImportedPath(imports[k]) \in DOMAIN packages
  /\ mode # "bindings" /\ pc \notin {"process", "refused", "error"} =>
        \E k \in DOMAIN imports : imports[k] = Provider(mode)

Typed == /\ mode \in Modes /\ next \in Nat /\ wit \in Wits /\ wit \in Wit /\ imports \in Seq(Interface)
         /\ pc \in {"depend", "stub"} => mode # "bindings"
         /\ \A p \in DOMAIN packages : "deps" \in DOMAIN packages[p]

LInv == Typed /\ LadderInv

--------------------------------------------------------------------------------
\* Where the paths stand on the ladder.
LEMMA Ranks ==
  /\ Rank(Ffi) = 0 /\ Rank(Gen) = 3
  /\ \A w : Rank(WorldPath(w)) = 0
  /\ \A i : Rank(ImportedPath(i)) = 1 /\ Rank(ExportedPath(i)) = 2 /\ Rank(LookupPath(i)) = 2
<1>1. Len(Ffi) = 1 /\ Len(Gen) = 1 /\ Ffi # Gen
  BY DEF Ffi, Gen, Plain
<1>2. \A w : Len(WorldPath(w)) = 3
  BY DEF WorldPath
<1>3. \A i : Len(ImportedPath(i)) = 4 /\ Len(ExportedPath(i)) = 5 /\ Len(LookupPath(i)) = 5
  BY DEF ImportedPath, ExportedPath, LookupPath
<1> QED
  BY <1>1, <1>2, <1>3 DEF Rank

LEMMA Inside ==
  /\ Ffi # Outer
  /\ \A w : WorldPath(w) # Outer
  /\ \A i : ImportedPath(i) # Outer /\ ExportedPath(i) # Outer
<1>1. Ffi # Outer
  BY DEF Ffi, Plain, Outer
<1>2. Len(Outer) = 1
  BY DEF Outer
<1>3. \A w : Len(WorldPath(w)) = 3
  BY DEF WorldPath
<1>4. \A i : Len(ImportedPath(i)) = 4 /\ Len(ExportedPath(i)) = 5
  BY DEF ImportedPath, ExportedPath
<1> QED
  BY <1>1, <1>2, <1>3, <1>4

\* The .mi path written out in typed_config.rs is that of the import.
LEMMA ProviderPath ==
  ASSUME NEW m \in Modes, m # "bindings"
  PROVE  ProviderDep(m).mi = ImportedPath(Provider(m))
<1>1. \A w \in {"wasi", "cli", "environment", "config", "store"} :
         to_moonbit_ident(w) = Plain(w) /\ LowerCamel(w) = Plain(w)
  BY WordAssumption DEF to_moonbit_ident, LowerCamel, Snake
<1>2. CASE m = "EnvVars"
  <2>1. /\ Provider(m).ns = "wasi" /\ Provider(m).pkg = "cli"
        /\ Provider(m).iface = "environment"
    BY <1>2 DEF Provider
  <2>2. ProviderDep(m).mi = <<Plain("interface"), Plain("wasi"), Plain("cli"), Plain("environment")>>
    BY <1>2 DEF ProviderDep, On
  <2> QED
    BY <1>1, <2>1, <2>2 DEF ImportedPath
<1>3. CASE m = "WasiConfig"
  <2>1. /\ Provider(m).ns = "wasi" /\ Provider(m).pkg = "config"
        /\ Provider(m).iface = "store"
    BY <1>3 DEF Provider
  <2>2. ProviderDep(m).mi = <<Plain("interface"), Plain("wasi"), Plain("config"), Plain("store")>>
    BY <1>3 DEF ProviderDep, On
  <2> QED
    BY <1>1, <2>1, <2>2 DEF ImportedPath
<1> QED
  BY <1>2, <1>3 DEF Modes

--------------------------------------------------------------------------------
LEMMA Wider ==
  ASSUME NEW p, NEW d, NEW D, NEW E, D \subseteq E, Downward(p, d, D)
  PROVE  Downward(p, d, E)
  BY DEF Downward

\* define_package keeps the ladder if the new dependencies do.
LEMMA DefineKeeps ==
  ASSUME LadderInv, NEW path, NEW deps, Define(path, deps),
         \A d \in deps : Downward(path, d, DOMAIN packages)
  PROVE  /\ DOMAIN packages' = DOMAIN packages \cup {path}
         /\ \A p \in DOMAIN packages' : \A d \in packages'[p].deps : Downward(p, d, DOMAIN packages')
         /\ \A d \in gen_dependencies : Downward(Gen, d, DOMAIN packages')
<1>1. DOMAIN packages' = DOMAIN packages \cup {path}
  BY DEF Define
<1>2. packages'[path].deps = deps /\ \A p \in DOMAIN packages : p # path => packages'[p] = packages[p]
  BY DEF Define
<1>3. DOMAIN packages \subseteq DOMAIN packages'
  BY <1>1
<1>4. ASSUME NEW p \in DOMAIN packages', NEW d \in packages'[p].deps
      PROVE  Downward(p, d, DOMAIN packages')
  <2>1. Downward(p, d, DOMAIN packages)
    BY <1>1, <1>2 DEF LadderInv
  <2> QED
    BY <1>3, <2>1, Wider
<1>5. \A d \in gen_dependencies : Downward(Gen, d, DOMAIN packages')
  BY <1>3, Wider DEF LadderInv
<1> QED
  BY <1>1, <1>4, <1>5

\* A package that is defined has its dependencies.
LEMMA DefineDeps ==
  ASSUME Typed, NEW path, NEW deps, Define(path, deps)
  PROVE  \A p \in DOMAIN packages' : "deps" \in DOMAIN packages'[p]
<1>1. DOMAIN packages' = DOMAIN packages \cup {path}
  BY DEF Define
<1>2. \A p \in DOMAIN packages : p # path => packages'[p] = packages[p]
  BY DEF Define
<1>3. "deps" \in DOMAIN packages'[path]
  BY DEF Define
<1> QED
  BY <1>1, <1>2, <1>3 DEF Typed

LEMMA InitLInv == Init => LInv
<1> SUFFICES ASSUME Init PROVE LInv
  OBVIOUS
<1>1. Typed
  BY WitsAssumption DEF Init, Typed, Wit
<1>2. LadderInv
  BY DEF Init, LadderInv, PastFfi, PastImports, Modes
<1> QED
  BY <1>1, <1>2 DEF LInv

--------------------------------------------------------------------------------
LEMMA NextLInv == LInv /\ [Next]_vars => LInv'
<1> SUFFICES ASSUME LInv, [Next]_vars PROVE LInv'
  OBVIOUS
<1>0. Typed /\ LadderInv
  BY DEF LInv
<1>1. CASE Process
  <2>1. /\ pc = "process" /\ pc' = "open" /\ imports' = Append(imports, Provider(mode))
        /\ UNCHANGED <<mode, wit, packages, gen_dependencies, next, written>>
    BY <1>1 DEF Process, Goto
  <2>2. imports \in Seq(Interface)
    BY <1>0 DEF Typed
  <2>3. Provider(mode) \in Interface
    <3>1. WasiVersion \in Version
      BY WordAssumption DEF WasiVersion
    <3>2. {"wasi", "cli", "environment", "config", "store"} \subseteq Word
      BY WordAssumption
    <3> QED
      BY <3>1, <3>2 DEF Provider, Interface
  <2>4. imports' \in Seq(Interface) /\ \E k \in DOMAIN imports' : imports'[k] = Provider(mode')
    <3>1. Len(imports) + 1 \in DOMAIN imports' /\ imports'[Len(imports) + 1] = Provider(mode')
      BY <2>1, <2>2, <2>3
    <3> QED
      BY <2>1, <2>2, <2>3, <3>1
  <2>5. Typed'
    BY <1>0, <2>1, <2>4 DEF Typed
  <2>6. LadderInv'
    BY <1>0, <2>1, <2>4 DEF LadderInv, PastFfi, PastImports
  <2> QED
    BY <2>5, <2>6 DEF LInv
<1>2. CASE ProcessFails \/ Open \/ Fails \/ Interfaces
  BY <1>0, <1>2 DEF ProcessFails, Open, Fails, Interfaces, Goto, LInv, Typed, LadderInv,
                    PastFfi, PastImports
<1>3. CASE DefineFfi
  <2>1. /\ pc = "ffi" /\ pc' = "world" /\ Define(Ffi, {})
        /\ gen_dependencies' = {On(Ffi, Plain("ffi"))}
        /\ UNCHANGED <<mode, wit, imports, next, written>>
    BY <1>3 DEF DefineFfi, Goto
  <2>2. /\ DOMAIN packages' = DOMAIN packages \cup {Ffi}
        /\ \A p \in DOMAIN packages' : "deps" \in DOMAIN packages'[p]
        /\ \A p \in DOMAIN packages' : \A d \in packages'[p].deps : Downward(p, d, DOMAIN packages')
    <3>1. \A p \in DOMAIN packages' : "deps" \in DOMAIN packages'[p]
      BY <1>0, <2>1, DefineDeps
    <3>2. PICK q, D : q = Ffi /\ D = {}
      OBVIOUS
    <3>3. Define(q, D) /\ \A d \in D : Downward(q, d, DOMAIN packages)
      BY <2>1, <3>2
    <3>4. /\ DOMAIN packages' = DOMAIN packages \cup {q}
          /\ \A p \in DOMAIN packages' : \A d \in packages'[p].deps : Downward(p, d, DOMAIN packages')
      BY <1>0, <3>3, DefineKeeps
    <3> QED
      BY <3>1, <3>2, <3>4
  <2>3. \A d \in gen_dependencies' : Downward(Gen, d, DOMAIN packages')
    <3>1. On(Ffi, Plain("ffi")).mi = Ffi
      BY DEF On
    <3>2. Downward(Gen, On(Ffi, Plain("ffi")), DOMAIN packages')
      BY <2>2, <3>1, Ranks, Inside DEF Downward
    <3> QED
      BY <2>1, <3>2
  <2>4. pc' \in PastFfi /\ pc' \notin PastImports \cup {"imports"} /\ next' = 1
    BY <1>0, <2>1 DEF LadderInv, PastFfi, PastImports
  <2>5. mode' # "bindings" => \E k \in DOMAIN imports' : imports'[k] = Provider(mode')
    BY <1>0, <2>1 DEF LadderInv
  <2>6. LadderInv'
    BY <2>2, <2>3, <2>4, <2>5 DEF LadderInv
  <2> QED
    BY <1>0, <2>1, <2>2, <2>6 DEF LInv, Typed
<1>4. CASE DefineWorld
  <2> DEFINE path == WorldPath(wit.world)
             new == On(path, LowerCamel(wit.world))
  <2>1. /\ pc = "world" /\ pc' = "imports" /\ Define(path, {})
        /\ gen_dependencies' = gen_dependencies \cup {new}
        /\ UNCHANGED <<mode, wit, imports, next, written>>
    BY <1>4 DEF DefineWorld, Goto
  <2>2. /\ DOMAIN packages' = DOMAIN packages \cup {path}
        /\ \A p \in DOMAIN packages' : "deps" \in DOMAIN packages'[p]
        /\ \A p \in DOMAIN packages' : \A d \in packages'[p].deps : Downward(p, d, DOMAIN packages')
        /\ \A d \in gen_dependencies : Downward(Gen, d, DOMAIN packages')
    <3>1. \A p \in DOMAIN packages' : "deps" \in DOMAIN packages'[p]
      BY <1>0, <2>1, DefineDeps
    <3>2. PICK q, D : q = path /\ D = {}
      OBVIOUS
    <3>3. Define(q, D) /\ \A d \in D : Downward(q, d, DOMAIN packages)
      BY <2>1, <3>2
    <3>4. /\ DOMAIN packages' = DOMAIN packages \cup {q}
          /\ \A p \in DOMAIN packages' : \A d \in packages'[p].deps : Downward(p, d, DOMAIN packages')
          /\ \A d \in gen_dependencies : Downward(Gen, d, DOMAIN packages')
      BY <1>0, <3>3, DefineKeeps
    <3> QED
      BY <3>1, <3>2, <3>4
  <2>3. new.mi = path
    BY DEF On
  <2>4. Downward(Gen, new, DOMAIN packages')
    BY <2>2, <2>3, Ranks, Inside DEF Downward
  <2>5. next = 1 /\ Ffi \in DOMAIN packages'
    BY <1>0, <2>1, <2>2 DEF LadderInv, PastFfi, PastImports
  <2>6. \A k \in DOMAIN imports : ~(k < next)
    BY <1>0, <2>5 DEF Typed, Wit
  <2>7. \A d \in gen_dependencies' : Downward(Gen, d, DOMAIN packages')
    BY <2>1, <2>2, <2>4
  <2>8. mode' # "bindings" => \E k \in DOMAIN imports' : imports'[k] = Provider(mode')
    BY <1>0, <2>1 DEF LadderInv
  <2>9. pc' = "imports" /\ pc' \in PastFfi /\ pc' \notin PastImports
    BY <2>1 DEF PastFfi, PastImports
  <2>10. LadderInv'
    BY <2>1, <2>2, <2>5, <2>6, <2>7, <2>8, <2>9 DEF LadderInv
  <2> QED
    BY <1>0, <2>1, <2>2, <2>10 DEF LInv, Typed
<1>5. CASE DefineImported
  <2> DEFINE path == ImportedPath(imports[next])
             new == On(Ffi, Plain("ffi"))
  <2>1. /\ pc = "imports" /\ next <= Len(imports)
        /\ Define(path, {new}) /\ next' = next + 1
        /\ UNCHANGED <<mode, wit, imports, gen_dependencies, written, pc>>
    BY <1>5 DEF DefineImported
  <2>2. Ffi \in DOMAIN packages
    BY <1>0, <2>1 DEF LadderInv, PastFfi
  <2>3. Downward(path, new, DOMAIN packages)
    BY <2>2, Ranks, Inside DEF Downward, On
  <2>4. /\ DOMAIN packages' = DOMAIN packages \cup {path}
        /\ \A p \in DOMAIN packages' : "deps" \in DOMAIN packages'[p]
        /\ \A p \in DOMAIN packages' : \A d \in packages'[p].deps : Downward(p, d, DOMAIN packages')
        /\ \A d \in gen_dependencies : Downward(Gen, d, DOMAIN packages')
    <3>1. \A p \in DOMAIN packages' : "deps" \in DOMAIN packages'[p]
      BY <1>0, <2>1, DefineDeps
    <3>2. PICK q, D : q = path /\ D = {new}
      OBVIOUS
    <3>3. Define(q, D) /\ \A d \in D : Downward(q, d, DOMAIN packages)
      BY <2>1, <2>3, <3>2
    <3>4. /\ DOMAIN packages' = DOMAIN packages \cup {q}
          /\ \A p \in DOMAIN packages' : \A d \in packages'[p].deps : Downward(p, d, DOMAIN packages')
          /\ \A d \in gen_dependencies : Downward(Gen, d, DOMAIN packages')
      BY <1>0, <3>3, DefineKeeps
    <3> QED
      BY <3>1, <3>2, <3>4
  <2>5. \A k \in DOMAIN imports :
           k < next' => ImportedPath(imports[k]) \in DOMAIN packages'
    <3> SUFFICES ASSUME NEW k \in DOMAIN imports, k < next + 1
                 PROVE  ImportedPath(imports[k]) \in DOMAIN packages'
      BY <2>1
    <3>1. k \in Nat /\ next \in Nat
      BY <1>0 DEF Typed, Wit
    <3>2. CASE k = next
      BY <2>4, <3>2
    <3>3. CASE k < next
      BY <1>0, <2>1, <2>4, <3>3 DEF LadderInv
    <3> QED
      BY <3>1, <3>2, <3>3
  <2>6. mode' # "bindings" => \E k \in DOMAIN imports' : imports'[k] = Provider(mode')
    BY <1>0, <2>1 DEF LadderInv
  <2>7. pc' = "imports" /\ pc' \notin PastImports /\ Ffi \in DOMAIN packages'
    BY <2>1, <2>2, <2>4 DEF PastImports
  <2>8. LadderInv'
    BY <2>1, <2>4, <2>5, <2>6, <2>7 DEF LadderInv
  <2>9. next' \in Nat
    BY <1>0, <2>1 DEF Typed
  <2> QED
    BY <1>0, <2>1, <2>4, <2>8, <2>9 DEF LInv, Typed
<1>6. CASE ImportsDone
  <2>1. /\ pc = "imports" /\ next > Len(imports) /\ next' = 1 /\ pc' = "exports"
        /\ UNCHANGED <<mode, wit, imports, packages, gen_dependencies, written>>
    BY <1>6 DEF ImportsDone, Goto
  <2>2. \A k \in DOMAIN imports : k < next
    BY <1>0, <2>1 DEF Typed, Wit
  <2>3. \A k \in DOMAIN imports : ImportedPath(imports[k]) \in DOMAIN packages
    BY <1>0, <2>1, <2>2 DEF LadderInv
  <2> QED
    BY <1>0, <2>1, <2>3 DEF LInv, Typed, LadderInv, PastFfi, PastImports
<1>7. CASE DefineExported
  <2> DEFINE path == ExportedPath(wit.exports[next])
             new == On(path, LowerCamel(wit.exports[next].iface))
  <2>1. /\ pc = "exports" /\ Define(path, {}) /\ next' = next + 1
        /\ gen_dependencies' = gen_dependencies \cup {new}
        /\ UNCHANGED <<mode, wit, imports, written, pc>>
    BY <1>7 DEF DefineExported
  <2>2. /\ DOMAIN packages' = DOMAIN packages \cup {path}
        /\ \A p \in DOMAIN packages' : "deps" \in DOMAIN packages'[p]
        /\ \A p \in DOMAIN packages' : \A d \in packages'[p].deps : Downward(p, d, DOMAIN packages')
        /\ \A d \in gen_dependencies : Downward(Gen, d, DOMAIN packages')
    <3>1. \A p \in DOMAIN packages' : "deps" \in DOMAIN packages'[p]
      BY <1>0, <2>1, DefineDeps
    <3>2. PICK q, D : q = path /\ D = {}
      OBVIOUS
    <3>3. Define(q, D) /\ \A d \in D : Downward(q, d, DOMAIN packages)
      BY <2>1, <3>2
    <3>4. /\ DOMAIN packages' = DOMAIN packages \cup {q}
          /\ \A p \in DOMAIN packages' : \A d \in packages'[p].deps : Downward(p, d, DOMAIN packages')
          /\ \A d \in gen_dependencies : Downward(Gen, d, DOMAIN packages')
      BY <1>0, <3>3, DefineKeeps
    <3> QED
      BY <3>1, <3>2, <3>4
  <2>3. new.mi = path
    BY DEF On
  <2>4. Downward(Gen, new, DOMAIN packages')
    BY <2>2, <2>3, Ranks, Inside DEF Downward
  <2>5. \A d \in gen_dependencies' : Downward(Gen, d, DOMAIN packages')
    BY <2>1, <2>2, <2>4
  <2>6. next' \in Nat
    BY <1>0, <2>1 DEF Typed
  <2>7. /\ Ffi \in DOMAIN packages' /\ pc' \in PastImports
        /\ \A k \in DOMAIN imports' : ImportedPath(imports'[k]) \in DOMAIN packages'
        /\ mode' # "bindings" => \E k \in DOMAIN imports' : imports'[k] = Provider(mode')
    BY <1>0, <2>1, <2>2 DEF LadderInv, PastFfi, PastImports
  <2>8. LadderInv'
    BY <2>2, <2>5, <2>7 DEF LadderInv
  <2> QED
    BY <1>0, <2>1, <2>2, <2>6, <2>8 DEF LInv, Typed
<1>8. CASE DefineGen
  <2>1. /\ pc = "exports" /\ Define(Gen, gen_dependencies)
        /\ pc' \in {"build", "depend"} /\ (pc' = "depend" => mode # "bindings")
        /\ UNCHANGED <<mode, wit, imports, gen_dependencies, next, written>>
    BY <1>8 DEF DefineGen, Goto
  <2>2. /\ DOMAIN packages' = DOMAIN packages \cup {Gen}
        /\ \A p \in DOMAIN packages' : "deps" \in DOMAIN packages'[p]
        /\ \A p \in DOMAIN packages' : \A d \in packages'[p].deps : Downward(p, d, DOMAIN packages')
        /\ \A d \in gen_dependencies : Downward(Gen, d, DOMAIN packages')
    <3>1. \A d \in gen_dependencies : Downward(Gen, d, DOMAIN packages)
      BY <1>0 DEF LadderInv
    <3>2. \A p \in DOMAIN packages' : "deps" \in DOMAIN packages'[p]
      BY <1>0, <2>1, DefineDeps
    <3> QED
      BY <1>0, <2>1, <3>1, <3>2, DefineKeeps
  <2>3. /\ Ffi \in DOMAIN packages' /\ pc' \in PastImports
        /\ \A k \in DOMAIN imports' : ImportedPath(imports'[k]) \in DOMAIN packages'
        /\ mode' # "bindings" => \E k \in DOMAIN imports' : imports'[k] = Provider(mode')
    BY <1>0, <2>1, <2>2 DEF LadderInv, PastFfi, PastImports
  <2>4. LadderInv'
    BY <2>1, <2>2, <2>3 DEF LadderInv
  <2> QED
    BY <1>0, <2>1, <2>2, <2>4 DEF LInv, Typed
<1>9. CASE AddProvider
  <2> DEFINE path == LookupPath(wit.interface)
             new == ProviderDep(mode)
  <2>1. pc = "depend" /\ pc' \in {"stub", "refused"} /\ UNCHANGED <<mode, wit, imports, gen_dependencies, next>>
    BY <1>9 DEF AddProvider, Goto
  <2>2. CASE path \notin DOMAIN packages
    <3>1. pc' = "refused" /\ UNCHANGED packages
      BY <1>9, <2>2 DEF AddProvider, Goto
    <3> QED
      BY <1>0, <2>1, <3>1 DEF LInv, Typed, LadderInv, PastFfi, PastImports
  <2>3. CASE path \in DOMAIN packages /\ mode # "bindings"
    <3>1. pc' = "stub" /\ packages' = [packages EXCEPT ![path].deps = @ \cup {new}]
      BY <1>9, <2>3 DEF AddProvider, Goto
    <3>2. PICK k \in DOMAIN imports : imports[k] = Provider(mode)
      BY <1>0, <2>1, <2>3 DEF LadderInv
    <3>3. new.mi = ImportedPath(Provider(mode)) /\ new.mi \in DOMAIN packages
      BY <1>0, <2>1, <2>3, <3>2, ProviderPath DEF Typed, LadderInv, PastImports
    <3>4. Downward(path, new, DOMAIN packages)
      BY <3>3, Ranks, Inside DEF Downward
    <3>5. DOMAIN packages' = DOMAIN packages
      BY <3>1
    <3>6. ASSUME NEW p \in DOMAIN packages', NEW d \in packages'[p].deps
          PROVE  Downward(p, d, DOMAIN packages')
      <4> HIDE DEF path, new
      <4>1. p # path => packages'[p] = packages[p]
        BY <3>1
      <4>2. packages'[path] = [packages[path] EXCEPT !.deps = @ \cup {new}]
        BY <2>3, <3>1
      <4>3. packages'[path].deps = packages[path].deps \cup {new}
        BY <1>0, <2>3, <4>2 DEF Typed
      <4> QED
        BY <1>0, <3>4, <3>5, <3>6, <4>1, <4>3 DEF LadderInv
    <3>7. /\ Ffi \in DOMAIN packages' /\ pc' \in PastImports
          /\ \A j \in DOMAIN imports' : ImportedPath(imports'[j]) \in DOMAIN packages'
          /\ mode' # "bindings" => \E j \in DOMAIN imports' : imports'[j] = Provider(mode')
      BY <1>0, <2>1, <3>1, <3>5 DEF LadderInv, PastFfi, PastImports
    <3>9. \A p \in DOMAIN packages' : "deps" \in DOMAIN packages'[p]
      BY <1>0, <3>1, <3>5 DEF Typed
    <3>8. LadderInv'
      BY <1>0, <2>1, <3>5, <3>6, <3>7 DEF LadderInv
    <3> QED
      BY <1>0, <2>1, <2>3, <3>8, <3>9 DEF LInv, Typed
  <2>4. CASE mode = "bindings"
    BY <1>0, <2>1, <2>4 DEF Typed
  <2> QED
    BY <2>2, <2>3, <2>4
<1>10. CASE WriteStub
  BY <1>0, <1>10 DEF WriteStub, Goto, LInv, Typed, LadderInv, PastFfi, PastImports
<1>11. CASE UNCHANGED vars
  BY <1>0, <1>11 DEF vars, LInv, Typed, LadderInv, PastFfi, PastImports
<1> QED
  BY <1>1, <1>2, <1>3, <1>4, <1>5, <1>6, <1>7, <1>8, <1>9, <1>10, <1>11 DEF Next, Over

--------------------------------------------------------------------------------
\* A descent of ranks between 0 and 3 ends: a set that no rank leaves the
\* bottom of is empty.
LEMMA Descent ==
  ASSUME NEW S, \A n \in S : \E m \in S : Rank(m) < Rank(n)
  PROVE  S = {}
<1> SUFFICES ASSUME NEW n \in S PROVE FALSE
  OBVIOUS
<1>1. \A m : Rank(m) \in 0..3
  BY DEF Rank
<1>2. PICK a \in S : Rank(a) < Rank(n)
  OBVIOUS
<1>3. PICK b \in S : Rank(b) < Rank(a)
  OBVIOUS
<1>4. PICK c \in S : Rank(c) < Rank(b)
  OBVIOUS
<1>5. PICK d \in S : Rank(d) < Rank(c)
  OBVIOUS
<1> QED
  BY <1>1, <1>2, <1>3, <1>4, <1>5

LEMMA LadderSorts == LadderInv => Closed(packages) /\ ~HasCycle(Edges(packages))
<1> SUFFICES ASSUME LadderInv PROVE Closed(packages) /\ ~HasCycle(Edges(packages))
  OBVIOUS
<1>1. ASSUME NEW p \in DOMAIN packages, NEW q \in FullDeps(packages, p)
      PROVE  q \in DOMAIN packages /\ Rank(q) < Rank(p)
  <2>1. PICK d \in packages[p].deps : q = FullDep(d)
    BY DEF FullDeps
  <2>2. Downward(p, d, DOMAIN packages)
    BY DEF LadderInv
  <2>3. q = d.mi
    BY <2>1, <2>2 DEF FullDep, Downward, Outer
  <2> QED
    BY <2>2, <2>3 DEF Downward
<1>2. Closed(packages)
  BY <1>1 DEF Closed
<1>3. ASSUME NEW S \in (SUBSET Nodes(Edges(packages))) \ {{}},
             \A n \in S : Succ(Edges(packages), n) \cap S # {}
      PROVE  FALSE
  <2>1. ASSUME NEW n \in S
        PROVE  \E m \in S : Rank(m) < Rank(n)
    <3>1. PICK m \in S : m \in Succ(Edges(packages), n)
      BY <1>3
    <3>2. <<n, m>> \in Edges(packages)
      BY <3>1 DEF Succ
    <3>3. PICK p \in DOMAIN packages : <<n, m>> \in {p} \X FullDeps(packages, p)
      BY <3>2 DEF Edges
    <3>4. n = p /\ m \in FullDeps(packages, p)
      BY <3>3
    <3> QED
      BY <1>1, <3>1, <3>4
  <2> QED
    BY <2>1, Descent
<1> QED
  BY <1>2, <1>3 DEF HasCycle

\* The packages and the dependencies of every reachable state are on the ladder
\* (lib.rs:181-356, typed_config.rs:20-160).
THEOREM BindingsInvariant == Spec => []LInv
<1> QED
  BY InitLInv, NextLInv, PTL DEF Spec

\* For every set of WIT names and every world of them: the bindings that are
\* built have a build order, so sorted_packages succeeds (lib.rs:181-356, 747-786).
THEOREM BindingsSort == Spec => []Sortable
<1>1. LInv => Sortable
  BY LadderSorts DEF LInv, Sortable
<1> QED
  BY <1>1, BindingsInvariant, PTL

--------------------------------------------------------------------------------
(* A typed configuration that is built is wired up, and one with simple names *)
(* is built.                                                                  *)

Exported(p) == \E k \in DOMAIN wit.exports : p = ExportedPath(wit.exports[k])

\* The packages of exported interfaces are those with five parts to their name,
\* and gen is going to depend on each of them.
ExportedInv ==
  /\ next >= 1
  /\ pc \in {"process", "open", "interfaces", "ffi"} => DOMAIN packages = {}
  /\ \A p \in DOMAIN packages :
        Len(p) = 5 => Exported(p) /\ \E d \in gen_dependencies : d.mi = p
  /\ pc \in PastImports =>
        \A k \in DOMAIN wit.exports :
           pc # "exports" \/ k < next => ExportedPath(wit.exports[k]) \in DOMAIN packages

\* What has been done once gen is defined, the provider added, the stub written.
StagesInv ==
  /\ pc \in {"depend", "stub", "build"} =>
        Gen \in DOMAIN packages /\ gen_dependencies \subseteq packages[Gen].deps
  /\ pc \in {"stub", "build"} /\ mode # "bindings" =>
        /\ LookupPath(wit.interface) \in DOMAIN packages
        /\ ProviderDep(mode) \in packages[LookupPath(wit.interface)].deps
  /\ pc = "build" /\ mode # "bindings" => <<StubPath(wit.interface), "stub.mbt">> \in written

\* The provider is the one import that is added.  Once a typed configuration has
\* its interfaces, all that is exported is the interface of the package.
OwnInv ==
  /\ pc = "process" => imports = wit.imports
  /\ mode # "bindings" /\ pc \notin {"process", "refused", "error"} =>
        imports = Append(wit.imports, Provider(mode))
  /\ mode # "bindings" /\ pc \notin {"process", "refused", "error"} =>
        wit.single /\ OwnOnly(wit, wit.exports)
  /\ mode # "bindings" /\ pc \in {"ffi"} \cup PastFfi =>
        \A k \in DOMAIN wit.exports : wit.exports[k] = wit.interface

WiredInv == ExportedInv /\ StagesInv /\ OwnInv /\ SimpleConfigBuilds

\* An interface that is found under the name it is looked up by has the stub
\* there: names that are converted in two ways are not found at all.
LEMMA FoundIsStub ==
  ASSUME NEW i, LookupPath(i) = ExportedPath(i)
  PROVE  StubPath(i) = LookupPath(i)
  BY DEF StubPath, LookupPath, ExportedPath

\* With simple names it is found.
LEMMA SimpleIsFound ==
  ASSUME SimpleNames
  PROVE  LookupPath(wit.interface) = ExportedPath(wit.interface)
  BY DEF SimpleNames, LookupPath, ExportedPath, to_moonbit_ident, LowerCamel, Snake

LEMMA Lengths ==
  /\ Len(Ffi) = 1 /\ Len(Gen) = 1 /\ \A w : Len(WorldPath(w)) = 3
  /\ \A i : Len(ImportedPath(i)) = 4 /\ Len(ExportedPath(i)) = 5 /\ Len(LookupPath(i)) = 5
<1>1. Len(Ffi) = 1 /\ Len(Gen) = 1
  BY DEF Ffi, Gen
<1>2. \A w : Len(WorldPath(w)) = 3
  BY DEF WorldPath
<1>3. \A i : Len(ImportedPath(i)) = 4 /\ Len(ExportedPath(i)) = 5 /\ Len(LookupPath(i)) = 5
  BY DEF ImportedPath, ExportedPath, LookupPath
<1> QED
  BY <1>1, <1>2, <1>3


LEMMA InitWired == Init => WiredInv
<1> SUFFICES ASSUME Init PROVE WiredInv
  OBVIOUS
<1>1. next = 1 /\ DOMAIN packages = {} /\ pc \in {"process", "interfaces"}
  BY DEF Init
<1> QED
  BY <1>1 DEF Init, WiredInv, ExportedInv, StagesInv, OwnInv, PastFfi, SimpleConfigBuilds, PastImports

\* A package defined before gen is an exported one only if its path has five parts.
LEMMA DefineExportedInv ==
  ASSUME ExportedInv, NEW path, NEW deps, Define(path, deps), UNCHANGED <<wit, imports>>,
         gen_dependencies \subseteq gen_dependencies',
         Len(path) = 5 => Exported(path) /\ \E d \in gen_dependencies' : d.mi = path
  PROVE  /\ DOMAIN packages' = DOMAIN packages \cup {path}
         /\ \A p \in DOMAIN packages' :
               Len(p) = 5 => Exported(p)' /\ \E d \in gen_dependencies' : d.mi = p
<1>1. DOMAIN packages' = DOMAIN packages \cup {path}
  BY DEF Define
<1> QED
  BY <1>1 DEF ExportedInv, Exported

LEMMA NextExported == LInv /\ ExportedInv /\ [Next]_vars => ExportedInv'
<1> SUFFICES ASSUME LInv, ExportedInv, [Next]_vars PROVE ExportedInv'
  OBVIOUS
<1>0. Typed /\ next \in Nat /\ next >= 1
  BY DEF LInv, Typed, ExportedInv
<1>1. CASE Process
  <2>1. pc' = "open" /\ pc = "process" /\ UNCHANGED <<wit, packages, gen_dependencies, next>>
    BY <1>1 DEF Process, Goto
  <2> QED
    BY <2>1 DEF ExportedInv, Exported, PastImports
<1>2. CASE ProcessFails \/ Open \/ Fails \/ Interfaces \/ WriteStub \/ UNCHANGED vars
  <2>1. UNCHANGED <<wit, packages, gen_dependencies, next>>
    BY <1>2 DEF ProcessFails, Open, Fails, Interfaces, WriteStub, vars
  <2>2. /\ pc' \in PastImports => pc \in PastImports
        /\ pc' \in PastImports /\ pc' # "exports" => pc # "exports"
        /\ LET L == {"process", "open", "interfaces", "ffi"} IN pc' \in L => pc \in L
    BY <1>2 DEF ProcessFails, Open, Fails, Interfaces, WriteStub, Goto, vars, PastImports
  <2> QED
    BY <2>1, <2>2 DEF ExportedInv, Exported
<1>3. CASE DefineFfi
  <2>1. /\ pc = "ffi" /\ pc' = "world" /\ DOMAIN packages' = {Ffi} /\ UNCHANGED next
    BY <1>3 DEF DefineFfi, Define, Goto, ExportedInv
  <2> QED
    BY <1>0, <2>1, Lengths DEF ExportedInv, PastImports
<1>4. CASE DefineWorld
  <2>1. /\ pc' = "imports" /\ Define(WorldPath(wit.world), {})
        /\ gen_dependencies \subseteq gen_dependencies' /\ UNCHANGED <<wit, imports, next>>
    BY <1>4 DEF DefineWorld, Goto
  <2>2. \A p \in DOMAIN packages' :
           Len(p) = 5 => Exported(p)' /\ \E d \in gen_dependencies' : d.mi = p
    <3>1. PICK q, D : q = WorldPath(wit.world) /\ D = {}
      OBVIOUS
    <3>2. Len(q) # 5
      BY <3>1, Lengths
    <3>3. Define(q, D) /\ UNCHANGED <<wit, imports>> /\ gen_dependencies \subseteq gen_dependencies'
      BY <2>1, <3>1
    <3> QED
      BY <3>2, <3>3, DefineExportedInv
  <2> QED
    BY <1>0, <2>1, <2>2 DEF ExportedInv, PastImports
<1>5. CASE DefineImported
  <2>1. /\ pc' = "imports" /\ Define(ImportedPath(imports[next]), {On(Ffi, Plain("ffi"))})
        /\ next' = next + 1 /\ UNCHANGED <<wit, imports, gen_dependencies>>
    BY <1>5 DEF DefineImported
  <2>2. \A p \in DOMAIN packages' :
           Len(p) = 5 => Exported(p)' /\ \E d \in gen_dependencies' : d.mi = p
    <3>1. PICK q, D : q = ImportedPath(imports[next]) /\ D = {On(Ffi, Plain("ffi"))}
      OBVIOUS
    <3>2. Len(q) # 5
      BY <3>1, Lengths
    <3>3. Define(q, D) /\ UNCHANGED <<wit, imports>> /\ gen_dependencies \subseteq gen_dependencies'
      BY <2>1, <3>1
    <3> QED
      BY <3>2, <3>3, DefineExportedInv
  <2> QED
    BY <1>0, <2>1, <2>2 DEF ExportedInv, PastImports
<1>6. CASE ImportsDone
  <2>1. pc = "imports" /\ pc' = "exports" /\ next' = 1 /\ UNCHANGED <<wit, imports, packages, gen_dependencies>>
    BY <1>6 DEF ImportsDone, Goto
  <2>2. \A k \in DOMAIN wit.exports : ~(k < 1)
    BY <1>0 DEF Typed, Wit
  <2> QED
    BY <2>1, <2>2 DEF ExportedInv, Exported, PastImports
<1>7. CASE DefineExported
  <2> DEFINE path == ExportedPath(wit.exports[next])
             new == On(path, LowerCamel(wit.exports[next].iface))
  <2>1. /\ pc = "exports" /\ pc' = "exports" /\ next <= Len(wit.exports) /\ next' = next + 1
        /\ Define(path, {}) /\ gen_dependencies' = gen_dependencies \cup {new}
        /\ UNCHANGED <<wit, imports>>
    BY <1>7 DEF DefineExported
  <2>2. next \in DOMAIN wit.exports
    BY <1>0, <2>1 DEF Typed, Wit
  <2>3. Exported(path) /\ new \in gen_dependencies' /\ new.mi = path
    BY <2>1, <2>2 DEF Exported, On
  <2>4. /\ DOMAIN packages' = DOMAIN packages \cup {path}
        /\ \A p \in DOMAIN packages' :
              Len(p) = 5 => Exported(p)' /\ \E d \in gen_dependencies' : d.mi = p
    <3> HIDE DEF path, new
    <3>1. gen_dependencies \subseteq gen_dependencies' /\ \E d \in gen_dependencies' : d.mi = path
      BY <2>1, <2>3
    <3>2. PICK q, D : q = path /\ D = {}
      OBVIOUS
    <3>3. Define(q, D) /\ UNCHANGED <<wit, imports>> /\ Exported(q) /\ \E d \in gen_dependencies' : d.mi = q
      BY <2>1, <2>3, <3>1, <3>2
    <3> QED
      BY <3>1, <3>2, <3>3, DefineExportedInv
  <2>5. ASSUME NEW k \in DOMAIN wit.exports, k < next + 1
        PROVE  ExportedPath(wit.exports[k]) \in DOMAIN packages'
    <3>1. k \in Nat
      BY <1>0 DEF Typed, Wit
    <3>2. CASE k = next
      BY <2>4, <3>2
    <3>3. CASE k < next
      BY <2>1, <2>4, <3>3 DEF ExportedInv, PastImports
    <3> QED
      BY <1>0, <2>5, <3>1, <3>2, <3>3
  <2> QED
    BY <1>0, <2>1, <2>4, <2>5 DEF ExportedInv
<1>8. CASE DefineGen
  <2>1. /\ pc = "exports" /\ pc' \in {"build", "depend"} /\ next > Len(wit.exports)
        /\ Define(Gen, gen_dependencies) /\ UNCHANGED <<wit, imports, next, gen_dependencies>>
    BY <1>8 DEF DefineGen, Goto
  <2>2. /\ DOMAIN packages' = DOMAIN packages \cup {Gen}
        /\ \A p \in DOMAIN packages' :
              Len(p) = 5 => Exported(p)' /\ \E d \in gen_dependencies' : d.mi = p
    <3>1. PICK q : q = Gen /\ Len(q) # 5
      BY Lengths
    <3>2. Define(q, gen_dependencies)
      BY <2>1, <3>1
    <3> QED
      BY <2>1, <3>1, <3>2, DefineExportedInv
  <2>3. \A k \in DOMAIN wit.exports : k < next
    BY <1>0, <2>1 DEF Typed, Wit
  <2>4. \A k \in DOMAIN wit'.exports : ExportedPath(wit'.exports[k]) \in DOMAIN packages'
    BY <2>1, <2>2, <2>3 DEF ExportedInv, PastImports
  <2> QED
    BY <1>0, <2>1, <2>2, <2>4 DEF ExportedInv
<1>9. CASE AddProvider
  <2>1. /\ pc = "depend" /\ pc' \in {"stub", "refused"} /\ DOMAIN packages' = DOMAIN packages
        /\ UNCHANGED <<wit, imports, next, gen_dependencies>>
    BY <1>9 DEF AddProvider, Goto
  <2> QED
    BY <2>1 DEF ExportedInv, Exported, PastImports
<1> QED
  BY <1>1, <1>2, <1>3, <1>4, <1>5, <1>6, <1>7, <1>8, <1>9 DEF Next, Over


LEMMA NextStages == LInv /\ StagesInv /\ [Next]_vars => StagesInv'
<1> SUFFICES ASSUME LInv, StagesInv, [Next]_vars PROVE StagesInv'
  OBVIOUS
<1>0. Typed
  BY DEF LInv
<1>1. CASE Process \/ ProcessFails \/ Open \/ Fails \/ Interfaces \/ DefineFfi \/ DefineWorld
  BY <1>1 DEF Process, ProcessFails, Open, Fails, Interfaces, DefineFfi, DefineWorld, Goto, StagesInv
<1>2. CASE DefineImported \/ ImportsDone \/ DefineExported
  BY <1>2 DEF DefineImported, ImportsDone, DefineExported, Goto, StagesInv
<1>3. CASE DefineGen
  <2>1. /\ pc' = IF mode = "bindings" THEN "build" ELSE "depend"
        /\ Define(Gen, gen_dependencies) /\ UNCHANGED <<mode, gen_dependencies>>
    BY <1>3 DEF DefineGen, Goto
  <2>2. Gen \in DOMAIN packages' /\ packages'[Gen].deps = gen_dependencies
    BY <2>1 DEF Define
  <2> QED
    BY <2>1, <2>2 DEF StagesInv
<1>4. CASE AddProvider
  <2> DEFINE path == LookupPath(wit.interface)
             new == ProviderDep(mode)
  <2>1. pc = "depend" /\ pc' \in {"stub", "refused"} /\ UNCHANGED <<mode, wit, imports, gen_dependencies>>
    BY <1>4 DEF AddProvider, Goto
  <2>2. CASE path \notin DOMAIN packages
    BY <1>4, <2>1, <2>2 DEF AddProvider, Goto, StagesInv
  <2>3. CASE path \in DOMAIN packages
    <3>1. packages' = [packages EXCEPT ![path].deps = @ \cup {new}]
      BY <1>4, <2>3 DEF AddProvider
    <3>2. path # Gen
      BY Lengths
    <3> HIDE DEF path, new
    <3>3. /\ DOMAIN packages' = DOMAIN packages /\ packages'[Gen] = packages[Gen]
          /\ packages'[path] = [packages[path] EXCEPT !.deps = @ \cup {new}]
      BY <2>1, <2>3, <3>1, <3>2 DEF StagesInv
    <3>4. new \in packages'[path].deps
      BY <1>0, <2>3, <3>3 DEF Typed
    <3>5. Gen \in DOMAIN packages' /\ gen_dependencies' \subseteq packages'[Gen].deps
      BY <2>1, <3>3 DEF StagesInv
    <3>6. path' = path /\ new' = new
      BY <2>1 DEF path, new
    <3>7. path' \in DOMAIN packages' /\ new' \in packages'[path'].deps
      BY <2>3, <3>3, <3>4, <3>6
    <3> QED
      BY <2>1, <3>5, <3>7 DEF StagesInv, path, new
  <2> QED
    BY <2>2, <2>3
<1>5. CASE WriteStub
  BY <1>5 DEF WriteStub, Goto, StagesInv
<1>6. CASE UNCHANGED vars
  BY <1>6 DEF vars, StagesInv
<1> QED
  BY <1>1, <1>2, <1>3, <1>4, <1>5, <1>6 DEF Next, Over

\* The generator never changes the package it was given.
LEMMA SamePackage == [Next]_vars => UNCHANGED <<mode, wit>>
  BY DEF Next, vars, Process, ProcessFails, Open, Fails, Interfaces, DefineFfi, DefineWorld,
         DefineImported, ImportsDone, DefineExported, DefineGen, AddProvider, WriteStub, Over

LEMMA NextOwn == LInv /\ OwnInv /\ [Next]_vars => OwnInv'
<1> SUFFICES ASSUME LInv, OwnInv, [Next]_vars PROVE OwnInv'
  OBVIOUS
<1>1. UNCHANGED <<mode, wit>>
  BY SamePackage
<1>2. OwnOnly(wit, wit.exports)' <=> OwnOnly(wit, wit.exports)
  BY <1>1 DEF OwnOnly, Own
<1>3. CASE Process
  <2>1. /\ pc' = "open" /\ wit.single /\ OwnOnly(wit, wit.exports)
        /\ imports' = Append(wit.imports, Provider(mode))'
    BY <1>1, <1>3 DEF Process, Goto, Resolves, OwnInv
  <2> QED
    BY <1>1, <1>2, <2>1 DEF OwnInv, PastFfi
<1>4. CASE Interfaces
  <2>1. /\ pc = "interfaces" /\ pc' \in {"refused", "ffi"} /\ (pc' = "ffi" => ~Inline(wit.exports))
        /\ UNCHANGED imports
    BY <1>4 DEF Interfaces, Goto
  <2>2. ASSUME pc' = "ffi", mode # "bindings", NEW k \in DOMAIN wit.exports
        PROVE  wit.exports[k] = wit.interface
    <3>1. wit.single /\ ~wit.exports[k].inline /\ Own(wit, wit.exports[k])
      BY <2>1, <2>2 DEF OwnInv, Inline, OwnOnly
    <3>2. \A w \in Wits : w.single => \A j \in DOMAIN w.exports : Own(w, w.exports[j]) => w.exports[j] = w.interface
      BY WitsAssumption
    <3>3. wit \in Wits
      BY DEF LInv, Typed
    <3> QED
      BY <3>1, <3>2, <3>3
  <2> QED
    BY <1>1, <1>2, <2>1, <2>2 DEF OwnInv, PastFfi
<1>5. CASE ProcessFails \/ Open \/ Fails
  BY <1>1, <1>2, <1>5 DEF ProcessFails, Open, Fails, Goto, OwnInv, PastFfi
<1>6. CASE ~(Process \/ Interfaces \/ ProcessFails \/ Open \/ Fails)
  <2>1. UNCHANGED imports /\ (UNCHANGED pc \/ pc \in {"ffi"} \cup PastFfi)
    <3>1. CASE DefineFfi \/ DefineWorld \/ DefineImported \/ ImportsDone
      BY <3>1 DEF DefineFfi, DefineWorld, DefineImported, ImportsDone, PastFfi
    <3>2. CASE DefineExported \/ DefineGen \/ AddProvider \/ WriteStub
      BY <3>2 DEF DefineExported, DefineGen, AddProvider, WriteStub, PastFfi
    <3>3. CASE Over \/ UNCHANGED vars
      BY <3>3 DEF Over, vars
    <3> QED
      BY <1>6, <3>1, <3>2, <3>3 DEF Next
  <2>2. pc' = "process" => pc = "process"
    BY <1>6 DEF Next, vars, DefineFfi, DefineWorld, DefineImported, ImportsDone, DefineExported,
               DefineGen, AddProvider, WriteStub, Over, Goto
  <2> QED
    BY <1>1, <1>2, <2>1, <2>2 DEF OwnInv, PastFfi
<1> QED
  BY <1>3, <1>4, <1>5, <1>6

LEMMA NextSimple ==
  LInv /\ ExportedInv /\ OwnInv /\ SimpleConfigBuilds /\ [Next]_vars => SimpleConfigBuilds'
<1> SUFFICES ASSUME LInv, ExportedInv, OwnInv, SimpleConfigBuilds, [Next]_vars,
                    mode' # "bindings", Documented', SimpleNames'
             PROVE  pc' # "refused"
  BY DEF SimpleConfigBuilds
<1>1. mode' = mode /\ wit' = wit
  BY SamePackage
<1>2. Documented
  BY <1>1 DEF Documented, OwnOnly, Own, Inline, IsWasi, WasiVersion
<1>3. SimpleNames /\ pc # "refused"
  BY <1>1, <1>2 DEF SimpleNames, SimpleConfigBuilds
<1>4. wit.exports = <<wit.interface>> /\ ~wit.interface.inline
  BY <1>2, WitsAssumption DEF LInv, Typed, Documented
<1>8. ~ProcessFails
  <2>1. OwnOnly(wit, wit.exports)
    <3>1. Own(wit, wit.interface)
      BY <1>4 DEF Own
    <3>2. \A k \in DOMAIN wit.exports : wit.exports[k] = wit.interface
      BY <1>4
    <3> QED
      BY <3>1, <3>2 DEF OwnOnly
  <2> QED
    BY <1>2, <2>1 DEF ProcessFails, Documented, Resolves
<1>5. CASE Interfaces
  <2>1. ~Inline(wit.imports) /\ ~Inline(wit.exports)
    <3>1. \A k \in DOMAIN wit.exports : wit.exports[k] = wit.interface
      BY <1>4
    <3> QED
      BY <1>2, <1>4, <3>1 DEF Documented, Inline
  <2>2. imports = Append(wit.imports, Provider(mode)) /\ ~Provider(mode).inline
    BY <1>1, <1>5 DEF Interfaces, OwnInv, Provider
  <2>3. wit.imports \in Seq(Interface)
    BY DEF LInv, Typed, Wit
  <2>4. \A k \in DOMAIN imports : imports[k] = Provider(mode) \/ (k \in DOMAIN wit.imports /\ imports[k] = wit.imports[k])
    <3>1. PICK x : x = Provider(mode)
      OBVIOUS
    <3> QED
      BY <2>2, <2>3, <3>1
  <2>5. ~Inline(imports)
    BY <2>1, <2>2, <2>4 DEF Inline
  <2> QED
    BY <1>5, <2>1, <2>5 DEF Interfaces, Goto
<1>6. CASE AddProvider
  <2>2. 1 \in DOMAIN wit.exports /\ wit.exports[1] = wit.interface
    BY <1>4
  <2>3. ExportedPath(wit.interface) \in DOMAIN packages
    BY <1>6, <2>2 DEF AddProvider, ExportedInv, PastImports
  <2>4. LookupPath(wit.interface) \in DOMAIN packages
    BY <1>3, <2>3, SimpleIsFound
  <2> QED
    BY <1>6, <2>4 DEF AddProvider, Goto
<1>7. CASE ~(Interfaces \/ AddProvider)
  BY <1>3, <1>7, <1>8 DEF Next, vars, Process, Open, Fails, DefineFfi, DefineWorld, DefineImported, ImportsDone,
                          DefineExported, DefineGen, WriteStub, Over, Goto
<1> QED
  BY <1>5, <1>6, <1>7

\* What is defined, added and written at each place of the generator
\* (lib.rs:181-356, typed_config.rs:20-160).
THEOREM WiredInvariant == Spec => [](LInv /\ WiredInv)
<1>1. Init => LInv /\ WiredInv
  BY InitLInv, InitWired
<1>2. LInv /\ WiredInv /\ [Next]_vars => (LInv /\ WiredInv)'
  BY NextLInv, NextExported, NextStages, NextOwn, NextSimple DEF WiredInv
<1> QED
  BY <1>1, <1>2, PTL DEF Spec

LEMMA WiredConfig == LInv /\ WiredInv => ConfigWired
<1> SUFFICES ASSUME LInv, WiredInv, pc = "build", mode # "bindings"
             PROVE  \E p \in DOMAIN packages :
                       /\ <<p, "stub.mbt">> \in written
                       /\ ProviderDep(mode) \in packages[p].deps
                       /\ ProviderDep(mode).mi \in DOMAIN packages
                       /\ p \in FullDeps(packages, Gen)
  BY DEF ConfigWired
<1> DEFINE path == LookupPath(wit.interface)
<1>1. path \in DOMAIN packages /\ ProviderDep(mode) \in packages[path].deps
  BY DEF WiredInv, StagesInv
<1>2. Exported(path) /\ \E d \in gen_dependencies : d.mi = path
  BY <1>1, Lengths DEF WiredInv, ExportedInv
<1>3. StubPath(wit.interface) = path
  BY <1>2, FoundIsStub DEF Exported, WiredInv, OwnInv, PastFfi
<1>4. <<path, "stub.mbt">> \in written
  BY <1>3 DEF WiredInv, StagesInv
<1>5. ProviderDep(mode).mi \in DOMAIN packages
  BY <1>1 DEF LInv, LadderInv, Downward
<1>6. PICK d \in gen_dependencies : d.mi = path
  BY <1>2
<1>7. Gen \in DOMAIN packages /\ d \in packages[Gen].deps
  BY <1>6 DEF WiredInv, StagesInv
<1>8. FullDep(d) = path
  BY <1>6, <1>7 DEF LInv, LadderInv, Downward, FullDep, Outer
<1>9. path \in FullDeps(packages, Gen)
  BY <1>7, <1>8 DEF FullDeps
<1> QED
  BY <1>1, <1>4, <1>5, <1>9

\* Whatever its names are converted to: a typed configuration that gets as far as
\* its build is wired up (typed_config.rs:20-160).
THEOREM WiredUp == Spec => []ConfigWired
<1> QED
  BY WiredConfig, WiredInvariant, PTL

\* With names that every conversion treats alike, it gets there
\* (typed_config.rs:20-160).
THEOREM SimpleBuilds == Spec => []SimpleConfigBuilds
<1>1. WiredInv => SimpleConfigBuilds
  BY DEF WiredInv
<1> QED
  BY <1>1, WiredInvariant, PTL


--------------------------------------------------------------------------------
(* No package of the world replaces another.                                  *)

Imported(n) == {ImportedPath(imports[k]) : k \in 1..n}
ExportedUpTo(n) == {ExportedPath(wit.exports[k]) : k \in 1..n}
Head2 == {Ffi, WorldPath(wit.world)}
Distinct == AllDifferent(imports) /\ AllDifferent(wit.exports)

\* Which packages there are at each place, and how many.
CountInv ==
  /\ IsFiniteSet(DOMAIN packages)
  /\ pc = "world" => DOMAIN packages = {Ffi}
  /\ pc = "imports" =>
        /\ next <= Len(imports) + 1
        /\ DOMAIN packages = Head2 \cup Imported(next - 1)
        /\ Distinct => Cardinality(DOMAIN packages) = 1 + next
  /\ pc = "exports" =>
        /\ next <= Len(wit.exports) + 1
        /\ DOMAIN packages = Head2 \cup Imported(Len(imports)) \cup ExportedUpTo(next - 1)
        /\ Distinct => Cardinality(DOMAIN packages) = 1 + Len(imports) + next
  /\ pc \in {"depend", "stub", "build"} /\ Distinct =>
        Cardinality(DOMAIN packages) = 3 + Len(imports) + Len(wit.exports)

\* The conversions lose nothing of a name but its case and hyphens.
LEMMA PathsDiffer ==
  ASSUME NEW i \in Interface, NEW j \in Interface, Folded(i) # Folded(j)
  PROVE  ImportedPath(i) # ImportedPath(j) /\ ExportedPath(i) # ExportedPath(j)
<1>1. ASSUME NEW v \in Word, NEW w \in Word, to_moonbit_ident(v) = to_moonbit_ident(w)
      PROVE  Letters[v] = Letters[w]
  <2>1. v = w \/ Snakes[v] = Snakes[w]
    BY <1>1 DEF to_moonbit_ident, Snake, Plain
  <2> QED
    BY <2>1, WordAssumption
<1>2. ASSUME NEW v \in Word, NEW w \in Word, LowerCamel(v) = LowerCamel(w)
      PROVE  Letters[v] = Letters[w]
  <2>1. Camels[v] = Camels[w]
    BY <1>2 DEF LowerCamel, Plain
  <2> QED
    BY <2>1, WordAssumption
<1>3. \A k \in {i, j} : k.ns \in Word /\ k.pkg \in Word /\ k.iface \in Word
  BY DEF Interface
<1> QED
  BY <1>1, <1>2, <1>3 DEF Folded, ImportedPath, ExportedPath

\* define_package of a name that is not taken adds one package.
LEMMA DefineCounts ==
  ASSUME NEW path, NEW deps, Define(path, deps), IsFiniteSet(DOMAIN packages)
  PROVE  /\ DOMAIN packages' = DOMAIN packages \cup {path}
         /\ IsFiniteSet(DOMAIN packages')
         /\ path \notin DOMAIN packages =>
               Cardinality(DOMAIN packages') = Cardinality(DOMAIN packages) + 1
<1>1. DOMAIN packages' = DOMAIN packages \cup {path}
  BY DEF Define
<1> QED
  BY <1>1, FS_AddElement

LEMMA InitCount == Init => CountInv
<1> SUFFICES ASSUME Init PROVE CountInv
  OBVIOUS
<1>1. DOMAIN packages = {} /\ pc \in {"process", "interfaces"}
  BY DEF Init
<1> QED
  BY <1>1, FS_EmptySet DEF CountInv

LEMMA NextCount == LInv /\ ExportedInv /\ CountInv /\ [Next]_vars => CountInv'
<1> SUFFICES ASSUME LInv, ExportedInv, CountInv, [Next]_vars PROVE CountInv'
  OBVIOUS
<1>0. /\ next \in Nat /\ next >= 1 /\ imports \in Seq(Interface) /\ wit.exports \in Seq(Interface)
      /\ Len(imports) \in Nat /\ Len(wit.exports) \in Nat
      /\ IsFiniteSet(DOMAIN packages)
  BY DEF LInv, Typed, ExportedInv, Wit, CountInv
<1>1. CASE Process \/ ProcessFails \/ Open \/ Fails \/ Interfaces
  BY <1>1 DEF Process, ProcessFails, Open, Fails, Interfaces, Goto, CountInv
<1>2. CASE DefineFfi
  <2>1. pc' = "world" /\ DOMAIN packages' = {Ffi}
    BY <1>2 DEF DefineFfi, Define, Goto, ExportedInv
  <2>2. IsFiniteSet({Ffi})
    BY FS_Singleton
  <2> QED
    BY <2>1, <2>2 DEF CountInv
<1>3. CASE DefineWorld
  <2>1. /\ pc = "world" /\ pc' = "imports" /\ Define(WorldPath(wit.world), {})
        /\ UNCHANGED <<wit, imports, next>>
    BY <1>3 DEF DefineWorld, Goto
  <2>2. next = 1 /\ DOMAIN packages = {Ffi} /\ Cardinality(DOMAIN packages) = 1
    BY <2>1, FS_Singleton DEF CountInv, LInv, LadderInv, PastImports
  <2>3. PICK q, D : q = WorldPath(wit.world) /\ D = {}
    OBVIOUS
  <2>4. Define(q, D) /\ q \notin DOMAIN packages
    BY <2>1, <2>2, <2>3, Lengths
  <2>5. /\ DOMAIN packages' = Head2 /\ IsFiniteSet(DOMAIN packages')
        /\ Cardinality(DOMAIN packages') = 2
    <3>1. /\ DOMAIN packages' = DOMAIN packages \cup {q} /\ IsFiniteSet(DOMAIN packages')
          /\ Cardinality(DOMAIN packages') = Cardinality(DOMAIN packages) + 1
      BY <1>0, <2>4, DefineCounts
    <3>2. Cardinality(DOMAIN packages') = 2
      BY <2>2, <3>1
    <3> QED
      BY <2>2, <2>3, <3>1, <3>2 DEF Head2
  <2>6. 1..(next' - 1) = {} /\ next' = 1
    BY <2>1, <2>2
  <2>7. DOMAIN packages' = {Ffi, WorldPath(wit'.world)}
                             \cup {ImportedPath(imports'[k]) : k \in 1..(next' - 1)}
    BY <2>1, <2>5, <2>6 DEF Head2
  <2>8. next' <= Len(imports') + 1 /\ Cardinality(DOMAIN packages') = 1 + next'
    BY <1>0, <2>1, <2>5, <2>6
  <2> QED
    BY <2>1, <2>5, <2>7, <2>8 DEF CountInv, Head2, Imported
<1>4. CASE DefineImported
  <2>1. /\ pc = "imports" /\ pc' = "imports" /\ next <= Len(imports) /\ next' = next + 1
        /\ Define(ImportedPath(imports[next]), {On(Ffi, Plain("ffi"))})
        /\ UNCHANGED <<wit, imports>>
    BY <1>4 DEF DefineImported
  <2>2. PICK q, D : q = ImportedPath(imports[next]) /\ D = {On(Ffi, Plain("ffi"))}
    OBVIOUS
  <2>3. DOMAIN packages = Head2 \cup Imported(next - 1)
    BY <2>1 DEF CountInv
  <2>4. Distinct => q \notin DOMAIN packages
    <3>1. q \notin Head2
      BY <2>2, Lengths DEF Head2
    <3>2. ASSUME Distinct, NEW k \in 1..(next - 1) PROVE q # ImportedPath(imports[k])
      <4>1. k \in DOMAIN imports /\ next \in DOMAIN imports /\ k # next
        BY <1>0, <2>1
      <4>2. imports[k] \in Interface /\ imports[next] \in Interface
        BY <1>0, <4>1
      <4>3. Folded(imports[k]) # Folded(imports[next])
        BY <3>2, <4>1 DEF Distinct, AllDifferent
      <4> QED
        BY <2>2, <4>2, <4>3, PathsDiffer
    <3> QED
      BY <2>3, <3>1, <3>2 DEF Imported
  <2>5. /\ DOMAIN packages' = DOMAIN packages \cup {q} /\ IsFiniteSet(DOMAIN packages')
        /\ Distinct => Cardinality(DOMAIN packages') = Cardinality(DOMAIN packages) + 1
    <3>1. Define(q, D)
      BY <2>1, <2>2
    <3> QED
      BY <1>0, <2>4, <3>1, DefineCounts
  <2>6. Imported(next) = Imported(next - 1) \cup {q}
    <3>1. 1..next = 1..(next - 1) \cup {next}
      BY <1>0
    <3> QED
      BY <2>2, <3>1 DEF Imported
  <2>7. next' - 1 = next /\ next' <= Len(imports') + 1
    BY <1>0, <2>1
  <2>8. DOMAIN packages' = {Ffi, WorldPath(wit'.world)}
                             \cup {ImportedPath(imports'[k]) : k \in 1..(next' - 1)}
    <3>1. DOMAIN packages' = Head2 \cup Imported(next)
      BY <2>3, <2>5, <2>6
    <3> QED
      BY <2>1, <2>7, <3>1 DEF Head2, Imported
  <2>9. Distinct => Cardinality(DOMAIN packages) = 1 + next
    BY <2>1 DEF CountInv
  <2>10. Distinct' => Cardinality(DOMAIN packages') = 1 + next'
    <3>1. Distinct' <=> Distinct
      BY <2>1 DEF Distinct
    <3> QED
      BY <1>0, <2>1, <2>5, <2>9, <3>1
  <2> QED
    BY <2>1, <2>5, <2>7, <2>8, <2>10 DEF CountInv, Head2, Imported
<1>5. CASE ImportsDone
  <2>1. /\ pc = "imports" /\ pc' = "exports" /\ next > Len(imports) /\ next' = 1
        /\ UNCHANGED <<wit, imports, packages>>
    BY <1>5 DEF ImportsDone, Goto
  <2>2. next - 1 = Len(imports)
    BY <1>0, <2>1 DEF CountInv
  <2>3. DOMAIN packages = Head2 \cup Imported(Len(imports))
    BY <2>1, <2>2 DEF CountInv
  <2>4. Distinct => Cardinality(DOMAIN packages) = 1 + Len(imports) + 1
    BY <1>0, <2>1, <2>2 DEF CountInv
  <2>5. ExportedUpTo(1 - 1) = {}
    BY DEF ExportedUpTo
  <2> QED
    BY <1>0, <2>1, <2>3, <2>4, <2>5 DEF CountInv, Head2, Imported, ExportedUpTo, Distinct
<1>6. CASE DefineExported
  <2>1. /\ pc = "exports" /\ pc' = "exports" /\ next <= Len(wit.exports) /\ next' = next + 1
        /\ Define(ExportedPath(wit.exports[next]), {})
        /\ UNCHANGED <<wit, imports>>
    BY <1>6 DEF DefineExported
  <2>2. PICK q, D : q = ExportedPath(wit.exports[next]) /\ D = {}
    OBVIOUS
  <2>3. DOMAIN packages = Head2 \cup Imported(Len(imports)) \cup ExportedUpTo(next - 1)
    BY <2>1 DEF CountInv
  <2>4. Distinct => q \notin DOMAIN packages
    <3>1. q \notin Head2 /\ q \notin Imported(Len(imports))
      <4>1. q \notin Head2
        BY <2>2, Lengths DEF Head2
      <4>2. \A i : q # ImportedPath(i)
        BY <2>2, Lengths
      <4> QED
        BY <4>1, <4>2 DEF Imported
    <3>2. ASSUME Distinct, NEW k \in 1..(next - 1) PROVE q # ExportedPath(wit.exports[k])
      <4>1. k \in DOMAIN wit.exports /\ next \in DOMAIN wit.exports /\ k # next
        BY <1>0, <2>1
      <4>2. wit.exports[k] \in Interface /\ wit.exports[next] \in Interface
        BY <1>0, <4>1
      <4>3. Folded(wit.exports[k]) # Folded(wit.exports[next])
        BY <3>2, <4>1 DEF Distinct, AllDifferent
      <4> QED
        BY <2>2, <4>2, <4>3, PathsDiffer
    <3> QED
      BY <2>3, <3>1, <3>2 DEF ExportedUpTo
  <2>5. /\ DOMAIN packages' = DOMAIN packages \cup {q} /\ IsFiniteSet(DOMAIN packages')
        /\ Distinct => Cardinality(DOMAIN packages') = Cardinality(DOMAIN packages) + 1
    <3>1. Define(q, D)
      BY <2>1, <2>2
    <3> QED
      BY <1>0, <2>4, <3>1, DefineCounts
  <2>6. ExportedUpTo(next) = ExportedUpTo(next - 1) \cup {q}
    <3>1. 1..next = 1..(next - 1) \cup {next}
      BY <1>0
    <3> QED
      BY <2>2, <3>1 DEF ExportedUpTo
  <2>7. next' - 1 = next /\ next' <= Len(wit'.exports) + 1
    BY <1>0, <2>1
  <2>8. DOMAIN packages' = {Ffi, WorldPath(wit'.world)}
                             \cup {ImportedPath(imports'[k]) : k \in 1..Len(imports')}
                             \cup {ExportedPath(wit'.exports[k]) : k \in 1..(next' - 1)}
    <3>1. DOMAIN packages' = Head2 \cup Imported(Len(imports)) \cup ExportedUpTo(next)
      BY <2>3, <2>5, <2>6
    <3> QED
      BY <2>1, <2>7, <3>1 DEF Head2, Imported, ExportedUpTo
  <2>9. Distinct => Cardinality(DOMAIN packages) = 1 + Len(imports) + next
    BY <2>1 DEF CountInv
  <2>10. Distinct' => Cardinality(DOMAIN packages') = 1 + Len(imports') + next'
    <3>1. Distinct' <=> Distinct
      BY <2>1 DEF Distinct
    <3>2. Distinct => Cardinality(DOMAIN packages') = (1 + Len(imports) + next) + 1
      BY <2>5, <2>9
    <3>3. \A m, n \in Nat : (1 + m + n) + 1 = 1 + m + (n + 1)
      OBVIOUS
    <3>4. Len(imports) \in Nat /\ next \in Nat /\ next' = next + 1 /\ imports' = imports
      BY <1>0, <2>1
    <3> QED
      BY <3>1, <3>2, <3>3, <3>4
  <2> QED
    BY <2>1, <2>5, <2>7, <2>8, <2>10 DEF CountInv, Head2, Imported, ExportedUpTo
<1>7. CASE DefineGen
  <2>1. /\ pc = "exports" /\ pc' \in {"depend", "build"} /\ next > Len(wit.exports)
        /\ Define(Gen, gen_dependencies) /\ UNCHANGED <<wit, imports>>
    BY <1>7 DEF DefineGen, Goto
  <2>2. Gen \notin DOMAIN packages
    BY <2>1, Lengths, Ranks DEF CountInv, Head2, Imported, ExportedUpTo
  <2>3. /\ IsFiniteSet(DOMAIN packages')
        /\ Cardinality(DOMAIN packages') = Cardinality(DOMAIN packages) + 1
    BY <1>0, <2>1, <2>2, DefineCounts
  <2>4. Distinct => Cardinality(DOMAIN packages') = 3 + Len(imports) + Len(wit.exports)
    <3>1. Distinct => Cardinality(DOMAIN packages) = 1 + Len(imports) + next
      BY <2>1 DEF CountInv
    <3>2. next = Len(wit.exports) + 1
      BY <1>0, <2>1 DEF CountInv
    <3>3. Distinct => Cardinality(DOMAIN packages') = (1 + Len(imports) + next) + 1
      BY <2>3, <3>1
    <3>4. \A m, n \in Nat : (1 + m + (n + 1)) + 1 = 3 + m + n
      OBVIOUS
    <3>5. Len(imports) \in Nat /\ Len(wit.exports) \in Nat
      BY <1>0
    <3> QED
      BY <3>2, <3>3, <3>4, <3>5
  <2> QED
    BY <2>1, <2>3, <2>4 DEF CountInv, Distinct
<1>8. CASE AddProvider
  <2>1. /\ pc = "depend" /\ pc' \in {"stub", "refused"} /\ DOMAIN packages' = DOMAIN packages
        /\ UNCHANGED <<wit, imports>>
    BY <1>8 DEF AddProvider, Goto
  <2> QED
    BY <2>1 DEF CountInv, Distinct
<1>9. CASE WriteStub
  BY <1>9 DEF WriteStub, Goto, CountInv, Distinct
<1>10. CASE UNCHANGED vars
  BY <1>10 DEF vars, CountInv, Distinct, Head2, Imported, ExportedUpTo
<1> QED
  BY <1>1, <1>2, <1>3, <1>4, <1>5, <1>6, <1>7, <1>8, <1>9, <1>10 DEF Next, Over

\* For every world: no two interfaces that are different without their versions
\* become one package (lib.rs:181-356, 385-388).
THEOREM NothingReplaced == Spec => []NoneReplaced
<1>1. Init => LInv /\ ExportedInv /\ CountInv
  BY InitLInv, InitWired, InitCount DEF WiredInv
<1>2. LInv /\ ExportedInv /\ CountInv /\ [Next]_vars => (LInv /\ ExportedInv /\ CountInv)'
  BY NextLInv, NextExported, NextCount
<1>3. CountInv => NoneReplaced
  BY DEF CountInv, NoneReplaced, Distinct
<1> QED
  BY <1>1, <1>2, <1>3, PTL DEF Spec

--------------------------------------------------------------------------------
(* The script component (GetScript).                                          *)

Chars == {"x", "CR", "LF"}
Swallowed(n) == script[n] = "CR" /\ n < Len(script) /\ script[n + 1] = "LF"

\* The script with the line ends of Unix, character by character.
LEMMA UnixSteps ==
  ASSUME script \in Seq(Chars)
  PROVE  /\ Script!Unix \in [0..Len(script) -> Seq(Chars)]
         /\ Script!Unix[0] = << >>
         /\ \A n \in 1..Len(script) :
              Script!Unix[n] = IF Swallowed(n) THEN Script!Unix[n - 1] ELSE Append(Script!Unix[n - 1], script[n])
<1> DEFINE N == Len(script)
           T == Seq(Chars)
           step(i, t) == IF Swallowed(i) THEN t ELSE Append(t, script[i])
           h == [q \in (1..N) \X T |-> step(q[1], q[2])]
           U == Script!Unix
<1>1. N \in Nat /\ << >> \in T /\ \A i \in 1..N : script[i] \in Chars
  BY EmptySeq
<1>2. \A i \in 1..N : \A t \in T : step(i, t) \in T
  BY <1>1, AppendProperties
<1>3. h \in [(1..N) \X T -> T]
  <2> HIDE DEF step, N, T
  <2>1. \A q \in (1..N) \X T : q[1] \in 1..N /\ q[2] \in T
    OBVIOUS
  <2> QED
    BY <1>2, <2>1
<1>4. PICK f \in [0..N -> T] : f[0] = << >> /\ \A i \in 1..N : f[i] = h[<<i, f[i - 1]>>]
  <2> PICK M, g, X, a : M = N /\ g = h /\ X = T /\ a = << >>
    OBVIOUS
  <2> HIDE DEF h, N, T
  <2>1. M \in Nat /\ a \in X /\ g \in [(1..M) \X X -> X]
    BY <1>1, <1>3
  <2>2. \E f \in [0..M -> X] : GoesBy(f, M, a, g)
    BY <2>1, RecursionExists
  <2> QED
    BY <2>2 DEF GoesBy
<1>5. ASSUME NEW i \in 1..N PROVE f[i] = step(i, f[i - 1])
  <2>1. i - 1 \in 0..N /\ f[i - 1] \in T
    <3> HIDE DEF N, T
    <3> QED
      BY <1>1
  <2>2. h[<<i, f[i - 1]>>] = step(i, f[i - 1])
    <3> HIDE DEF step, N, T
    <3> QED
      BY <2>1
  <2> HIDE DEF h
  <2> QED
    BY <1>4, <2>1, <2>2
<1>6. f = [n \in 0..N |-> IF n = 0 THEN << >>
                          ELSE IF script[n] = "CR" /\ n < N /\ script[n + 1] = "LF" THEN f[n - 1]
                          ELSE Append(f[n - 1], script[n])]
  <2> HIDE DEF h, T
  <2>1. \A n \in 0..N : n # 0 => n \in 1..N
    BY <1>1
  <2>2. ASSUME NEW n \in 0..N
        PROVE  f[n] = IF n = 0 THEN << >>
                      ELSE IF script[n] = "CR" /\ n < N /\ script[n + 1] = "LF" THEN f[n - 1]
                      ELSE Append(f[n - 1], script[n])
    <3>1. CASE n = 0
      BY <1>4, <3>1
    <3>2. CASE n # 0
      BY <1>5, <2>1, <3>2 DEF Swallowed
    <3> QED
      BY <3>1, <3>2
  <2> HIDE DEF N
  <2> QED
    BY <1>4, <2>2
<1>7. U = [n \in 0..N |-> IF n = 0 THEN << >>
                          ELSE IF script[n] = "CR" /\ n < N /\ script[n + 1] = "LF" THEN U[n - 1]
                          ELSE Append(U[n - 1], script[n])]
  BY <1>6 DEF Script!Unix
<1> HIDE DEF U
<1>8. U[0] = << >> /\ \A n \in 1..N : U[n] = step(n, U[n - 1])
  <2>1. 0 \in 0..N /\ \A n \in 1..N : n \in 0..N /\ n # 0
    BY <1>1
  <2> QED
    BY <1>7, <2>1 DEF Swallowed
<1>9. \A n \in 0..N : U[n] \in T
  <2> DEFINE S == {n \in 0..N : U[n] \in T}
  <2>1. 0 \in S
    <3>1. 0 \in 0..N /\ U[0] \in T
      <4> HIDE DEF N, T
      <4> QED
        BY <1>1, <1>8
    <3> QED
      BY <3>1
  <2>2. ASSUME NEW n \in 1..N, n - 1 \in S PROVE n \in S
    <3>1. n \in 0..N /\ U[n - 1] \in T /\ U[n] = step(n, U[n - 1])
      <4> HIDE DEF N, T, step
      <4> QED
        BY <1>1, <1>8, <2>2
    <3> HIDE DEF step, T
    <3> QED
      BY <1>2, <3>1
  <2>3. 0..N \subseteq S
    <3> HIDE DEF S, N
    <3> QED
      BY <1>1, <2>1, <2>2, UpTo
  <2> QED
    BY <2>3
<1>10. U \in [0..N -> T]
  <2> HIDE DEF T
  <2> QED
    BY <1>7, <1>9
<1> QED
  BY <1>8, <1>10 DEF U

\* What line n of a literal makes of the value of the lines before it.
Joint(n, t, l) == (IF n = 1 THEN << >> ELSE Append(t, "LF")) \o l

\* The value of a literal, line by line.
LEMMA JoinedSteps ==
  ASSUME NEW L \in Seq(Seq(Chars))
  PROVE  /\ Script!Joined(L) \in [0..Len(L) -> Seq(Chars)]
         /\ Script!Joined(L)[0] = << >>
         /\ \A n \in 1..Len(L) :
              Script!Joined(L)[n] = Joint(n, Script!Joined(L)[n - 1], L[n])
<1> DEFINE N == Len(L)
           T == Seq(Chars)
           step(i, t) == Joint(i, t, L[i])
           h == [q \in (1..N) \X T |-> step(q[1], q[2])]
           U == Script!Joined(L)
<1>1. N \in Nat /\ << >> \in T /\ (\A i \in 1..N : L[i] \in T) /\ "LF" \in Chars
  BY EmptySeq DEF Chars
<1>2. \A i \in 1..N : \A t \in T : step(i, t) \in T
  BY <1>1, AppendProperties, ConcatProperties DEF Joint
<1>3. h \in [(1..N) \X T -> T]
  <2> HIDE DEF step, N, T
  <2>1. \A q \in (1..N) \X T : q[1] \in 1..N /\ q[2] \in T
    OBVIOUS
  <2> QED
    BY <1>2, <2>1
<1>4. PICK f \in [0..N -> T] : f[0] = << >> /\ \A i \in 1..N : f[i] = h[<<i, f[i - 1]>>]
  <2> PICK M, g, X, a : M = N /\ g = h /\ X = T /\ a = << >>
    OBVIOUS
  <2> HIDE DEF h, N, T
  <2>1. M \in Nat /\ a \in X /\ g \in [(1..M) \X X -> X]
    BY <1>1, <1>3
  <2>2. \E f \in [0..M -> X] : GoesBy(f, M, a, g)
    BY <2>1, RecursionExists
  <2> QED
    BY <2>2 DEF GoesBy
<1>5. ASSUME NEW i \in 1..N PROVE f[i] = step(i, f[i - 1])
  <2>1. i - 1 \in 0..N /\ f[i - 1] \in T
    <3> HIDE DEF N, T
    <3> QED
      BY <1>1
  <2>2. h[<<i, f[i - 1]>>] = step(i, f[i - 1])
    <3> HIDE DEF step, N, T
    <3> QED
      BY <2>1
  <2> HIDE DEF h
  <2> QED
    BY <1>4, <2>1, <2>2
<1>6. f = [n \in 0..N |-> IF n = 0 THEN << >>
                          ELSE (IF n = 1 THEN << >> ELSE Append(f[n - 1], "LF")) \o L[n]]
  <2> HIDE DEF h, T
  <2>1. \A n \in 0..N : n # 0 => n \in 1..N
    BY <1>1
  <2>2. ASSUME NEW n \in 0..N
        PROVE  f[n] = IF n = 0 THEN << >>
                      ELSE (IF n = 1 THEN << >> ELSE Append(f[n - 1], "LF")) \o L[n]
    <3>1. CASE n = 0
      BY <1>4, <3>1
    <3>2. CASE n # 0
      BY <1>5, <2>1, <3>2 DEF Joint
    <3> QED
      BY <3>1, <3>2
  <2> HIDE DEF N
  <2> QED
    BY <1>4, <2>2
<1>7. U = [n \in 0..N |-> IF n = 0 THEN << >>
                          ELSE (IF n = 1 THEN << >> ELSE Append(U[n - 1], "LF")) \o L[n]]
  BY <1>6 DEF Script!Joined
<1> HIDE DEF U
<1>8. U[0] = << >> /\ \A n \in 1..N : U[n] = step(n, U[n - 1])
  <2>1. 0 \in 0..N /\ \A n \in 1..N : n \in 0..N /\ n # 0
    BY <1>1
  <2> QED
    BY <1>7, <2>1 DEF Joint
<1>9. \A n \in 0..N : U[n] \in T
  <2> DEFINE S == {n \in 0..N : U[n] \in T}
  <2>1. 0 \in S
    <3>1. 0 \in 0..N /\ U[0] \in T
      <4> HIDE DEF N, T
      <4> QED
        BY <1>1, <1>8
    <3> QED
      BY <3>1
  <2>2. ASSUME NEW n \in 1..N, n - 1 \in S PROVE n \in S
    <3>1. n \in 0..N /\ U[n - 1] \in T /\ U[n] = step(n, U[n - 1])
      <4> HIDE DEF N, T, step
      <4> QED
        BY <1>1, <1>8, <2>2
    <3> HIDE DEF step, T
    <3> QED
      BY <1>2, <3>1
  <2>3. 0..N \subseteq S
    <3> HIDE DEF S, N
    <3> QED
      BY <1>1, <2>1, <2>2, UpTo
  <2> QED
    BY <2>3
<1>10. U \in [0..N -> T]
  <2> HIDE DEF T
  <2> QED
    BY <1>7, <1>9
<1> QED
  BY <1>8, <1>10 DEF U

\* A line more.
LEMMA JoinedAppend ==
  ASSUME NEW L \in Seq(Seq(Chars)), NEW l \in Seq(Chars), NEW M, M = Append(L, l)
  PROVE  /\ M \in Seq(Seq(Chars)) /\ M # << >>
         /\ Script!Joined(L)[Len(L)] \in Seq(Chars)
         /\ Script!Joined(M)[Len(M)] =
              IF L = << >> THEN l ELSE Append(Script!Joined(L)[Len(L)], "LF") \o l
<1> DEFINE J == Script!Joined(L)
           K == Script!Joined(M)
           S == {n \in 0..Len(L) : K[n] = J[n]}
<1>1. /\ M \in Seq(Seq(Chars)) /\ M # << >> /\ Len(M) = Len(L) + 1 /\ Len(L) \in Nat
      /\ \A i \in 1..Len(L) : M[i] = L[i]
      /\ M[Len(L) + 1] = l
  BY AppendProperties, LenProperties
<1>2. /\ J \in [0..Len(L) -> Seq(Chars)] /\ J[0] = << >>
      /\ \A n \in 1..Len(L) : J[n] = Joint(n, J[n - 1], L[n])
  BY JoinedSteps
<1>3. /\ K[0] = << >>
      /\ \A n \in 1..Len(M) : K[n] = Joint(n, K[n - 1], M[n])
  BY <1>1, JoinedSteps
<1> HIDE DEF J, K
<1>4. 0..Len(L) \subseteq S
  <2>1. 0 \in S
    BY <1>1, <1>2, <1>3
  <2>2. ASSUME NEW n \in 1..Len(L), n - 1 \in S PROVE n \in S
    <3>1. n \in 1..Len(M) /\ n \in 0..Len(L) /\ M[n] = L[n] /\ K[n - 1] = J[n - 1]
      BY <1>1, <2>2
    <3> QED
      BY <1>2, <1>3, <3>1
  <2> HIDE DEF S
  <2> QED
    BY <1>1, <2>1, <2>2, UpTo
<1>5. K[Len(M)] = Joint(Len(M), J[Len(L)], l)
  <2>1. Len(M) \in 1..Len(M) /\ Len(M) - 1 = Len(L) /\ Len(L) \in 0..Len(L)
    BY <1>1
  <2>2. K[Len(L)] = J[Len(L)]
    BY <1>4, <2>1
  <2>3. K[Len(M)] = Joint(Len(M), K[Len(M) - 1], M[Len(M)])
    BY <1>3, <2>1
  <2> QED
    BY <1>1, <2>1, <2>2, <2>3
<1>6. J[Len(L)] \in Seq(Chars)
  <2>1. Len(L) \in 0..Len(L)
    BY <1>1
  <2> QED
    BY <1>2, <2>1
<1>7. CASE L = << >>
  <2>1. Len(M) = 1
    BY <1>1, <1>7, EmptySeq
  <2>2. << >> \o l = l
    BY ConcatEmptySeq
  <2> QED
    BY <1>1, <1>5, <1>6, <1>7, <2>1, <2>2 DEF J, K, Joint
<1>8. CASE L # << >>
  <2>1. Len(M) # 1
    BY <1>1, <1>8, EmptySeq
  <2> QED
    BY <1>1, <1>5, <1>6, <1>8, <2>1 DEF J, K, Joint
<1> QED
  BY <1>7, <1>8

\* Where nothing is swallowed, the characters come after one another.
LEMMA Kept ==
  ASSUME script \in Seq(Chars), NEW a \in 1..Len(script), NEW m \in (a - 1)..Len(script),
         \A n \in a..m : ~Swallowed(n)
  PROVE  Script!Unix[m] = Script!Unix[a - 1] \o SubSeq(script, a, m)
<1> DEFINE U == Script!Unix
           T == Seq(Chars)
           K == m - (a - 1)
           V == U[a - 1]
           S == {k \in 0..K : U[(a - 1) + k] = V \o SubSeq(script, a, (a - 1) + k)}
<1>1. /\ Len(script) \in Nat /\ a \in Nat /\ m \in Nat /\ K \in Nat /\ a - 1 \in 0..Len(script)
      /\ (a - 1) + 0 = a - 1 /\ (a - 1) + K = m /\ K \in 0..K /\ 0 \in 0..K
  BY LenProperties
<1>2. /\ U \in [0..Len(script) -> T]
      /\ \A n \in 1..Len(script) : U[n] = IF Swallowed(n) THEN U[n - 1] ELSE Append(U[n - 1], script[n])
  BY UnixSteps
<1> HIDE DEF U
<1>3. V \in T
  <2> HIDE DEF T
  <2> QED
    BY <1>1, <1>2
<1>4. 0 \in S
  <2>1. SubSeq(script, a, a - 1) = << >>
    BY <1>1, SubSeqEmpty
  <2>2. V \o << >> = V
    BY <1>3, ConcatEmptySeq
  <2> QED
    BY <1>1, <2>1, <2>2
<1>5. ASSUME NEW k \in 1..K, k - 1 \in S PROVE k \in S
  <2>1. PICK n : n = (a - 1) + k
    OBVIOUS
  <2>2. /\ n \in a..m /\ n \in 1..Len(script) /\ n \in a..Len(script) /\ n - 1 = (a - 1) + (k - 1) /\ k \in 0..K
        /\ n - 1 \in Int
    BY <1>1, <2>1
  <2>3. U[n - 1] = V \o SubSeq(script, a, n - 1)
    BY <1>5, <2>2
  <2>4. PICK w : w = SubSeq(script, a, n - 1)
    OBVIOUS
  <2>5. w \in T
    <3>1. \A i \in a..(n - 1) : script[i] \in Chars
      BY <1>1, <2>2, ElementOfSeq
    <3> QED
      BY <1>1, <2>2, <2>4, <3>1, SubSeqProperties
  <2>6. script[n] \in Chars
    BY <2>2, ElementOfSeq
  <2>7. PICK x : x = V \o w
    OBVIOUS
  <2>8. x \in T
    BY <1>3, <2>5, <2>7, ConcatProperties
  <2>9. U[n] = Append(x, script[n])
    BY <1>2, <2>2, <2>3, <2>4, <2>7
  <2>10. Append(x, script[n]) = x \o <<script[n]>>
    BY <2>6, <2>8, AppendIsConcat
  <2>11. x \o <<script[n]>> = V \o (w \o <<script[n]>>)
    <3>1. PICK v, y : v = V /\ y = <<script[n]>>
      OBVIOUS
    <3>2. y \in T /\ v \in T
      BY <1>3, <2>6, <3>1
    <3> HIDE DEF V, T
    <3>3. (v \o w) \o y = v \o (w \o y)
      <4> USE DEF T
      <4> QED
        BY <2>5, <3>2, ConcatAssociative
    <3> QED
      BY <2>7, <3>1, <3>3
  <2>12. SubSeq(script, a, n) = w \o <<script[n]>>
    BY <2>2, <2>4, SubSeqRecursiveSecond
  <2>13. U[n] = V \o SubSeq(script, a, n)
    BY <2>9, <2>10, <2>11, <2>12
  <2> QED
    BY <2>1, <2>2, <2>13
<1>6. K \in S
  <2> HIDE DEF S, K
  <2> QED
    BY <1>1, <1>4, <1>5, UpTo
<1> QED
  BY <1>1, <1>6 DEF U

\* A line ends before the next LF, or at the end of the script.
LEMMA LineEndIs ==
  ASSUME script \in Seq(Chars), at \in 1..Len(script), NEW e, e = Script!LineEnd
  PROVE  /\ e \in at..(Len(script) + 1)
         /\ \A i \in at..(e - 1) : script[i] # "LF"
         /\ e = Len(script) + 1 \/ script[e] = "LF"
<1> DEFINE T == {x \in at..(Len(script) + 1) : x = Len(script) + 1 \/ script[x] = "LF"}
           Fine(x) == /\ \A i \in at..(x - 1) : script[i] # "LF"
                      /\ x = Len(script) + 1 \/ script[x] = "LF"
<1>1. Len(script) \in Nat
  BY LenProperties
<1>2. Len(script) + 1 \in T /\ T \subseteq Nat
  BY <1>1
<1>3. PICK x \in T : \A y \in T : x <= y
  <2> HIDE DEF T
  <2>1. T # {}
    BY <1>2
  <2> QED
    BY <1>2, <2>1, NatMin
<1>4. x \in at..(Len(script) + 1) /\ Fine(x)
  <2>1. x \in at..(Len(script) + 1) /\ (x = Len(script) + 1 \/ script[x] = "LF")
    OBVIOUS
  <2>2. ASSUME NEW i \in at..(x - 1), script[i] = "LF" PROVE FALSE
    <3>1. i \in at..(Len(script) + 1) /\ ~(x <= i)
      BY <1>1, <2>1
    <3>2. i \in T
      BY <2>2, <3>1
    <3> QED
      BY <1>3, <3>1, <3>2
  <2> QED
    BY <2>1, <2>2
<1>5. e = CHOOSE z \in at..(Len(script) + 1) : Fine(z)
  BY DEF Script!LineEnd
<1>6. e \in at..(Len(script) + 1) /\ Fine(e)
  <2> HIDE DEF Fine
  <2> QED
    BY <1>4, <1>5
<1> QED
  BY <1>6

\* A line of a script whose CRs belong to line ends has none.
LEMMA NoneInText ==
  ASSUME script \in Seq(Chars), at \in 1..Len(script), NEW e, e = Script!LineEnd,
         Script!LineEndsOnly
  PROVE  \A i \in DOMAIN Script!Text(e) : Script!Text(e)[i] # "CR"
<1>1. /\ e \in at..(Len(script) + 1)
      /\ \A i \in at..(e - 1) : script[i] # "LF"
      /\ e = Len(script) + 1 \/ script[e] = "LF"
  BY LineEndIs
<1>2. Len(script) \in Nat /\ e \in Nat /\ at \in Nat /\ at <= e /\ at <= Len(script) /\ 1 <= at
  BY <1>1, LenProperties
<1> DEFINE Cut == e <= Len(script) /\ e > at /\ script[e - 1] = "CR"
<1>3. PICK m : m = (IF Cut THEN e - 2 ELSE e - 1) /\ Script!Text(e) = SubSeq(script, at, m)
  BY DEF Script!Text
<1>4. ASSUME NEW k \in at..m PROVE script[k] # "CR" /\ script[k] \in Chars
  <2>1. k \in 1..Len(script) /\ k \in at..(e - 1)
    BY <1>1, <1>2, <1>3
  <2>2. ASSUME script[k] = "CR" PROVE FALSE
    <3>1. k < Len(script) /\ script[k + 1] = "LF"
      BY <2>1, <2>2 DEF Script!LineEndsOnly
    <3>2. k + 1 = e
      <4>1. k + 1 \notin at..(e - 1)
        BY <1>1, <3>1
      <4> QED
        BY <1>2, <2>1, <4>1
    <3>3. k = e - 1 /\ e <= Len(script) /\ e > at
      BY <1>2, <2>1, <3>1, <3>2
    <3>4. Cut
      BY <2>2, <3>3
    <3>5. m = e - 2
      BY <1>3, <3>4
    <3> QED
      BY <1>2, <3>3, <3>5
  <2>3. script[k] \in Chars
    BY <2>1, ElementOfSeq
  <2> QED
    BY <2>2, <2>3
<1>5. PICK t : t = Script!Text(e)
  OBVIOUS
<1>6. /\ Len(t) = IF at <= m THEN m - at + 1 ELSE 0
      /\ \A i \in 1..(m - at + 1) : t[i] = script[at + i - 1]
      /\ t \in Seq(Chars)
  BY <1>2, <1>3, <1>4, <1>5, SubSeqProperties
<1>7. ASSUME NEW i \in DOMAIN t PROVE t[i] # "CR"
  <2>1. i \in 1..(m - at + 1) /\ at + i - 1 \in at..m
    BY <1>2, <1>3, <1>6, <1>7
  <2> QED
    BY <1>4, <1>6, <2>1
<1> QED
  BY <1>5, <1>7

LEMMA ScriptInit == Script!Init => Script!IInv
<1> SUFFICES ASSUME Script!Init PROVE Script!IInv
  OBVIOUS
<1>1. script \in Seq(Chars) /\ at = 1 /\ stub = << >>
  BY GeneratorsAssumption DEF Script!Init, Script!ScriptsAssumption, Script!Char, Chars
<1>2. Len(script) \in Nat /\ << >> \in Seq(Seq(Chars))
  BY <1>1, LenProperties, EmptySeq
<1>3. at \in 1..(Len(script) + 2) /\ at \notin 2..(Len(script) + 1) /\ at # Len(script) + 2
  BY <1>1, <1>2
<1>4. Script!Clean(stub)
  BY <1>1 DEF Script!Clean
<1> QED
  BY <1>1, <1>2, <1>3, <1>4 DEF Script!IInv, Script!Char, Chars

\* A line that is not swallowed by its end is what Unix has of it.
LEMMA LineIs ==
  ASSUME script \in Seq(Chars), at \in 1..Len(script), NEW e, e = Script!LineEnd
  PROVE  /\ Script!Text(e) \in Seq(Chars)
         /\ Script!Unix[IF e <= Len(script) THEN e - 1 ELSE Len(script)] =
              Script!Unix[at - 1] \o Script!Text(e)
         /\ e = Len(script) + 1 => /\ Script!Text(e) = SubSeq(script, at, Len(script))
                                   /\ script[Len(script)] # "LF"
<1>1. /\ e \in at..(Len(script) + 1)
      /\ \A i \in at..(e - 1) : script[i] # "LF"
      /\ e = Len(script) + 1 \/ script[e] = "LF"
  BY LineEndIs
<1>2. Len(script) \in Nat /\ e \in Nat /\ at \in Nat /\ at <= e /\ at <= Len(script)
  BY <1>1, LenProperties
<1>3. ASSUME NEW n \in at..(e - 1), Swallowed(n) PROVE e <= Len(script) /\ n = e - 1 /\ script[e - 1] = "CR"
  <2>1. n + 1 \notin at..(e - 1) /\ n < Len(script)
    BY <1>1, <1>3 DEF Swallowed
  <2>2. n + 1 = e
    BY <1>2, <2>1
  <2> QED
    BY <1>2, <1>3, <2>1, <2>2 DEF Swallowed
<1>4. \A m \in (at - 1)..Len(script) : SubSeq(script, at, m) \in Seq(Chars)
  <2> SUFFICES ASSUME NEW m \in (at - 1)..Len(script) PROVE SubSeq(script, at, m) \in Seq(Chars)
    OBVIOUS
  <2>1. \A i \in at..m : script[i] \in Chars
    <3>1. \A i \in at..m : i \in 1..Len(script)
      BY <1>2
    <3> QED
      BY <3>1, ElementOfSeq
  <2> QED
    BY <1>2, <2>1, SubSeqProperties
<1>5. CASE e = Len(script) + 1
  <2>1. e - 1 = Len(script) /\ ~(e <= Len(script)) /\ Len(script) \in (at - 1)..Len(script) /\ Len(script) \in at..(e - 1)
    BY <1>2, <1>5
  <2>2. \A n \in at..Len(script) : ~Swallowed(n)
    BY <1>3, <2>1
  <2>3. Script!Text(e) = SubSeq(script, at, Len(script))
    BY <2>1 DEF Script!Text
  <2>4. Script!Unix[Len(script)] = Script!Unix[at - 1] \o SubSeq(script, at, Len(script))
    BY <2>1, <2>2, Kept
  <2> QED
    BY <1>1, <1>4, <2>1, <2>3, <2>4
<1>6. CASE e <= Len(script) /\ e > at /\ script[e - 1] = "CR"
  <2>1. e - 2 \in (at - 1)..Len(script) /\ e - 1 \in 1..Len(script) /\ (e - 1) - 1 = e - 2 /\ (e - 1) + 1 = e
    BY <1>2, <1>6
  <2>2. \A n \in at..(e - 2) : ~Swallowed(n)
    <3>1. \A n \in at..(e - 2) : n \in at..(e - 1) /\ n # e - 1
      BY <1>2
    <3> QED
      BY <1>3, <3>1
  <2>3. Script!Unix[e - 2] = Script!Unix[at - 1] \o SubSeq(script, at, e - 2)
    BY <2>1, <2>2, Kept
  <2>4. Swallowed(e - 1)
    BY <1>1, <1>2, <1>6, <2>1 DEF Swallowed
  <2>5. Script!Unix[e - 1] = Script!Unix[e - 2]
    BY <2>1, <2>4, UnixSteps
  <2>6. Script!Text(e) = SubSeq(script, at, e - 2)
    BY <1>6 DEF Script!Text
  <2>7. e # Len(script) + 1
    BY <1>2, <1>6
  <2> QED
    BY <1>4, <1>6, <2>1, <2>3, <2>5, <2>6, <2>7
<1>7. CASE e <= Len(script) /\ ~(e > at /\ script[e - 1] = "CR")
  <2>1. e - 1 \in (at - 1)..Len(script)
    BY <1>2, <1>7
  <2>2. \A n \in at..(e - 1) : ~Swallowed(n)
    <3> SUFFICES ASSUME NEW n \in at..(e - 1), Swallowed(n) PROVE FALSE
      OBVIOUS
    <3>1. n = e - 1 /\ script[e - 1] = "CR"
      BY <1>3
    <3>2. e > at
      BY <1>2, <3>1
    <3> QED
      BY <1>7, <3>1, <3>2
  <2>3. Script!Unix[e - 1] = Script!Unix[at - 1] \o SubSeq(script, at, e - 1)
    BY <2>1, <2>2, Kept
  <2>4. Script!Text(e) = SubSeq(script, at, e - 1)
    BY <1>7 DEF Script!Text
  <2>5. e # Len(script) + 1
    BY <1>2, <1>7
  <2> QED
    BY <1>4, <1>7, <2>1, <2>3, <2>4, <2>5
<1> QED
  BY <1>2, <1>1, <1>5, <1>6, <1>7

\* Another line, and the literal has what has been read of the script.
LEMMA LineKeeps ==
  ASSUME Script!IInv, Script!WriteLine
  PROVE  Script!IInv'
<1>1. /\ script \in Seq(Chars) /\ stub \in Seq(Seq(Chars)) /\ at \in 1..(Len(script) + 2)
      /\ stub = << >> <=> at = 1
      /\ at \in 2..(Len(script) + 1) => Script!Unix[at - 1] = Append(Script!Value, "LF")
  BY DEF Script!IInv, Script!Char, Chars
<1>2. PICK e : e = Script!LineEnd
  OBVIOUS
<1>3. /\ at <= Len(script) /\ script' = script /\ at' = e + 1
      /\ stub' = Append(stub, Script!Text(e))
  BY <1>2 DEF Script!WriteLine
<1>4. Len(script) \in Nat /\ at \in Nat /\ at \in 1..Len(script)
  BY <1>1, <1>3, LenProperties
<1>5. /\ e \in at..(Len(script) + 1)
      /\ e = Len(script) + 1 \/ script[e] = "LF"
  BY <1>1, <1>2, <1>4, LineEndIs
<1>6. PICK t : t = Script!Text(e)
  OBVIOUS
<1>7. /\ t \in Seq(Chars)
      /\ Script!Unix[IF e <= Len(script) THEN e - 1 ELSE Len(script)] = Script!Unix[at - 1] \o t
      /\ e = Len(script) + 1 => t = SubSeq(script, at, Len(script)) /\ script[Len(script)] # "LF"
  BY <1>1, <1>2, <1>4, <1>6, LineIs
<1>8. PICK v, w : v = Script!Value /\ w = Script!Value'
  OBVIOUS
<1>9. /\ stub' \in Seq(Seq(Chars)) /\ stub' # << >> /\ v \in Seq(Chars)
      /\ w = IF stub = << >> THEN t ELSE Append(v, "LF") \o t
  <2>1. v = Script!Joined(stub)[Len(stub)]
    BY <1>8 DEF Script!Value
  <2>2. w = Script!Joined(stub')[Len(stub')]
    BY <1>8 DEF Script!Value
  <2>3. PICK M : M = stub'
    OBVIOUS
  <2>4. M = Append(stub, t)
    BY <1>3, <1>6, <2>3
  <2>5. /\ M \in Seq(Seq(Chars)) /\ M # << >> /\ Script!Joined(stub)[Len(stub)] \in Seq(Chars)
        /\ Script!Joined(M)[Len(M)] =
             IF stub = << >> THEN t ELSE Append(Script!Joined(stub)[Len(stub)], "LF") \o t
    BY <1>1, <1>7, <2>4, JoinedAppend
  <2> QED
    BY <2>1, <2>2, <2>3, <2>5
<1>10. w = Script!Unix[at - 1] \o t /\ w \in Seq(Chars)
  <2>1. CASE at = 1
    <3>1. Script!Unix[at - 1] = << >>
      BY <1>1, <2>1, UnixSteps
    <3>2. << >> \o t = t
      BY <1>7, ConcatEmptySeq
    <3> QED
      BY <1>1, <1>7, <1>9, <2>1, <3>1, <3>2
  <2>2. CASE at # 1
    <3>1. at \in 2..(Len(script) + 1)
      BY <1>4, <2>2
    <3>2. Script!Unix[at - 1] = Append(v, "LF")
      BY <1>1, <1>8, <3>1
    <3>3. Append(v, "LF") \in Seq(Chars)
      BY <1>9, AppendProperties DEF Chars
    <3>4. Append(v, "LF") \o t \in Seq(Chars)
      BY <1>7, <3>3, ConcatProperties
    <3> QED
      BY <1>1, <1>9, <2>2, <3>2, <3>4
  <2> QED
    BY <2>1, <2>2
<1>11. (Script!Unix)' = Script!Unix
  BY <1>3 DEF Script!Unix
<1>12. at' \in 2..(Len(script) + 2) /\ at' # 1 /\ at' \in 1..(Len(script) + 2)
  BY <1>3, <1>4, <1>5
<1>13. ASSUME at' \in 2..(Len(script) + 1) PROVE Script!Unix[at' - 1] = Append(w, "LF")
  <2>1. e \in 1..Len(script) /\ at' - 1 = e /\ e <= Len(script) /\ e # Len(script) + 1
    BY <1>3, <1>4, <1>5, <1>13
  <2>2. script[e] = "LF" /\ ~Swallowed(e)
    BY <1>5, <2>1 DEF Swallowed
  <2>3. Script!Unix[e] = Append(Script!Unix[e - 1], "LF")
    BY <1>1, <2>1, <2>2, UnixSteps
  <2> QED
    BY <1>7, <1>10, <2>1, <2>3
<1>14. ASSUME at' = Len(script) + 2 PROVE Script!Unix[Len(script)] = w /\ w # << >> /\ Script!Last(w) # "LF"
  <2>1. e = Len(script) + 1 /\ ~(e <= Len(script))
    BY <1>3, <1>4, <1>5, <1>14
  <2>2. t = SubSeq(script, at, Len(script)) /\ script[Len(script)] # "LF"
    BY <1>7, <2>1
  <2>3. PICK u : u = Script!Unix[at - 1]
    OBVIOUS
  <2>4. u \in Seq(Chars)
    <3>1. at - 1 \in 0..Len(script)
      BY <1>4
    <3> QED
      BY <1>1, <2>3, <3>1, UnixSteps
  <2>5. Len(t) = Len(script) - at + 1 /\ t[Len(t)] = script[Len(script)]
    <3>1. \A i \in at..Len(script) : script[i] \in Chars
      <4>1. \A i \in at..Len(script) : i \in 1..Len(script)
        BY <1>4
      <4> QED
        BY <1>1, <4>1, ElementOfSeq
    <3>2. /\ Len(t) = IF at <= Len(script) THEN Len(script) - at + 1 ELSE 0
          /\ \A i \in 1..(Len(script) - at + 1) : t[i] = script[at + i - 1]
      BY <1>4, <2>2, <3>1, SubSeqProperties
    <3>3. Len(script) - at + 1 \in 1..(Len(script) - at + 1) /\ at + (Len(script) - at + 1) - 1 = Len(script)
      BY <1>4
    <3> QED
      BY <1>4, <3>2, <3>3
  <2>6. w = u \o t
    BY <1>10, <2>3
  <2>7. /\ Len(w) = Len(u) + Len(t)
        /\ \A i \in 1..(Len(u) + Len(t)) : w[i] = IF i <= Len(u) THEN u[i] ELSE t[i - Len(u)]
    BY <1>7, <2>4, <2>6, ConcatProperties
  <2>8. Len(u) \in Nat /\ Len(t) \in Nat \ {0}
    BY <1>4, <2>4, <2>5, LenProperties
  <2>9. w[Len(w)] = t[Len(t)] /\ Len(w) # 0
    <3>1. /\ Len(u) + Len(t) \in 1..(Len(u) + Len(t)) /\ ~(Len(u) + Len(t) <= Len(u))
          /\ (Len(u) + Len(t)) - Len(u) = Len(t) /\ Len(u) + Len(t) # 0
      BY <2>8
    <3> QED
      BY <2>7, <3>1
  <2>10. Script!Unix[Len(script)] = w
    BY <1>7, <1>10, <2>1
  <2> QED
    BY <2>2, <2>5, <2>9, <2>10, EmptySeq DEF Script!Last
<1>15. ASSUME Script!LineEndsOnly PROVE Script!Clean(stub')
  <2>1. \A i \in DOMAIN t : t[i] # "CR"
    BY <1>1, <1>2, <1>4, <1>6, <1>15, NoneInText
  <2>2. Script!Clean(stub)
    BY <1>15 DEF Script!IInv
  <2>3. PICK M : M = stub' /\ M = Append(stub, t)
    BY <1>3, <1>6
  <2>4. ASSUME NEW l \in DOMAIN M PROVE M[l] = t \/ (l \in DOMAIN stub /\ M[l] = stub[l])
    <3>1. PICK T : T = Seq(Chars)
      OBVIOUS
    <3>2. stub \in Seq(T) /\ t \in T
      BY <1>1, <1>7, <3>1
    <3> QED
      BY <2>3, <2>4, <3>2, AppendProperties
  <2> QED
    BY <2>1, <2>2, <2>3, <2>4 DEF Script!Clean
<1>16. Script!LineEndsOnly' => Script!Clean(stub)'
  BY <1>3, <1>15 DEF Script!LineEndsOnly, Script!Clean
<1> QED
  BY <1>1, <1>3, <1>8, <1>9, <1>11, <1>12, <1>13, <1>14, <1>16 DEF Script!IInv, Script!Char, Chars

LEMMA ScriptNext == Script!IInv /\ [Script!Next]_(Script!vars) => Script!IInv'
<1> SUFFICES ASSUME Script!IInv, [Script!Next]_(Script!vars) PROVE Script!IInv'
  OBVIOUS
<1>1. CASE Script!WriteLine
  BY <1>1, LineKeeps
<1>2. CASE UNCHANGED <<script, at, stub>>
  BY <1>2 DEF Script!IInv, Script!Unix, Script!Value, Script!LineEndsOnly, Script!Clean
<1> QED
  BY <1>1, <1>2 DEF Script!Next, Script!vars, Script!Prepare, Script!WriteStub, Script!Build, Script!Over

\* Whatever the script, if every CR of it belongs to a line end: line by line, the
\* literal holds what has been read of it, but for the line ends
\* (get_script.rs:23-41).
THEOREM LinesAreKept == Script!Spec => []LinesKept
<1>1. Script!Spec => []Script!IInv
  BY ScriptInit, ScriptNext, PTL DEF Script!Spec
<1>2. Script!IInv => LinesKept
  <2> SUFFICES ASSUME Script!IInv
               PROVE  Script!Value = Script!DropLastLF(Script!Unix[Script!Read])
    BY DEF LinesKept, Script!LinesKept, Script!IInv
  <2>1. /\ script \in Seq(Chars) /\ stub \in Seq(Seq(Chars)) /\ at \in 1..(Len(script) + 2)
        /\ stub = << >> <=> at = 1
        /\ at \in 2..(Len(script) + 1) => Script!Unix[at - 1] = Append(Script!Value, "LF")
        /\ at = Len(script) + 2 =>
             Script!Unix[Len(script)] = Script!Value /\ Script!Value # << >> /\ Script!Last(Script!Value) # "LF"
    BY DEF Script!IInv, Script!Char, Chars
  <2>2. Len(script) \in Nat
    BY <2>1, LenProperties
  <2>3. PICK v : v = Script!Value
    OBVIOUS
  <2>4. CASE at = 1
    <3>1. Script!Read = 0
      BY <2>2, <2>4 DEF Script!Read
    <3>2. Script!Unix[0] = << >>
      BY <2>1, UnixSteps
    <3>3. Script!Value = << >>
      BY <2>1, <2>4, JoinedSteps, EmptySeq DEF Script!Value
    <3> QED
      BY <3>1, <3>2, <3>3 DEF Script!DropLastLF
  <2>5. CASE at \in 2..(Len(script) + 1)
    <3>1. Script!Read = at - 1
      BY <2>2, <2>5 DEF Script!Read
    <3>2. v \in Seq(Chars)
      <4>1. Len(stub) \in 0..Len(stub)
        BY <2>1, LenProperties
      <4> QED
        BY <2>1, <2>3, <4>1, JoinedSteps DEF Script!Value
    <3>3. PICK x : x = Append(v, "LF")
      OBVIOUS
    <3>4. x \in Seq(Chars) /\ x # << >> /\ Len(x) = Len(v) + 1 /\ Len(v) \in Nat /\ x[Len(x)] = "LF"
          /\ \A i \in 1..Len(v) : x[i] = v[i]
      BY <3>2, <3>3 DEF Chars
    <3>5. SubSeq(x, 1, Len(x) - 1) = v
      <4>1. Len(x) - 1 = Len(v)
        BY <3>4
      <4>2. x = v \o <<"LF">>
        BY <3>2, <3>3, AppendIsConcat DEF Chars
      <4> QED
        BY <3>2, <3>4, <4>1, <4>2
    <3> QED
      BY <2>1, <2>3, <2>5, <3>1, <3>3, <3>4, <3>5 DEF Script!DropLastLF, Script!Last, Script!Front
  <2>6. CASE at = Len(script) + 2
    <3>1. Script!Read = Len(script)
      BY <2>2, <2>6 DEF Script!Read
    <3> QED
      BY <2>1, <2>6, <3>1 DEF Script!DropLastLF
  <2>7. at = 1 \/ at \in 2..(Len(script) + 1) \/ at = Len(script) + 2
    BY <2>1, <2>2
  <2> QED
    BY <2>4, <2>5, <2>6, <2>7
<1> QED
  BY <1>1, <1>2, PTL
================================================================================
