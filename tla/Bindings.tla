--------------------------------- MODULE Bindings ---------------------------------
(* The packages of a WIT world: define_bindgen_packages (src/lib.rs), and the *)
(* typed configuration generator (src/typed_config.rs), which defines them    *)
(* for its own input, adds a dependency, writes the stub and builds.          *)
(*                                                                            *)
(* The conversions of names, of the crate heck, are constants: they fold case *)
(* and drop hyphens, so several WIT names may become one.  A package name,    *)
(* and a directory, is a path of converted names below the root package.      *)
EXTENDS Naturals, Sequences, FiniteSets

CONSTANTS Word,      \* WIT names, in kebab case
          Keyword,   \* those to_moonbit_ident escapes
          Snakes,    \* to_snake_case of each name
          Camels,    \* to_lower_camel_case of each name
          Letters,   \* its letters and digits, in lower case
          Version,   \* versions of WIT packages
          Wits       \* the inputs: see Wit

\* A conversion keeps the letters of a name: what it changes is their case and
\* the hyphens.
ASSUME WordAssumption ==
  /\ Word \subseteq STRING /\ Snakes \in [Word -> STRING] /\ Camels \in [Word -> STRING]
  /\ \A v, w \in Word :
        Snakes[v] = Snakes[w] \/ Camels[v] = Camels[w] => Letters[v] = Letters[w]
  /\ \A w \in {"wasi", "cli", "environment", "config", "store"} :
        w \in Word \ Keyword /\ Snakes[w] = w /\ Camels[w] = w
  /\ Version # {}

\* An interface with a name; `inline` if it is written in the world itself.
Interface == [ns : Word, pkg : Word, iface : Word, version : Version, inline : BOOLEAN]

\* A WIT package: the world, and what process_wit_package asks of the package.
Wit == [world : Word, imports : Seq(Interface), exports : Seq(Interface),
        interface : Interface,   \* the interface of the package itself
        single : BOOLEAN,        \* it has one interface and one world
        strings : BOOLEAN]       \* all its functions are free and return strings

\* An interface of the WIT package itself.
Own(w, i) == /\ ~i.inline
             /\ <<i.ns, i.pkg, i.version>> = <<w.interface.ns, w.interface.pkg, w.interface.version>>

Inline(s) == \E k \in DOMAIN s : s[k].inline

OwnOnly(w, s) == \A k \in DOMAIN s : s[k].inline \/ Own(w, s[k])

\* A package with one interface has no other.
ASSUME WitsAssumption ==
  /\ Wits \subseteq Wit
  /\ \A w \in Wits : /\ ~w.interface.inline
                     /\ w.single => \A s \in {w.imports, w.exports} : \A k \in DOMAIN s :
                                      Own(w, s[k]) => s[k] = w.interface

Modes == {"bindings", "EnvVars", "WasiConfig"}

--------------------------------------------------------------------------------
(* Names and paths.                                                           *)

Plain(x) == <<"plain", x>>
Snake(w) == Plain(Snakes[w])
LowerCamel(w) == Plain(Camels[w])

\* A keyword gets a suffix no converted name ends in.
to_moonbit_ident(w) == IF w \in Keyword THEN <<"escaped", w>> ELSE Snake(w)

Part == {"plain", "escaped"} \X STRING

\* The registry is that of PackageGraph; every .mi file is in the build
\* directory here.
INSTANCE PackageGraph WITH Name <- Seq(Part), Outside <- << <<"outside", "outside">> >>

Ffi == <<Plain("ffi")>>
Gen == <<Plain("gen")>>
WorldPath(w) == <<Plain("gen"), Plain("world"), LowerCamel(w)>>

\* Mutant of ImportedPath: by the interface's own name only.
ImportedShort(i) == <<Plain("interface"), LowerCamel(i.iface)>>

ImportedPath(i) == <<Plain("interface"), to_moonbit_ident(i.ns), to_moonbit_ident(i.pkg),
                     LowerCamel(i.iface)>>

ExportedPath(i) == <<Plain("gen"), Plain("interface"), to_moonbit_ident(i.ns),
                     to_moonbit_ident(i.pkg), LowerCamel(i.iface)>>

\* Mutant of StubPath: the directory of an imported interface.
StubOutsideGen(i) == <<Plain("interface"), to_moonbit_ident(i.ns), to_moonbit_ident(i.pkg),
                       LowerCamel(i.iface)>>

\* write_interface_stub and write_interface_package_json write here.
StubPath(i) == <<Plain("gen"), Plain("interface"), to_moonbit_ident(i.ns),
                 to_moonbit_ident(i.pkg), LowerCamel(i.iface)>>

\* Mutant of LookupPath: the package's name in camel case.
LookupCamel(i) == <<Plain("gen"), Plain("interface"), Snake(i.ns), LowerCamel(i.pkg),
                    Snake(i.iface)>>

\* The name the typed configuration looks its package up by.
LookupPath(i) == <<Plain("gen"), Plain("interface"), Snake(i.ns), Snake(i.pkg),
                   Snake(i.iface)>>

On(path, alias) == [mi |-> path, alias |-> <<alias>>]

\* The version of the WASI packages the code comes with: they count as one.
WasiVersion == CHOOSE v \in Version : TRUE

\* The interface process_wit_package adds to the imports.
Provider(mode) ==
  [ns |-> "wasi",
   pkg |-> IF mode = "EnvVars" THEN "cli" ELSE "config",
   iface |-> IF mode = "EnvVars" THEN "environment" ELSE "store",
   version |-> WasiVersion,
   inline |-> FALSE]

ProviderDep(mode) ==
  On(IF mode = "EnvVars"
     THEN <<Plain("interface"), Plain("wasi"), Plain("cli"), Plain("environment")>>
     ELSE <<Plain("interface"), Plain("wasi"), Plain("config"), Plain("store")>>,
     IF mode = "EnvVars" THEN Plain("environment") ELSE Plain("configStore"))

VARIABLES mode,               \* what the caller wants of wit
          wit,                \* the WIT package
          imports,            \* what its world imports: the generator adds to it
          packages,           \* self.packages
          gen_dependencies,   \* what gen will depend on
          next,               \* index in the list of interfaces of the loop
          written,            \* <<directory, file>> written by the generator
          pc

vars == <<mode, wit, imports, packages, gen_dependencies, next, written, pc>>

Init == /\ mode \in Modes
        /\ wit \in Wits
        /\ imports = wit.imports
        /\ packages = [p \in {} |-> {}]
        /\ gen_dependencies = {}
        /\ next = 1
        /\ written = {}
        /\ pc = IF mode = "bindings" THEN "interfaces" ELSE "process"

Goto(l) == pc' = l

\* define_package, of a package whose output is where its name says: the code
\* joins both from the same parts.
Define(path, deps) ==
  packages' = [q \in DOMAIN packages \cup {path} |->
                 IF q = path THEN [output |-> path, deps |-> deps] ELSE packages[q]]

--------------------------------------------------------------------------------
(* process_wit_package, and the component made of what it prints.             *)

\* A package of that name is in the code already.
IsWasi(i) == /\ i.ns = "wasi" /\ i.pkg \in {"io", "cli", "config"}
             /\ i.version = WasiVersion

\* The text is resolved before the WASI packages are added, and printed with
\* these alone: no other package can be named in it, and it can be none of them.
Resolves(w) == /\ OwnOnly(w, w.imports) /\ OwnOnly(w, w.exports)
               /\ ~IsWasi(w.interface)

Process == /\ pc = "process"
           /\ wit.single /\ wit.strings /\ Resolves(wit)
           /\ imports' = Append(imports, Provider(mode))
           /\ Goto("open")
           /\ UNCHANGED <<mode, wit, packages, gen_dependencies, next, written>>

ProcessFails == /\ pc = "process"
                /\ ~(wit.single /\ wit.strings /\ Resolves(wit))
                /\ Goto("refused")
                /\ UNCHANGED <<mode, wit, imports, packages, gen_dependencies, next, written>>

\* empty_from_wit
Open == /\ pc = "open"
        /\ Goto("interfaces")
        /\ UNCHANGED <<mode, wit, imports, packages, gen_dependencies, next, written>>

\* An error of the file system, of the printer, or of the crate that generates
\* the bindings.
Fails == /\ pc \in {"process", "open", "depend", "stub"}
         /\ Goto("error")
         /\ UNCHANGED <<mode, wit, imports, packages, gen_dependencies, next, written>>

--------------------------------------------------------------------------------
(* define_bindgen_packages                                                    *)

\* get_imported_interfaces, get_exported_interfaces: an interface without a
\* name is an error, before anything is defined.
Interfaces == /\ pc = "interfaces"
              /\ Goto(IF Inline(imports) \/ Inline(wit.exports) THEN "refused" ELSE "ffi")
              /\ UNCHANGED <<mode, wit, imports, packages, gen_dependencies, next, written>>

DefineFfi == /\ pc = "ffi"
             /\ Define(Ffi, {})
             /\ gen_dependencies' = {On(Ffi, Plain("ffi"))}
             /\ Goto("world")
             /\ UNCHANGED <<mode, wit, imports, next, written>>

DefineWorld == /\ pc = "world"
               /\ Define(WorldPath(wit.world), {})
               /\ gen_dependencies' = gen_dependencies \cup
                                        {On(WorldPath(wit.world), LowerCamel(wit.world))}
               /\ Goto("imports")
               /\ UNCHANGED <<mode, wit, imports, next, written>>

DefineImported ==
  /\ pc = "imports"
  /\ next <= Len(imports)
  /\ Define(ImportedPath(imports[next]), {On(Ffi, Plain("ffi"))})
  /\ next' = next + 1
  /\ UNCHANGED <<mode, wit, imports, gen_dependencies, written, pc>>

ImportsDone == /\ pc = "imports"
               /\ next > Len(imports)
               /\ next' = 1
               /\ Goto("exports")
               /\ UNCHANGED <<mode, wit, imports, packages, gen_dependencies, written>>

\* Mutant of DefineExported: the stub's package depends on gen.
DefineExportedOnGen ==
  /\ pc = "exports"
  /\ next <= Len(wit.exports)
  /\ LET i == wit.exports[next]
     IN  /\ Define(ExportedPath(i), {On(Gen, Plain("gen"))})
         /\ gen_dependencies' = gen_dependencies \cup {On(ExportedPath(i), LowerCamel(i.iface))}
  /\ next' = next + 1
  /\ UNCHANGED <<mode, wit, imports, written, pc>>

DefineExported ==
  /\ pc = "exports"
  /\ next <= Len(wit.exports)
  /\ LET i == wit.exports[next]
     IN  /\ Define(ExportedPath(i), {})
         /\ gen_dependencies' = gen_dependencies \cup {On(ExportedPath(i), LowerCamel(i.iface))}
  /\ next' = next + 1
  /\ UNCHANGED <<mode, wit, imports, written, pc>>

DefineGen == /\ pc = "exports"
             /\ next > Len(wit.exports)
             /\ Define(Gen, gen_dependencies)
             /\ Goto(IF mode = "bindings" THEN "build" ELSE "depend")
             /\ UNCHANGED <<mode, wit, imports, gen_dependencies, next, written>>

--------------------------------------------------------------------------------
(* generate_typed_config_component, after define_bindgen_packages.            *)

\* write_interface_package_json, then add_dependency.
AddProvider ==
  /\ pc = "depend"
  /\ written' = written \cup {<<StubPath(wit.interface), "moon.pkg.json">>}
  /\ IF LookupPath(wit.interface) \in DOMAIN packages
     THEN /\ packages' = [packages EXCEPT ![LookupPath(wit.interface)].deps =
                                            @ \cup {ProviderDep(mode)}]
          /\ Goto("stub")
     ELSE /\ UNCHANGED packages
          /\ Goto("refused")
  /\ UNCHANGED <<mode, wit, imports, gen_dependencies, next>>

WriteStub == /\ pc = "stub"
             /\ written' = written \cup {<<StubPath(wit.interface), "stub.mbt">>}
             /\ Goto("build")
             /\ UNCHANGED <<mode, wit, imports, packages, gen_dependencies, next>>

\* The build itself is in Builder.
Over == pc \in {"build", "refused", "error"} /\ UNCHANGED vars

Next == \/ Process \/ ProcessFails
        \/ Open \/ Fails
        \/ Interfaces
        \/ DefineFfi \/ DefineWorld
        \/ DefineImported \/ ImportsDone
        \/ DefineExported \/ DefineGen
        \/ AddProvider \/ WriteStub
        \/ Over

Spec == Init /\ [][Next]_vars

--------------------------------------------------------------------------------
TypeOK == /\ mode \in Modes
          /\ wit \in Wit /\ imports \in Seq(Interface)
          /\ IsRegistry(packages)
          /\ gen_dependencies \subseteq Dep
          /\ next \in Nat
          /\ written \subseteq Seq(Part) \X {"moon.pkg.json", "stub.mbt"}
          /\ pc \in {"process", "open", "interfaces", "ffi", "world", "imports", "exports",
                     "depend", "stub", "build", "refused", "error"}

\* Whatever the world, also when names of it are converted to the same path,
\* the build of its bindings can be sorted: sorted_packages neither finds a
\* cycle nor panics (lib.rs:181-356, 747-786).
Sortable == pc = "build" => Closed(packages) /\ ~HasCycle(Edges(packages))

\* Two interfaces of the world that are different also without their versions,
\* case and hyphens.
Folded(i) == <<Letters[i.ns], Letters[i.pkg], Letters[i.iface]>>
AllDifferent(s) == \A i, j \in DOMAIN s : i # j => Folded(s[i]) # Folded(s[j])

\* Nothing is lost on the way: every interface of the world has a package of
\* its own, unless two of them differ only in their versions, in the case of
\* their names or in their hyphens: these become one (lib.rs:181-356, 385-388).
NoneReplaced ==
  pc = "build" /\ AllDifferent(imports) /\ AllDifferent(wit.exports) =>
     Cardinality(DOMAIN packages) = 3 + Len(imports) + Len(wit.exports)

\* A typed configuration that is built is wired up: the stub is where its
\* package looks for it, that package can see the interface the stub calls, and
\* gen depends on it (typed_config.rs:20-160, lib.rs:433-455).
ConfigWired ==
  pc = "build" /\ mode # "bindings" =>
     \E p \in DOMAIN packages :
        /\ <<p, "stub.mbt">> \in written
        /\ ProviderDep(mode) \in packages[p].deps
        /\ ProviderDep(mode).mi \in DOMAIN packages
        /\ p \in FullDeps(packages, Gen)

\* What the typed configuration accepts: one world, that exports one interface
\* of string functions, in a text that names no other package.
Documented == /\ wit.single /\ wit.strings
              /\ wit.exports = <<wit.interface>>
              /\ OwnOnly(wit, wit.imports) /\ ~Inline(wit.imports) /\ ~IsWasi(wit.interface)

\* Its names are converted in the same way everywhere.
SimpleNames == /\ wit.interface.ns \notin Keyword
               /\ wit.interface.pkg \notin Keyword
               /\ Snakes[wit.interface.iface] = Camels[wit.interface.iface]

\* Such a package is not refused anywhere on the way to its build: only an error
\* of the file system or of another crate stops it (typed_config.rs:20-160,
\* 183-301).
SimpleConfigBuilds == mode # "bindings" /\ Documented /\ SimpleNames => pc # "refused"

--------------------------------------------------------------------------------
\* The doc comment of generate_typed_config_component (typed_config.rs:13-17): a
\* single world exporting a single interface of string functions is enough.
DocumentedConfigBuilds == mode # "bindings" /\ Documented => pc # "refused"
================================================================================
