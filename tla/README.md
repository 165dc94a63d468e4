# moonbit-component-generator: a verification development

TLA+ models of `moonbit-component-generator`, the Rust library that turns a WIT
world and MoonBit sources into a WebAssembly component. The modules are checked
with TLC on small instances; the facts that matter most are proved with TLAPS
for every value of the constants. Paths below are relative to the root of the
repository; `lib.rs` is `src/lib.rs`, the other Rust files are in `src/` and
`src/moonc_wasm/`.

Contents: 1 the system, 2 the plan, 3 the modules, 4 the runs, 5 the proofs,
6 disagreements between code and documentation, 7 what is not modelled.

## 1. The system

A caller makes a `MoonBitComponent` (a directory with a WIT package, generated
bindings and the MoonBit core library), defines packages in it, writes sources
and calls `build`. `build` sorts the packages by their dependencies, runs the
MoonBit compiler once per package and once to link, embeds the WIT package and
encodes the component. The compiler is a program in OCaml, compiled to
WebAssembly, that runs in V8 inside the caller's process; the file system calls
it makes are natives written in Rust.

```
 get_script.rs, typed_config.rs        generators: a WIT text and a stub
        |  calls
 MoonBitComponent (lib.rs)             registry of packages, directory, build
        |  MOONC.run(args)   (a static, shared by all threads)
 MoonC / run_wasmoo (lib.rs, mod.rs)   one V8 per process, one isolate per run
        |  natives called by the compiler
 wasmoo_extern.rs, js_glue             descriptors, files, strings, process
        |  files
 the component's directory             shared by every build in it
```

| Component | State | Operations | What is hard | What makes it correct |
|---|---|---|---|---|
| Component directory (`empty_from_wit`, `existing`, `disable_cleanup`, drop; lib.rs 60-178, 571-577) | the directory, its WIT package, bindings, core library; who removes it | create, open, keep, drop | errors half-way, process ends, two components in one directory | an open component finds what it needs; nothing is left behind unexplained |
| Registry (`define_package`, `add_dependency`; lib.rs 385-406) | a map of packages | insert or replace; add a dependency | silent replacement | see the bindings |
| Build order (`sorted_packages`; lib.rs 747-786) | the dependency graph, the order under construction | one call | edges from paths and aliases, layers that are hash sets, unknown packages | dependencies first, everything once, cycles refused |
| Build (`build`; lib.rs 484-745) | `.core` and `.mi` files, `target/module.wasm`, `module.embed.wasm`, the target | one call: sort, compile each, link, embed, encode | a compiler run that fails unnoticed, files of earlier builds, process ends, two threads in one directory | Ok means that the target holds the sources |
| Packages of a world (`define_bindgen_packages`; lib.rs 181-356, 863-1013) | the registry | one call: three groups of packages | names converted in several ways, collisions | every interface has a package; the result can be sorted |
| Typed configuration (typed_config.rs) | the same registry, files of the stub | one call | looks up by name what other code defined | a configuration that is built is wired up |
| Script generator (get_script.rs) | the stub under construction | one call | line ends | the component returns the script |
| Compiler runs (`MoonC::run`, `run_wasmoo`; lib.rs 32-58, mod.rs) | a flag, V8's own state | one call | the flag is tested and set without a lock | no isolate before V8 is ready; panics only after a race |
| Natives (wasmoo_extern.rs) | the descriptor table of a run, files, working directory | one per system call | several runs, removed and renamed files, flags; natives of several system calls; one working directory | a write reaches the file its descriptor was opened on; an answer was true at some time of the call |
| String bridge (`write_string`, `encode_into`) | a buffer of fixed size | one call per string | a buffer that is full inside a character, surrogates | characters arrive once, in order, all of them |
| JavaScript glue (js_glue_for_wasmoo.js) | output channels | the runtime of wasm_of_ocaml | garbage collection | - |
| Build script (build.rs, update-bundle.sh) | `moonc.wasm` in OUT_DIR, `core`, `bundled-core`, what cargo recorded | download and unpack; renew the core library | interrupted and failing runs, what makes cargo run it again | the crate embeds a complete compiler of the pinned release |

Who may be concurrent with whom. Operations that change the registry take
`&mut self`, so they are never concurrent with a build of the same component.
`build` and `write_file` take `&self`, and `MoonBitComponent` can be shared
between threads, so they may be. Components in different threads share the
static `MOONC`, the working directory, and, with `existing`, possibly a
directory. The tests of the repository run with `--test-threads=1`, so nothing
in them is concurrent.

The complete list of hazards, each at its line and with the properties that
watch it, is in `PROJECT.json`. In short: compiler runs that fail unnoticed;
old and torn files that are taken for new ones; two threads that initialise V8;
edges of the build order; names converted in two ways; the end of a string
buffer; descriptors after close, rename and unlink; a directory shared by
components, or left by a process that ended; builds that overlap; a V8 poisoned
in the middle of a build; natives that resolve a path twice; a build script that
was interrupted or not run at all.

## 2. The plan

Modules in the order in which they were, or will be, written. The most
important question comes first: *when can an Ok of `build` be believed?*

| # | Modules | Question | State |
|---|---|---|---|
| 1 | `PackageGraph`, `BuildOrder`, `SortedPackages` | does the sort keep its promise? (refinement) | checked, proved |
| 2 | `Builder`, using `PackageGraph` | what does Ok mean, after edits, failures, process ends, with threads? | checked; one thread proved |
| 3 | `MoonC` | what does the race on the flag cost? | checked, safety proved |
| 4 | `WriteString` | what reaches the compiler of a string? | checked, safety proved |
| 5 | `FdTable` | do descriptors and files stay together? | checked, safety proved |
| 6 | `Bindings`, with the registry of `PackageGraph` | are the packages of any world buildable, is a configuration wired up? | checked, proved |
| 7 | `ComponentDir` | what does an open component find, what stays behind? | checked, safety proved |
| 8 | `BuildV8`: `Builder` composed with `MoonC` | what does a panic of V8 do to builds? (two refinements) | checked, proved |
| 9 | `SharedBuilds`: `Builder`, overlapping builds | when can Ok be believed if others build too? | checked, proved |
| 10 | `BuildScript` | what does the crate embed, after failures and interruptions? | checked, proved |
| 11 | `GetScript` | what does the component return of a text? | checked, proved |
| 12 | `PathNatives` | what do natives of several system calls promise, with others at the same tree and working directory? | checked, proved |
| 13 | `Utimes` | are times before 1970 and out of range kept in order? | checked, proved |
| 14 | the steps of `SortedPackages` on the packages of a world; `fchmod`, `read_dir` | | left |

Composition. `PackageGraph` holds what the registry is and what an order is,
and is used by every module about packages. `Builder` contains
`sorted_packages` as one step, `Sort`, which yields any order that
`IsBuildOrder` allows; `SortedPackages` is the same function step by step, and
`ImplementsBuildOrder` shows that the abbreviation is sound: what it returns is
an order in the sense of `IsBuildOrder`, and its two failures are those of
`SortFails`. `BuildV8` puts `Builder` and `MoonC` together: `RunStarts`,
`StartsV8` and `EndsRun` are a compiler run, `Unwinds` and `Reports` the two
ways in which `RunFails` happens, and `ImplementsBuilder` and `ImplementsMoonC`
show that each part behaves as when it was alone. `Builder`'s `Crash` is
explained by the native `exit`, and what it assumes of the directory at the
start is what `ComponentDir` says of it. `SharedBuilds` is `Builder` with a
history of what the overlapping calls were to build. `Generators` and `Natives`
put components side by side that share no state; each is a module of its own,
and the wrapper has the names under which the runs and the theorems know their
properties.

Abstract specifications: `BuildOrder` is the promise of `sorted_packages` in
one step; `Component(b)` in `Builder` is what `build` promises to put into the
target; `Builder` and `MoonC` are the abstract specifications of `BuildV8`.

## 3. The modules and the code

**PackageGraph** (lib.rs 60-67, 752-768, 950-957). A registry is a function
from package names to an output and a set of dependencies. A package
`root/a/b` is called `a/b`, as is the directory of its artefacts, because the
code derives a dependency's name from its `.mi` path when that lies in the build
directory (`FullDep`), and from the alias otherwise. `HasCycle` and `Succ` stand
for the `topologic` crate.

**SortedPackages** (lib.rs 747-786). One action per loop iteration: `DependOn`
and `DependOnCycle` for `graph.depend_on(..)?`, `NextLayer` for the topological
layers, `Push` and `PushUndefined` for the body of the layer loop (indexing the
map panics for an unknown package), `PushRest` for the last loop. A layer is a
`HashSet`: its nodes come in any order. The order in which edges are added is
that of a `BTreeMap` in the code and is left open in the model, which only adds
behaviours.

**BuildOrder**: what a caller relies on. `Ordered` returns an order of the whole
registry, `CycleError` and `Panic` report the two defects.

**Builder** (lib.rs 60-67, 385-430, 484-745, mod.rs 46-49). State: the registry,
the versions of the sources, and one variable for each thing `build` writes. A
file is a value, `NoFile`, or `Torn` while it is being written. The `.core` and
`.mi` files of a package are one artefact: the compiler writes both in one run.
Actions follow `build`: `Begin`, `Sort`/`SortFails`, then per package `Check`
(the files must exist; what the compiler reads, it reads now), `OpenOutput`,
`EmitOutput`, `Verify` (`abs.exists()`), then `StartLink` or `MainFails`,
`OpenModule`, `EmitModule`, `Embed`, `EmitEmbedded`, `Create`, `EmitTarget`.
`Swallow` is a compiler run that throws anywhere: `run_wasmoo` drops the result
of `code.run`, so `build` goes on. `RunFails` is an error that is reported, or a
panic. `Crash` ends the process at any point, with every file as it is; a new
process opens the directory with `existing` and an empty registry. What is
compiled is a pair of package and version of its sources: the properties ask
which sources a component was made of, not what code was generated.

**Bindings** (lib.rs 181-356, 433-482, 853-1013, typed_config.rs 20-303). A WIT
name is a word. Its snake and lower camel case are constants, of which only this
is assumed: two names with the same conversion have the same letters and digits,
so that names may become one when they differ in case or hyphens (heck folds
them). `to_moonbit_ident` escapes keywords. Paths are sequences of converted
names. The three loops of `define_bindgen_packages` are actions that define one
package each. `Process` adds the interface the typed configuration needs; it
fails (`ProcessFails`) when the package is not as documented, when it is itself a
WASI package, and when its text names an interface of another package, because
`push_str` resolves the text before the WASI packages are pushed (`Resolves`).
`Open` is `empty_from_wit`, `Fails` an error of the printer or of the files of a
component, `AddProvider` adds the dependency, `WriteStub` writes the file.

**ComponentDir** (lib.rs 60-178, 571-577). Components are created in, opened on
and dropped from directories; each file they write is opened (torn) and closed
(whole) in two steps; a constructor can fail at each of them (`Errs`), after
which an owned directory is removed, file by file. The removal gives up at the
first error (`GiveUp`), as `Utf8TempDir` does. `Crash` leaves everything as it
is.

**MoonC** (lib.rs 32-58, mod.rs 3-60). The load of the flag, the two
initialisation calls and the store are separate steps. V8's own state, with its
mutex that a panic poisons, is external.

**BuildV8** (lib.rs 36-54, 641, 691, mod.rs 43-50). `at[b]` is where the thread
of build `b` is in `MoonC::run`; `RunStarts` is the call, `StartsV8` one of
`MoonC`'s steps, and only in the script (`InScript`) do `Builder`'s steps of the
compiler happen. A panic inside V8 unwinds the build in the same step, since no
frame of `build` catches it. `doomed` remembers whether V8 was already poisoned
when a build began.

**SharedBuilds** (lib.rs 488-569, 672, 711). `met` is the set of plans (main
package and versions of the sources) of all calls since the directory was last
idle: what a build finds may have been written by one that has ended meanwhile.
`Joins` and `GoesOn` are `Builder`'s `Begin` and `BuildStep` with that history.

**BuildScript** (build.rs, update-bundle.sh, lib.rs 30). A file or directory is
the version of the release it came from. The script goes through the `archive`
it has downloaded entry by entry; a file is torn while it is unpacked; `Fail`
and `Interrupted` end it anywhere. `NeedsRun` is cargo's rule: the script runs
if build.rs has changed, or if no run of it has succeeded. `RemoveBundled` and
`CopyCore` are update-bundle.sh, which stops at no error.

**GetScript** (get_script.rs 7-41). A text is a sequence of line feeds, carriage
returns and other characters; `WriteLine` is one turn of the loop over
`script.lines()`, and `Joined` the meaning of MoonBit's multi-line literal, of
which `Value` is what `get_script` returns. The promise is for scripts whose
carriage returns all belong to a line end (`LineEndsOnly`): the loop writes each
line and an LF, so that any other CR at the end of a line would become part of a
line end of the MoonBit source.

**PathNatives** (wasmoo_extern.rs 155-251, 480-574, 1068-1263, 1343-1363,
2219-2241). Directories, files and permissions as a tree of nodes, and the
working directory of the process, which all runs share. A native of one system
call is one action, `rename` too, of files and of directories with all below
them. `mkdir` is two (`Create`, and `Permit` or `PermitThrows`), which resolve
the path separately; between them the directory has the mode `Fresh`; `is_file`
and `is_directory` are two lookups, `access` up to four, in the order of the
code (`Lookups`, `Look`). `access` opens the file to find out whether it may be
read or written, so it refuses to write any directory; for execution it looks at
the bits of everyone (`mode & 0o111`), so a mode has a bit `o`, of the group and
others, beside those of the process. `seen` records what was at the path of a
call at each moment of it, `moved` whether another run has meanwhile changed
where the path leads or what a directory on it permits.

**Utimes** (wasmoo_extern.rs 758-794, 984-1006). A time is a number of parts of
a microsecond; `Timeval` rounds, saturates and divides as the code does, with a
short second and a narrow i64.

**WriteString** (js_glue 157-170, wasmoo_extern.rs 2283-2378). A code unit is
one of five classes (one, two or three bytes of UTF-8, high or low surrogate);
a byte is represented by the place of its character. The loop of `encode_into`
takes one action per character, `Break` is the end of the buffer inside a
character, `Extract` and `Finish` are the two ends of the loop in `write_string`.

**FdTable** (wasmoo_extern.rs 253-479, 577-692, 1343-1363, 2185-2241). The table
of each run, links from paths to files, and, for every byte of a file, the run
and descriptor that wrote it. `open` is split into files that are there and
files that are not; `OpenOptions`, free inodes, positions and holes follow the
Unix build.

## 4. The runs

| Run | Instance | Shows |
|---|---|---|
| `sort` | every registry of up to 3 packages whose dependencies are chosen from a path to each and an alias, unknown packages and self-dependencies included | the invariant `IInv`, `PrefixRespectsDeps`, `NoPackageTwice`, the refinement `ImplementsBuildOrder`, `Terminates` |
| `builder` | one thread, a library and `gen` (with and without dependencies, a cycle, an alias, an output in another package's place), 2 versions of each source | `IInv`, `InterfacesFresh`, `FirstBuildFresh`, `RebuildFresh`, `BuildReturns` |
| `builder_stale` | as `builder` | `OkMeansBuilt` fails (section 6) |
| `build_v8` | two builds of a library and `gen`, one main package, one version | `IInvAll`, the refinements `ImplementsMoonC` and `ImplementsBuilder` with their fairness, `PanicsExplained`, `PoisonedForGood` |
| `builds_shared` | two threads, two packages that do not depend on each other, two main packages | `SharedFresh` |
| `generators` | all worlds of up to two imports and two exports out of seven interfaces: plain, of two words, differing only in case, a keyword, two versions of one, one without a name; some of the world's own package and some of others; all texts of up to five characters | `Sortable`, `NoneReplaced`, `ConfigWired`, `SimpleConfigBuilds`; `LinesKept` |
| `bindings_names` | the same worlds | `DocumentedConfigBuilds` fails (section 6) |
| `component_dir` | three components, one directory, four files | `IInv`, `OpenIsWhole`, `NoLeftovers`, `Settles` |
| `write_string` | all strings of up to 6 code units, a buffer of 4 bytes | `IInv`, `InOrder`, `WholeIfFits`, `AsciiWhole`, `Ends` |
| `write_string_loss` | the same | `NothingLost` fails (section 6) |
| `natives` | two runs. Descriptors: two paths, two files, 7 sets of flags, up to 2 descriptors per run. Paths: two names, paths `a` and `/b`, which are also `/a` and `/b/a` by way of the working directory, two modes, three nodes. Times: all pairs in halves of a microsecond from below an i64 of three bits to above, and NaN | `IInv`, `AddNeverReplaces`, `NeverReused`, `ByAuthor`; `LooksTrue`, `AccessTrue`, `MkdirWhole`; `TimesKept` |
| `build_script` | two releases, archives with their entries in several orders, one without a compiler, one without a core library | `MooncWhole`, `CoreMatchesMoonc` |

`natives` and `generators` check modules that share no state side by side:
a variable (`part`, `generator`) is chosen at the start and says of which module
the behaviour is, the others stand still. The states are those of the modules
checked one by one. `MoonC` has no run of its own: `build_v8` shows that the runs
builds make are behaviours of it, and its invariant is a part of `IInvAll`.

Why the bounds are enough. Three packages make every shape of a cycle, of a
layer with two nodes and of a package without edges. Two packages are what
`Builder` needs: an interface that may be old, and its reader; two versions are
an old and a new one; a third would only repeat the second. Six code units
through four bytes give three refills of the buffer and every character at every
distance from its end. Two descriptors per run and two files suffice to mix up
any two of them, and files of one byte to have an author; the theorems have none
of these bounds. Three components in a directory are an owner, one that is
opened on it and one that comes when either has gone; the model has one
directory, because components in different ones do not interact. `MaxVersion`,
`MaxFd` and `MaxSize` are the only bounds in guards; each is a constant of its
module. `natives` uses the symmetry of runs, paths and files, `builds_shared`
that of builds; neither has a liveness property. `natives` leaves out two kinds
of interleavings: of two runs only one looks at a time (`OneLooks`), and a run
that has an answer returns before others go on (`AtOnce`). Looking and returning
change nothing of the tree, and what is said of a run that looks is not about
the others; the theorems are about all interleavings. Two builds are a build and
a disturber: whatever more of them do, the files they share hold what one of
them wrote, and `SharedBuildsFresh` is proved for any number. Two names and
three nodes give `a` two meanings once a run changes into `/b`, which is all the
working directory can do, and let a directory be renamed into and out of the
way. Seconds of three microseconds have every remainder that a division can get
wrong.

Fairness. A call runs on its caller's thread, so each thread's steps are weakly
fair (`WF_vars(BuildStep(b))`, `WF_vars(RunStep(t))`, `WF_vars(CompStep(c))`,
`WF_vars(Step)`). That this includes the compiler's steps says that the
compiler terminates. Nobody is obliged to begin a call, to edit or to end the
process. `WriteString` is fair to its only thread. `BuildV8` is fair to the
composed step of each build (`FairnessAll`), from which TLC derives the fairness
of both parts. The other modules claim nothing that needs fairness.

Deadlock is checked everywhere. Models that come to an end (`SortedPackages`,
`Bindings`, `GetScript`, `WriteString`, `FdTable`) say so with an action that
stutters when the call is over.

## 5. The proofs

All proofs are checked by TLAPS. They hold for every value of the constants
that satisfies the module's assumptions; the assumptions say only that the
constants have the right types and that model values are distinct. Every safety
property of a run is stated by a theorem, but for the fairness in two
refinements.

- **SortedPackagesProofs.** `SortInvariant`: while the edges go in, the graph
  is what has been added so far and is acyclic; while layers are pushed, what is
  pushed is closed under dependencies and the rest of a layer depends only on
  what is pushed (`GraphInv`, `LayerInv`). `PrefixRespectsDeps` alone is not
  inductive: that the next node of a layer may be pushed follows only from
  `layer \subseteq Ready`. `LayersNeverStuck` shows that an acyclic graph always
  has a next layer, which is why the loop ends with all nodes pushed.
  `SortImplements` is the refinement: each step maps to a step of `BuildOrder`,
  or to none. It needs that a registry's graph is finite only through `HasCycle`.
- **BuilderProofs**, of `Builder`. `ShapeInvariant` holds for any number of
  threads: what a thread holds has the type of its place, its order is a build
  order of the registry. `FreshInvariant` is for one thread (`Build = {b}` for
  some `b`), and says of the disk what the code never checks: a build that began
  in a clean directory finds nothing there but what it made itself or a torn
  file; a build that lost no compiler run has renewed everything it has passed
  (`ArtefactInv`, `ModuleInv`). The two are different arguments, and each gives
  one theorem: `FirstBuild` (Ok can be believed in a fresh directory even when
  compiler runs fail unnoticed, because what is missing or torn cannot be
  linked) and `Rebuild` (in a used directory, Ok can be believed if no run
  failed unnoticed). `Interfaces` says that no package is compiled against an
  interface of an earlier build. All three are for registries in which packages
  write where their names say (`Conventional`), as `define_bindgen_packages`
  makes them, and for sources that are not edited during the build.
- **BuilderProofs**, of `MoonC`. `SafeIsolates` and `OnlyRacesPanic` for any
  number of threads, those of the builds. `QuietInv` is needed to know that
  without a race the one initialising thread finds V8 in the state it expects.
  `MoonCInvariant` is their common invariant, also over process ends.
- **BuilderProofs**, of `BuildV8`. `RunsBelongToBuilds`: the invariants of
  the two parts and what ties them together (`RunsOfBuilds`) are inductive as
  one, with the shape of a build (`Whole`). From it follow the two refinements,
  `RunsRefineMoonC` and `BuildsRefineBuilder` (initial states and steps; the
  fairness is TLC's), so every theorem about the parts holds of the whole, and
  `PanicsAreExplained` and `PoisonIsForGood`.
- **BuilderProofs**, of `SharedBuilds`. `SharedInvariant`: while all calls
  since the directory was last idle are to build the same, each file is what all
  of them would write, or torn (`SharedInv`); no step of any of them can make it
  anything else, however they overlap. `MetInv` is needed because an edit must not
  lead back to a plan met before. `SharedBuildsFresh` follows: a target is
  only reported when it is complete, and what is complete is what was asked.
- **GeneratorsProofs**, of `Bindings`. `BindingsSort`: the packages of any world
  can be sorted. The invariant (`LInv`) puts the packages on a ladder, `ffi`, then
  imports, then exports and the world, then `gen`, and says that every dependency
  goes down a rung and names a package that is there; converted names may collide,
  since a collision stays on its rung. A cycle would have to climb.
  `NothingReplaced` counts the packages as they are defined (`CountInv`): each
  path is new when no two interfaces have names of the same letters, because
  the conversions keep the letters of a name and drop its version, case and hyphens.
  `WiredUp` needs that a package found under the name the generator looks it up
  by is the one the stub is written to (`FoundIsStub`), although the two names are
  converted in different ways, and that gen depends on every exported package
  (`ExportedInv`, `StagesInv`). `SimpleBuilds` says when it is found at all:
  a documented package with no import of another package and with names that both
  conversions leave alone is not refused.
- **GeneratorsProofs**, of `GetScript`. `LinesAreKept` for any script whose CRs
  stand at line ends.
  `LinesKept` is not inductive: of a literal it does not say whether a line end is
  still owed. `IInv` does: after each line but the last, what has been read is the
  value of the literal and one LF; after the last line, exactly the value, which
  does not end with an LF. `Kept` is the lemma about one line: where no CR stands
  before an LF, a stretch of the script is its own Unix form.
- **ComponentDirProofs.** `ComponentDirInvariant`, `OpenWhole`, `NothingLeft` for
  any components, directories, bindings and core library. The argument is
  locality: a step touches one component and its directory (`Near`), and who is
  alone in another directory does not notice (`Bystanders`); so it is enough to
  look at the component that moves (`Local`). `OpenIsWhole` alone is not
  inductive: `PlaceInv` says which files each stage has ahead of it, `AloneInv`
  that all the others are complete.
- **WriteStringProofs.** `WriteInvariant`, `KeepsOrder`, `AsciiArrives` for all
  strings and all buffers of at least one byte. `WholeArrives` is about strings
  with surrogates: `WholeInv` says that no call begins, or goes on, between the
  two halves of a pair, and that `dst` is the UTF-8 size of what has been read, so
  that a string that fits is never left by `Break`. The size of a string is a
  recursive function of the place (`SizeSteps`, `SizeGrows`). `EveryStepCounts`
  gives a natural number that every step lowers (`Work`): with the fairness of
  `Step`, that is the argument for `Ends`, which itself is left to TLC.
- **NativesProofs**, of `FdTable`. `FdInvariant`, `AssertHolds`,
  `DescriptorsFresh`, `BytesByAuthor` for any runs, paths, files and bounds.
  Descriptors are natural numbers in the model; the `i32` of the code would
  overflow after 2^31 opens of one run.
- **NativesProofs**, of `PathNatives`. `LooksAreTrue`, `AccessIsTrue` and
  `MkdirIsWhole` for any number of runs, names, nodes, paths and modes. `IInv`
  ties a native that is under way to its history: what it has still to ask is an
  end of the list it began with (`Stage`), what it has passed was granted at a
  moment that `seen` holds (`Granted`), and the directory that a `mkdir` has made
  is still where its path leads, with the mode it was made with, unless `moved`
  says otherwise (`Made`). That a path leads to a node of the tree however
  directories are made, renamed and removed (`TreeOK`), and that it leads to the
  same one when only entries of files come and go or another run makes something
  new (`DirectoriesStay`), is by induction over the names of the path. What
  excuses a `mkdir` is only what others do to the working directory or to a
  directory; an error of its own second step is part of the promise.
- **NativesProofs**, of `Utimes`. `TimesAreKept` for every second, every width of
  an integer and every set of times: rounding and saturating are monotone, and
  the division leaves a remainder of the right sign.
- **BuildScriptProofs.** `MooncIsWhole` and `CoreIsMatching` for any releases and
  archives. `MooncIsWhole` needs that the script runs only after cargo has
  forgotten that it ran before. `CoreIsMatching` is about the working tree: after
  a run of the script that ends without `bundled-core` and whose archive had a core
  library, `core` is that of the release the compiler is of. Nothing in build.rs
  looks whether an archive has one. It does not speak of the crate, which embeds
  `bundled-core`: that comes from `core` by hand (`CopyCore`), may be torn, and may
  be older than the compiler.
- **Inductions.** Induction over the natural numbers, and the existence of a
  function defined by recursion on them, in terms of sets (`SetInduction`, `UpTo`,
  `RecursionExists`), since an operator cannot be a parameter of a lemma for
  these provers. The proofs about paths, sizes and texts rest on it.

Only model-checked: all liveness (`Terminates`, `BuildReturns`, `Ends`,
`Settles`, and the fairness in the refinements of `BuildV8`), which is beyond the
prover. `builds_shared` has no edits under way; `SharedBuildsFresh` covers them,
and any number of packages and builds.

## 6. Where code and documentation disagree

- **`builder_stale`.** The doc of `build` says "compiling all packages and
  linking them together into a final WASM component". `run_wasmoo` drops the
  result of `code.run`; `build_package` only looks whether its output exists and
  `link_core` does not look. After an edit, a compiler run that throws before it
  opens its output leaves the output of the earlier build, and `build` returns
  Ok with a component of old sources. `FirstBuildFresh` and `RebuildFresh` say
  exactly how far Ok can be trusted instead.
- **`bindings_names`.** The doc of `generate_typed_config_component` asks for a
  single world exporting a single interface. An interface of two words
  (`db-config`) is defined in lower camel case and looked up in snake case; a
  namespace or package name that is a keyword is defined with a suffix `_`
  and looked up without: `Package .. not found`.
- **`write_string_loss`.** `encode_into` counts a character as read before it
  knows that it fits. A string that is longer than the buffer and not ASCII can
  lose a character at each refill. `WholeIfFits` and `AsciiWhole` say when it
  cannot.

Others are seen in the models but are no runs, because they take no more than a
reading of the code, or because the doc can be read either way:

- The doc of `build` lets the caller name a main package. `build` takes `&self`,
  and calls with different main packages write the same `module.wasm`: one of
  them can return Ok with the other's. `SharedFresh` says what callers have to
  agree on.
- The README has `bundled-core` deleted and the crate rebuilt, which "will create
  a `core` directory". build.rs is run again only if it has changed itself
  (`NeedsRun`), so after a first successful build nothing is created. The step
  works when the version in build.rs is changed first, as in `CoreMatchesMoonc`.
- Interfaces of one package whose names differ only in case or hyphens (`foo` and
  `FOO`) become one package; the later definition replaces the earlier one, and no
  error is reported. So do two versions of an interface. `NoneReplaced` says of
  which names it cannot happen.
- `access` with X_OK returns for a file that only others may execute, also when
  the process may not.
- `mkdir` throws when the mode cannot be set, and leaves the directory.
- The README speaks of an arbitrary string. A line end at the end of the script
  is dropped and CR LF becomes LF; an empty script has no component at all.
  `LinesKept` says what is kept.
- The glue reads `atimeMs`, `mtimeMs` and `ctimeMs` of what `stat` returns, which
  sets `atime`, `mtime` and `ctime`, and it cuts inode numbers to 32 bits.

## 7. Assumptions, and what is not modelled

- Of the compiler: it terminates, truncates its output before it writes it,
  reports or throws when it reads a torn file, and cannot link torn or missing
  core files. Its output is determined by the package and its sources; `build`
  passes it the interfaces of dependencies, whose freshness is a property.
- Of the file system: an open with truncation and the write that follows are
  two steps, the latter atomic; a `.mi` file outside the build directory
  (`Outside`) is the caller's and is there.
- Of the callers: each call of `build` has a target path of its own.
- Of the system, in `PathNatives`: each system call is atomic, the process is not
  the superuser, owns the tree, and there are no symbolic links, `.` and `..`;
  an empty directory that is removed while it is the working directory stays, and
  nothing can be made in it.
- Of heck, in `Bindings`: its conversions keep the letters and digits of a name,
  up to case (`WordAssumption`). A WIT text has one package: nested ones are
  refused. All versions of the WASI packages the code comes with count as one.
- Of the umask, in `PathNatives`: it does not change (`Fresh`).
- Not covered in `GetScript`: a CR that is not before an LF. At the end of a line,
  it and the LF the generator writes are a CR LF in the MoonBit source; within a
  line it depends on MoonBit's lexer.
- Of MoonBit: an empty body is no String, so that a component for an empty
  script is not built.
- `topologic`, `rusty_v8`, `camino_tempfile` and `std::fs` are modelled by how
  the code uses them. Of the natives, the Unix build is modelled.
- Not modelled, since they only add arguments of the compiler or text: warning
  and alert controls, the text of the typed configuration's stub.
- Not modelled, since they keep no state and are one system call each: `stat`,
  `lstat`, `fstat`, `getcwd`, `read_dir`, `isatty`, `getenv`, `system`, the
  console. `fchmod` would need the descriptors of `FdTable` in the tree of
  `PathNatives`. The Windows build of the natives is left out throughout.
- Not modelled, since it is generated: the JavaScript runtime but for
  `write_string`. Its list of output channels depends on garbage collection.
- Theorems that every call returns are left to the runs, as is what a theorem of
  `BuildOrder` would say of the packages of a world, step by step.
