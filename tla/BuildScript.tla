------------------------------- MODULE BuildScript -------------------------------
(* The build script of the crate (build.rs) under cargo, and the procedure by *)
(* which the core library is renewed (README.md, update-bundle.sh).           *)
(*                                                                            *)
(* One developer, at one terminal: edits build.rs, deletes or renews          *)
(* bundled-core, calls cargo, and interrupts it.  A file or directory holds   *)
(* the version of the release it was made from.                               *)
EXTENDS Naturals, Sequences

CONSTANTS MaxVersion,   \* bound: the releases there are
          Archives,     \* the entries of a release archive, in orders it may have
          NoFile, Torn  \* nothing there; not completely written

ASSUME ArchivesAssumption == Archives \subseteq Seq({"wasm", "core", "other"})

Version == 1..MaxVersion

VARIABLES pinned,     \* the version in ARCHIVE_URL
          recorded,   \* cargo: the version whose script has last run to its end, or NoFile
          moonc,      \* OUT_DIR/moonc.wasm
          core,       \* the directory core
          bundled,    \* the directory bundled-core
          crate,      \* what the last compiled crate embeds: [moonc, bundled], or NoFile
          pc,         \* "idle", or where cargo or the script is
          archive,    \* the archive the script has downloaded
          todo,       \* its entries not yet seen
          found       \* entry_found

dirs == <<core, bundled>>
script == <<archive, todo, found>>
vars == <<pinned, recorded, moonc, dirs, crate, pc, script>>

\* A fresh clone: bundled-core is in the repository, core is a submodule, whose
\* directory may be empty.
Init == /\ pinned = 1
        /\ recorded = NoFile
        /\ moonc = NoFile
        /\ core \in {NoFile, 1}
        /\ bundled = 1
        /\ crate = NoFile
        /\ pc = "idle"
        /\ archive = << >>
        /\ todo = << >>
        /\ found = FALSE

--------------------------------------------------------------------------------
(* The developer.                                                             *)

Bump == /\ pc = "idle"
        /\ pinned < MaxVersion
        /\ pinned' = pinned + 1
        /\ UNCHANGED <<recorded, moonc, dirs, crate, pc, script>>

DeleteBundled == /\ pc = "idle"
                 /\ bundled' = NoFile
                 /\ UNCHANGED <<pinned, recorded, moonc, core, crate, pc, script>>

\* update-bundle.sh stops at no error: without core it leaves no bundled-core.
RemoveBundled == /\ pc = "idle"
                 /\ bundled' = NoFile
                 /\ pc' = "copy"
                 /\ UNCHANGED <<pinned, recorded, moonc, core, crate, script>>

CopyCore == /\ pc = "copy"
            /\ bundled' \in {core, Torn}
            /\ pc' = "idle"
            /\ UNCHANGED <<pinned, recorded, moonc, core, crate, script>>

\* Killed, or interrupted: cargo records nothing of the script.
Interrupted == /\ pc # "idle"
               /\ pc' = "idle"
               /\ archive' = << >>
               /\ todo' = << >>
               /\ found' = FALSE
               /\ UNCHANGED <<pinned, recorded, moonc, dirs, crate>>

--------------------------------------------------------------------------------
(* cargo build.                                                               *)

\* cargo:rerun-if-changed=build.rs, or no run of this build.rs has succeeded.
NeedsRun == recorded # pinned

CargoBuild == /\ pc = "idle"
              /\ pc' = IF NeedsRun THEN "download" ELSE "rustc"
              /\ recorded' = IF NeedsRun THEN NoFile ELSE recorded
              /\ UNCHANGED <<pinned, moonc, dirs, crate, script>>

\* The crate embeds moonc.wasm (include_bytes!) and bundled-core (include_dir!).
Rustc == /\ pc = "rustc"
         /\ pc' = "idle"
         /\ crate' = IF NoFile \in {moonc, bundled} THEN crate
                     ELSE [moonc |-> moonc, bundled |-> bundled]
         /\ UNCHANGED <<pinned, recorded, moonc, dirs, script>>

--------------------------------------------------------------------------------
(* The script.                                                                *)

Download == /\ pc = "download"
            /\ pc' = "entry"
            /\ archive' \in Archives
            /\ todo' = archive'
            /\ found' = FALSE
            /\ UNCHANGED <<pinned, recorded, moonc, dirs, crate>>

Seen == /\ pc' = "entry"
        /\ todo' = Tail(todo)
        /\ UNCHANGED archive

\* Not the file looked for, or no use for it.
PassEntry == /\ pc = "entry"
             /\ todo # << >>
             /\ \/ Head(todo) = "wasm" /\ found
                \/ Head(todo) = "core" /\ bundled # NoFile
                \/ Head(todo) = "other"
             /\ Seen
             /\ UNCHANGED <<pinned, recorded, moonc, dirs, crate, found>>

OpenMoonc == /\ pc = "entry"
             /\ todo # << >>
             /\ Head(todo) = "wasm" /\ ~found
             /\ moonc' = Torn
             /\ pc' = "unpackMoonc"
             /\ UNCHANGED <<pinned, recorded, dirs, crate, script>>

\* Mutant of UnpackMoonc: the loop does not wait for the end of the file.
UnpackMooncLater == /\ pc = "unpackMoonc"
                    /\ Seen
                    /\ found' = TRUE
                    /\ UNCHANGED <<pinned, recorded, moonc, dirs, crate>>

UnpackMoonc == /\ pc = "unpackMoonc"
               /\ moonc' = pinned
               /\ Seen
               /\ found' = TRUE
               /\ UNCHANGED <<pinned, recorded, dirs, crate>>

\* Mutant of RemoveCore: a directory that is there is left alone.
RemoveCoreUnlessThere ==
  /\ pc = "entry"
  /\ todo # << >>
  /\ Head(todo) = "core" /\ bundled = NoFile
  /\ IF core = NoFile THEN core' = Torn /\ pc' = "unpackCore" /\ UNCHANGED <<archive, todo>>
                      ELSE UNCHANGED core /\ Seen
  /\ UNCHANGED <<pinned, recorded, moonc, bundled, crate, found>>

\* if core_dir.exists() { remove_dir_all(core_dir) }: file by file.
RemoveCore == /\ pc = "entry"
              /\ todo # << >>
              /\ Head(todo) = "core" /\ bundled = NoFile
              /\ core' = Torn
              /\ pc' = "unpackCore"
              /\ UNCHANGED <<pinned, recorded, moonc, bundled, crate, script>>

UnpackCore == /\ pc = "unpackCore"
              /\ core' = pinned
              /\ Seen
              /\ UNCHANGED <<pinned, recorded, moonc, bundled, crate, found>>

\* The script ends; cargo records it and goes on to the crate.
Succeed == /\ pc = "entry"
           /\ todo = << >> /\ found
           /\ recorded' = pinned
           /\ pc' = "rustc"
           /\ UNCHANGED <<pinned, moonc, dirs, crate, script>>

\* An error of the network, of the archive or of a file (?), or no .wasm (bail!).
Fail == /\ pc \in {"download", "entry", "unpackMoonc", "unpackCore"}
        /\ pc' = "idle"
        /\ archive' = << >>
        /\ todo' = << >>
        /\ found' = FALSE
        /\ UNCHANGED <<pinned, recorded, moonc, dirs, crate>>

ScriptStep == \/ Download \/ PassEntry \/ OpenMoonc \/ UnpackMoonc
              \/ RemoveCore \/ UnpackCore \/ Succeed \/ Fail

Next == \/ Bump \/ DeleteBundled \/ RemoveBundled \/ CopyCore \/ Interrupted
        \/ CargoBuild \/ Rustc \/ ScriptStep

Spec == Init /\ [][Next]_vars

--------------------------------------------------------------------------------
\* However often the script failed or was interrupted, and wherever it was: what cargo
\* takes for done has left a complete moonc.wasm of the version it names, and
\* each crate embeds the one that was pinned (build.rs:16-23, 54-65, 103-109).
MooncWhole ==
  /\ recorded # NoFile => moonc = recorded
  /\ pc = "rustc" => recorded = pinned
  /\ pc \in {"entry", "unpackCore"} /\ found => moonc = pinned

Holds(a, entry) == \E i \in DOMAIN a : a[i] = entry

\* Once bundled-core has been deleted, a script that runs to its end has left a complete
\* core of the version of moonc.wasm, whatever an earlier run or the submodule left
\* there (build.rs:75-99) - if there is a core library in the archive, which the
\* script, unlike moonc.wasm, does not insist on.  This is of the directory core
\* only: the crate embeds bundled-core, which the developer makes of it.
CoreMatchesMoonc ==
  [][pc = "entry" /\ pc' = "rustc" /\ bundled = NoFile /\ Holds(archive, "core")
       => core = moonc]_vars

--------------------------------------------------------------------------------
(* The inductive invariant.                                                   *)

Running == pc \in {"download", "entry", "unpackMoonc", "unpackCore"}

\* The script runs only once cargo has forgotten that it ran before; and while it runs,
\* the core library of the archive is still to come or has been unpacked.
IInv ==
  /\ MooncWhole
  /\ Running => recorded = NoFile
  /\ todo \in Seq({"wasm", "core", "other"})
  /\ pc \in {"unpackMoonc", "unpackCore"} => todo # << >>
  /\ pc = "unpackMoonc" => Head(todo) = "wasm"
  /\ Running /\ pc # "download" /\ bundled = NoFile /\ Holds(archive, "core") =>
       Holds(todo, "core") \/ core = pinned
================================================================================
