------------------------------- MODULE ComponentDir -------------------------------
(* The directory of a MoonBitComponent (src/lib.rs): empty_from_wit, which    *)
(* fills a temporary one, existing, which opens one that is there, and what   *)
(* is left of them when the component is dropped or the process ends.         *)
(*                                                                            *)
(* Several components may be in one directory: `existing` takes any path, the *)
(* temporary directory of a live component included.  A file is torn from the *)
(* moment it is opened (and truncated) until it is complete.                  *)
EXTENDS Naturals, FiniteSets

CONSTANTS Handle,    \* the MoonBitComponents there can be at a time
          Path,      \* the directories
          Wit,       \* wit/package.wit
          Binding,   \* the files wit_bindgen_moonbit generates
          Core,      \* the files of the bundled core library
          None       \* no file, no directory

File == {Wit} \cup Binding \cup Core

ASSUME FilesApart == /\ Wit \notin Binding \cup Core
                     /\ Binding \cap Core = {}
                     /\ None \notin File \cup Path

VARIABLES there,     \* the directories that exist
          content,   \* content[p][f]: file f in p is "no", "torn" or "whole"
          comp,      \* comp[c]: component c
          finished,  \* history: directories with all that empty_from_wit makes
          excused    \* history: directories somebody else may be glad to find

vars == <<there, content, comp, finished, excused>>

\* Where a component is; its directory; temp: whether it owns the directory;
\* keep: disable_cleanup was called; the files it has still to write; the one it
\* is writing; alone (history): no other component has been in its directory.
Nobody == [pc |-> "none", dir |-> None, temp |-> FALSE, keep |-> FALSE,
           todo |-> {}, writing |-> None, alone |-> FALSE]

\* A directory of the user's: nothing in it, a WIT package, or all it takes.
UserDir == {[f \in File |-> "no"],
            [f \in File |-> IF f = Wit THEN "whole" ELSE "no"],
            [f \in File |-> IF f \in Core THEN "no" ELSE "whole"]}

Generated(p) == \A f \in {Wit} \cup Binding : content[p][f] = "whole"

Init == /\ there \in SUBSET Path
        /\ content \in [Path -> UserDir]
        /\ \A p \in Path \ there : \A f \in File : content[p][f] = "no"
        /\ comp = [c \in Handle |-> Nobody]
        /\ finished = {p \in Path : Generated(p)}
        /\ excused = there

\* The components in p.
In(p) == {c \in Handle : comp[c].dir = p}

Goto(c, l) == comp' = [comp EXCEPT ![c].pc = l]

\* Component c begins its life in p; nobody there is alone then.
Enter(c, p, l, temporary, files) ==
  comp' = [d \in Handle |->
             IF d = c THEN [Nobody EXCEPT !.pc = l, !.dir = p, !.temp = temporary,
                                          !.todo = files, !.alone = In(p) = {}]
             ELSE IF d \in In(p) THEN [comp[d] EXCEPT !.alone = FALSE]
             ELSE comp[d]]

Leave(c) == comp' = [comp EXCEPT ![c] = Nobody]

\* The removal of a temporary directory begins: todo is what it finds there.
Remove(c) == comp' = [comp EXCEPT ![c].pc = "drop", ![c].writing = None,
                                  ![c].todo = {f \in File : content[comp[c].dir][f] # "no"}]

\* An error: the temporary directory goes with the component.
Fail(c) == IF comp[c].temp THEN Remove(c) ELSE Leave(c)

--------------------------------------------------------------------------------
(* empty_from_wit and existing.                                               *)

\* Utf8TempDir::new makes a directory that was not there.
EmptyFromWit(c, p) ==
  /\ comp[c].pc = "none"
  /\ p \notin there
  /\ there' = there \cup {p}
  /\ Enter(c, p, "wit", TRUE, {Wit})
  /\ finished' = finished \ {p}
  /\ UNCHANGED <<content, excused>>

\* Mutant of Existing: a core library that is there is not extracted again.
ExistingTrustsCore(c, p) ==
  /\ comp[c].pc = "none"
  /\ there' = there \cup {p}
  /\ Enter(c, p, "core", FALSE, {f \in Core : content[p][f] = "no"})
  /\ excused' = excused \cup {p}
  /\ UNCHANGED <<content, finished>>

\* existing begins with extract_core, which creates the directory if it has to.
Existing(c, p) == /\ comp[c].pc = "none"
                  /\ there' = there \cup {p}
                  /\ Enter(c, p, "core", FALSE, Core)
                  /\ excused' = excused \cup {p}
                  /\ UNCHANGED <<content, finished>>

Writing == {"wit", "bindings", "core"}

\* std::fs::write, after the creation of the file's directory.
OpenFile(c, f) ==
  /\ comp[c].pc \in Writing
  /\ comp[c].writing = None
  /\ f \in comp[c].todo
  /\ there' = there \cup {comp[c].dir}
  /\ content' = [content EXCEPT ![comp[c].dir][f] = "torn"]
  /\ comp' = [comp EXCEPT ![c].todo = @ \ {f}, ![c].writing = f]
  /\ UNCHANGED <<finished, excused>>

\* The file is complete, unless it has been removed, or another component has
\* truncated it in the meantime.
CloseFile(c) ==
  /\ comp[c].writing # None
  /\ comp[c].pc \in Writing
  /\ LET p == comp[c].dir
         f == comp[c].writing
     IN  IF content[p][f] = "no" THEN UNCHANGED content
         ELSE \E how \in {"torn", "whole"} :
                /\ how = "torn" => \E d \in In(p) \ {c} : comp[d].writing = f
                /\ content' = [content EXCEPT ![p][f] = how]
  /\ comp' = [comp EXCEPT ![c].writing = None]
  /\ UNCHANGED <<there, finished, excused>>

Written(c, l) == comp[c].pc = l /\ comp[c].todo = {} /\ comp[c].writing = None

WitWritten(c) == /\ Written(c, "wit")
                 /\ Goto(c, "resolve")
                 /\ UNCHANGED <<there, content, finished, excused>>

\* Resolving the package and selecting the world; empty_from_wit generates the
\* bindings then.  What is left of a torn WIT file may be valid, too.
Resolve(c) ==
  /\ comp[c].pc = "resolve"
  /\ content[comp[c].dir][Wit] # "no"
  /\ comp' = IF comp[c].temp THEN [comp EXCEPT ![c].pc = "bindings", ![c].todo = Binding]
                             ELSE [comp EXCEPT ![c].pc = "open"]
  /\ UNCHANGED <<there, content, finished, excused>>

\* Mutant of BindingsWritten: the core library is left for later.
BindingsAreEnough(c) == /\ Written(c, "bindings")
                        /\ comp' = [comp EXCEPT ![c].pc = "core"]
                        /\ UNCHANGED <<there, content, finished, excused>>

BindingsWritten(c) == /\ Written(c, "bindings")
                      /\ comp' = [comp EXCEPT ![c].pc = "core", ![c].todo = Core]
                      /\ UNCHANGED <<there, content, finished, excused>>

CoreWritten(c) ==
  /\ Written(c, "core")
  /\ Goto(c, IF comp[c].temp THEN "open" ELSE "resolve")
  /\ finished' = IF comp[c].temp /\ comp[c].alone THEN finished \cup {comp[c].dir} ELSE finished
  /\ UNCHANGED <<there, content, excused>>

\* Mutant of Errs: the temporary directory is let go of.
ErrsAndForgets(c) == /\ comp[c].pc \in Writing \cup {"resolve"}
                     /\ Leave(c)
                     /\ UNCHANGED <<there, content, finished, excused>>

\* Mutant of Errs: a write that fails is tried again.
ErrsAndRetries(c) ==
  /\ comp[c].pc \in Writing \cup {"resolve"}
  /\ IF comp[c].writing = None THEN Fail(c)
     ELSE comp' = [comp EXCEPT ![c].todo = @ \cup {comp[c].writing}, ![c].writing = None]
  /\ UNCHANGED <<there, content, finished, excused>>

\* Any of these steps can fail, a write also half-way.
Errs(c) == /\ comp[c].pc \in Writing \cup {"resolve"}
           /\ Fail(c)
           /\ UNCHANGED <<there, content, finished, excused>>

--------------------------------------------------------------------------------
(* The end of a component.                                                    *)

DisableCleanup(c) ==
  /\ comp[c].pc = "open"
  /\ comp[c].temp
  /\ comp' = [comp EXCEPT ![c].keep = TRUE]
  /\ excused' = excused \cup {comp[c].dir}
  /\ UNCHANGED <<there, content, finished>>

Drop(c) == /\ comp[c].pc = "open"
           /\ IF comp[c].temp /\ ~comp[c].keep
              THEN Remove(c) /\ finished' = finished \ {comp[c].dir}
              ELSE Leave(c) /\ UNCHANGED finished
           /\ UNCHANGED <<there, content, excused>>

\* Utf8TempDir removes what it found, file by file, then the directory, which
\* must be empty.
RemoveFile(c, f) ==
  /\ comp[c].pc = "drop"
  /\ f \in comp[c].todo
  /\ content' = [content EXCEPT ![comp[c].dir][f] = "no"]
  /\ comp' = [comp EXCEPT ![c].todo = @ \ {f}]
  /\ UNCHANGED <<there, finished, excused>>

RemoveDir(c) == /\ comp[c].pc = "drop"
                /\ comp[c].todo = {}
                /\ \A f \in File : content[comp[c].dir][f] = "no"
                /\ there' = there \ {comp[c].dir}
                /\ Leave(c)
                /\ UNCHANGED <<content, finished, excused>>

\* It gives up at the first error, and nobody is told.
GiveUp(c) == /\ comp[c].pc = "drop"
             /\ excused' = excused \cup {comp[c].dir}
             /\ Leave(c)
             /\ UNCHANGED <<there, content, finished>>

\* The process is killed, or the compiler it runs exits: nothing is dropped.
Crash == /\ comp' = [c \in Handle |-> Nobody]
         /\ excused' = there
         /\ UNCHANGED <<there, content, finished>>

--------------------------------------------------------------------------------
CompStep(c) == \/ \E f \in File : OpenFile(c, f) \/ RemoveFile(c, f)
               \/ CloseFile(c)
               \/ WitWritten(c) \/ Resolve(c) \/ BindingsWritten(c) \/ CoreWritten(c) \/ Errs(c)
               \/ RemoveDir(c) \/ GiveUp(c)

Next == \/ \E c \in Handle : \/ \E p \in Path : EmptyFromWit(c, p) \/ Existing(c, p)
                             \/ CompStep(c)
                             \/ DisableCleanup(c) \/ Drop(c)
        \/ Crash

\* Constructors and drops run on their caller's thread.
Fairness == \A c \in Handle : WF_vars(CompStep(c))

Spec == Init /\ [][Next]_vars /\ Fairness

--------------------------------------------------------------------------------
Component == [pc : Writing \cup {"none", "resolve", "open", "drop"}, dir : Path \cup {None},
              temp : BOOLEAN, keep : BOOLEAN, todo : SUBSET File,
              writing : File \cup {None}, alone : BOOLEAN]

TypeOK == /\ there \subseteq Path
          /\ content \in [Path -> [File -> {"no", "torn", "whole"}]]
          /\ comp \in [Handle -> Component]
          /\ finished \subseteq Path
          /\ excused \subseteq Path

\* A component that is open can be built, as long as no other component has
\* been in its directory: the directory is there, the core library is complete,
\* whatever a crash or a failure had left of it, and so are the WIT package and
\* the bindings, if this component or an earlier one had got to their end
\* (lib.rs:73-178, 571-577).
OpenIsWhole ==
  \A c \in Handle : comp[c].pc = "open" /\ comp[c].alone =>
     LET p == comp[c].dir
     IN  /\ p \in there
         /\ \A f \in Core : content[p][f] = "whole"
         /\ comp[c].temp \/ p \in finished => Generated(p)

\* A temporary directory outlives its component only where disable_cleanup, the
\* end of the process, a removal that failed or `existing` explain it: never
\* after an error of empty_from_wit (lib.rs:73-148).
NoLeftovers ==
  \A p \in there \ excused : \E c \in Handle : comp[c].dir = p /\ comp[c].temp

\* Constructors return, and drops end (lib.rs:73-178).
Settles == \A c \in Handle : comp[c].pc \notin {"none", "open"} ~> comp[c].pc \in {"none", "open"}

--------------------------------------------------------------------------------
(* The inductive invariant.                                                   *)

PlaceInv(c) ==
  /\ comp[c].pc = "none" <=> comp[c].dir = None
  /\ comp[c].pc = "none" => comp[c] = Nobody
  /\ comp[c].pc \in {"wit", "bindings", "drop"} => comp[c].temp
  /\ comp[c].pc = "wit" => comp[c].todo \cup {comp[c].writing} \subseteq {Wit, None}
  /\ comp[c].pc = "bindings" => comp[c].todo \cup {comp[c].writing} \subseteq Binding \cup {None}
  /\ comp[c].pc = "core" => comp[c].todo \cup {comp[c].writing} \subseteq Core \cup {None}
  /\ comp[c].pc \in {"resolve", "open"} => comp[c].todo = {} /\ comp[c].writing = None
  /\ comp[c].keep \/ ~comp[c].temp => comp[c].dir \in excused \cup {None}
  /\ comp[c].temp /\ comp[c].dir \in finished => comp[c].pc = "open"

\* The files fs are complete, but for those c has still to write.
Done(c, fs) == \A f \in fs \ (comp[c].todo \cup {comp[c].writing}) :
                  content[comp[c].dir][f] = "whole"

\* Alone in its directory, a component finds every file as it has left it.
AloneInv(c) ==
  comp[c].alone /\ comp[c].pc \in Writing \cup {"resolve", "open"} =>
    /\ In(comp[c].dir) = {c}
    /\ comp[c].dir \in there
    /\ comp[c].writing # None => content[comp[c].dir][comp[c].writing] # "no"
    /\ comp[c].temp =>
         /\ Done(c, {Wit})
         /\ comp[c].pc \in {"bindings", "core", "open"} => Done(c, Binding)
    /\ comp[c].pc \in {"core", "open"} \/ ~comp[c].temp => Done(c, Core)

DirInv == /\ \A p \in Path \ there : \A f \in File : content[p][f] = "no"
          /\ \A p \in finished : Generated(p)

IInv == /\ TypeOK
        /\ \A c \in Handle : PlaceInv(c) /\ AloneInv(c)
        /\ DirInv
        /\ NoLeftovers
================================================================================
