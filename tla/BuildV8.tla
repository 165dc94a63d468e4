--------------------------------- MODULE BuildV8 ---------------------------------
(* Builds and the compiler runs they make: Builder composed with MoonC.       *)
(*                                                                            *)
(* A build that is to compile or to link calls MOONC.run.  Its thread then    *)
(* goes through the start of V8, and only in the glue script does the         *)
(* compiler read and write files; a panic of V8 unwinds the build.            *)
EXTENDS Builder

VARIABLES initialized, state, poisoned, raced,   \* as in MoonC
          at,        \* at[b]: where b is in MoonC::run
          doomed     \* history: rusty_v8 was poisoned when b began

V8 == INSTANCE MoonC WITH Thread <- Build, pc <- at

v8 == <<initialized, state, poisoned, at, raced>>
allvars == <<vars, v8, doomed>>

InitAll == Init /\ V8!Init /\ doomed = [b \in Build |-> FALSE]

Edits == Edit /\ UNCHANGED <<v8, doomed>>

\* The statics of the process end with it.
ProcessEnds == Crash /\ V8!Restart /\ doomed' = [b \in Build |-> FALSE]

Begins(b) == /\ Begin(b)
             /\ doomed' = [doomed EXCEPT ![b] = poisoned]
             /\ UNCHANGED v8

\* Mutant of RunStarts: V8 is taken to be ready.
RunStartsReady(b) == /\ pc[b] \in {"compile", "link"}
                     /\ at[b] \in V8!Away
                     /\ at' = [at EXCEPT ![b] = "isolate"]
                     /\ UNCHANGED <<vars, initialized, state, poisoned, raced, doomed>>

\* MOONC.run(args)
RunStarts(b) == /\ pc[b] \in {"compile", "link"}
                /\ V8!Call(b)
                /\ UNCHANGED <<vars, doomed>>

\* Mutant of Unwinds: a panic is taken for the end of the run.
UnwindsToVerify(b) == /\ Goto(b, "verify")
                      /\ UNCHANGED <<registry, files, locals, history>>

\* No frame of build catches the panic.
Unwinds(b) == RunFails(b) /\ pc'[b] = "panic"

StartsV8(b) ==
  /\ \/ V8!LoadTrue(b) \/ V8!LoadFalse(b)
     \/ V8!InitializePlatform(b) \/ V8!Initialize(b) \/ V8!Store(b)
     \/ V8!NewIsolate(b)
  /\ IF at'[b] = "panicked" THEN Unwinds(b) ELSE UNCHANGED vars
  /\ UNCHANGED doomed

\* The script could not be compiled.
Reports(b) == RunFails(b) /\ pc'[b] = "err"

\* Mutant of EndsRun: the run of V8 is never left.
EndsRunNever(b) == /\ EmitOutput(b) \/ EmitModule(b) \/ Swallow(b) \/ Reports(b)
                   /\ UNCHANGED v8

\* However the run ends, MoonC::run returns.
EndsRun(b) == /\ EmitOutput(b) \/ EmitModule(b) \/ Swallow(b) \/ Reports(b)
              /\ V8!RunScript(b)

\* The compiler, run by the glue script.
InScript(b) == /\ at[b] = "script"
               /\ \/ OpenOutput(b) /\ UNCHANGED v8
                  \/ OpenModule(b) /\ UNCHANGED v8
                  \/ EndsRun(b)
               /\ UNCHANGED doomed

OutOfScript(b) ==
  /\ \/ Sort(b) \/ SortFails(b) \/ Check(b) \/ Verify(b) \/ StartLink(b) \/ MainFails(b)
     \/ Embed(b) \/ EmitEmbedded(b) \/ Create(b) \/ EmitTarget(b) \/ PackFails(b)
  /\ UNCHANGED <<v8, doomed>>

Step(b) == RunStarts(b) \/ StartsV8(b) \/ InScript(b) \/ OutOfScript(b)

NextAll == Edits \/ ProcessEnds \/ \E b \in Build : Begins(b) \/ Step(b)

\* As in the two components: a call runs on its caller's thread.
FairnessAll == \A b \in Build : WF_allvars(Step(b))

SpecAll == InitAll /\ [][NextAll]_allvars /\ FairnessAll

--------------------------------------------------------------------------------
\* A thread is in MoonC::run only while its build compiles or links, has opened
\* an output only from within a script, and a build that began after the poisoning
\* gets no further than the start of V8.
RunsOfBuilds ==
  \A b \in Build :
    /\ at[b] \notin V8!Away => pc[b] \in {"compile", "emit", "link", "linkEmit"}
    /\ pc[b] \in {"emit", "linkEmit"} => at[b] = "script"
    /\ doomed[b] /\ pc[b] \notin Resting =>
         /\ poisoned
         /\ pc[b] \in {"sort", "check", "compile", "link"}
         /\ at[b] # "script"

TypeOKAll == TypeOK /\ V8!TypeOK /\ doomed \in [Build -> BOOLEAN]

IInvAll == TypeOKAll /\ RunsOfBuilds /\ V8!IInv

\* The runs that builds make are runs of MoonC (lib.rs:36-54, 641, 691).
ImplementsMoonC == V8!Spec

\* Starting V8 within a build changes nothing that Builder promises (lib.rs:488-569).
ImplementsBuilder == Spec

\* A build panics only if a dependency is not a package, or if two threads have been
\* starting V8 at once in this process (lib.rs:46-53, 774).
PanicsExplained ==
  [][\A b \in Build : pc[b] # "panic" /\ pc'[b] = "panic" => ~Closed(packages) \/ raced]_allvars

\* Once rusty_v8 is poisoned nothing is built in this process: when every build
\* under way began after that, no build output changes and none returns Ok
\* (lib.rs:46-53, 641, 691).
PoisonedForGood ==
  [][(\A b \in Build : pc[b] \in Resting \/ doomed[b]) =>
        /\ UNCHANGED <<artefact, module, embedded>>
        /\ \A b \in Build : pc[b] # "ok" => pc'[b] # "ok"]_allvars
================================================================================
