-------------------------------- MODULE MCNatives --------------------------------
(* The natives of wasmoo_extern.rs: descriptors, paths, and the times of      *)
(* utimes.  The three share no state, so that checking their interleavings    *)
(* would show nothing more: each behaviour is of one of them, and the run     *)
(* sees as many states as three runs would.                                   *)
EXTENDS Natives, TLC

CONSTANTS a, b,   \* the names of directory entries
          nan     \* the f64 that is no time

VARIABLE part     \* the natives this behaviour is of

pathvars == <<kind, child, mode, cwd, call, seen, moved>>
timevars == <<asked, file, throws>>

\* What open_in and open_out ask for, appending, a new file only, and calls
\* that are refused, by the native and by OpenOptions.
Flag(how, set) == [mode |-> how, append |-> "append" \in set, trunc |-> "trunc" \in set,
                   creat |-> "creat" \in set, excl |-> "excl" \in set]

MCAsked == {Flag("rdonly", {}), Flag("wronly", {"creat", "trunc"}), Flag("rdwr", {}),
            Flag("rdonly", {"append"}), Flag("wronly", {"creat", "excl"}),
            Flag("none", {"append"}), Flag("rdonly", {"creat"})}

\* The paths a and /b, and /b/a by way of the working directory; modes that let
\* only others execute, or the owner not read; what access is asked for.
MCName == {a, b}
MCPlace == Node \cup {Root}
MCCalled == {[abs |-> FALSE, names |-> <<a>>], [abs |-> TRUE, names |-> <<b>>]}
MCModes == {{"r", "o"}, {"w", "x"}}
MCFresh == {"r", "w", "x"}
MCChecks == {{"r", "w", "x"}}

\* Three microseconds to the second, halves of one, an i64 of three bits.
MCFinite == -10..10
MCOdd == {nan}

InitAll == /\ part \in {"descriptors", "paths", "times"}
           /\ Init /\ Paths!Init /\ Times!Init

\* Runs need not look at the same time, nor keep an answer while others go on:
\* looking and returning change nothing, and what is said of a run that looks or
\* has looked is not about the others.
Looks(r) == call[r].op \notin {"none", "mkdir"}
OneLooks == \A r, s \in Run : Looks(r) /\ Looks(s) => r = s
AtOnce == (\E r \in Run : call[r].out # "none") => \E r \in Run : Paths!Return(r)

NextAll == /\ UNCHANGED part
           /\ \/ part = "descriptors" /\ Next /\ UNCHANGED <<pathvars, timevars>>
              \/ part = "paths" /\ Paths!Next /\ OneLooks' /\ AtOnce /\ UNCHANGED <<vars, timevars>>
              \/ part = "times" /\ Times!Next /\ UNCHANGED <<vars, pathvars>>

SpecAll == InitAll /\ [][NextAll]_<<part, vars, pathvars, timevars>>

\* Runs, paths and files are interchangeable.
Symmetry == Permutations(Run) \cup Permutations(Path) \cup Permutations(Node)
================================================================================
