------------------------------- MODULE PathNatives -------------------------------
(* The natives of src/moonc_wasm/wasmoo_extern.rs that take a path and work   *)
(* on directories and permissions: mkdir, rmdir, rename, chdir, chmod,        *)
(* access, is_file, is_directory, file_exists.  Runs of one process (builds   *)
(* on several threads) share the tree and the working directory.              *)
(*                                                                            *)
(* Several of them are more than one system call, each of which resolves the  *)
(* path again: what the other runs do in between decides what the later calls *)
(* find.  The tree and the system calls follow the Unix build; the process is *)
(* an ordinary user who owns every file, and there are no symbolic links (the *)
(* natives that would make one are commented out).                            *)
EXTENDS Naturals, SequencesExt

CONSTANTS Run,     \* the runs of the compiler
          Name,    \* the names a directory entry can have
          Node,    \* the files and directories there can be at a time
          Root,    \* the root directory
          Asked,   \* the paths natives are called with
          Modes,   \* the modes mkdir and chmod are called with
          Fresh,   \* the mode of a new directory, 0o777 under the umask
          Checks,  \* the sets of permissions access is called with
          None     \* no node

\* The owner's, that is the process's, bits of a mode; and "o" if the group or
\* others may execute.
Bits == {"r", "w", "x", "o"}
Paths == [abs : BOOLEAN, names : Seq(Name)]

\* What the constants have to be.
PathNativesAssumption == /\ Root \in Node
                         /\ None \notin Node
                         /\ Modes \subseteq SUBSET Bits /\ Fresh \subseteq Bits
                         /\ Checks \subseteq (SUBSET {"f", "r", "w", "x"}) \ {{}}
                         /\ \A p \in Asked : p \in Paths /\ p.names # << >>

VARIABLES kind,    \* kind[n]: "dir" or "file"
          child,   \* child[n][x]: the node directory n has under x, or None
          mode,    \* mode[n]: the permissions of node n
          cwd,     \* the working directory of the process
          call,    \* call[r]: the native r is in, with the system calls left
          seen,    \* history: what was at the path of that call, at each moment
          moved    \* history: another run changed where that path leads

vars == <<kind, child, mode, cwd, call, seen, moved>>
tree == <<kind, child, mode, cwd>>

Idle == [op |-> "none", path |-> None, mode |-> {}, left |-> << >>, out |-> "none",
         made |-> None]

Init == /\ kind = [n \in Node |-> "dir"]
        /\ child = [n \in Node |-> [x \in Name |-> None]]
        /\ mode = [n \in Node |-> Bits]
        /\ cwd = Root
        /\ call = [r \in Run |-> Idle]
        /\ seen = [r \in Run |-> {}]
        /\ moved = [r \in Run |-> FALSE]

--------------------------------------------------------------------------------
(* Paths and the tree (std::fs over the system).                              *)

Linked(n) == n = Root \/ \E m \in Node, x \in Name : child[m][x] = n

\* One name further, if n is a directory that may be searched.
Enter(n, x) == IF n # None /\ kind[n] = "dir" /\ "x" \in mode[n]
               THEN child[n][x] ELSE None

Start(p) == IF p.abs THEN Root ELSE cwd

\* Where the first names of a path lead.
Walk(p) == LET walk[i \in 0..Len(p.names)] ==
                 IF i = 0 THEN Start(p) ELSE Enter(walk[i - 1], p.names[i])
           IN  walk
At(p) == Walk(p)[Len(p.names)]
Parent(p) == Walk(p)[Len(p.names) - 1]

\* A directory an entry may be made in or removed from.
Open(n) == n # None /\ kind[n] = "dir" /\ {"w", "x"} \subseteq mode[n] /\ Linked(n)

Facts(p) == IF At(p) = None THEN [kind |-> "none", mode |-> {}]
            ELSE [kind |-> kind[At(p)], mode |-> mode[At(p)]]

\* Whoever is looking has seen what the step finds at its path.
Looking(r) == call[r].left # << >> /\ call[r].op # "mkdir"
Witness == seen' = [r \in Run |-> IF Looking(r) THEN seen[r] \cup {Facts(call[r].path)}
                                  ELSE seen[r]]

Free(n) == ~Linked(n) /\ n # cwd
Full == \A n \in Node : ~Free(n)

\* A new node n at path p.
Put(n, p, k, bits) ==
  /\ Open(Parent(p)) /\ At(p) = None
  /\ Free(n)
  /\ kind' = [kind EXCEPT ![n] = k]
  /\ child' = [child EXCEPT ![Parent(p)][Last(p.names)] = n]
  /\ mode' = [mode EXCEPT ![n] = bits]
  /\ UNCHANGED cwd

\* The entry at p, with what is known of its node.
Drop(p) == /\ child' = [child EXCEPT ![Parent(p)][Last(p.names)] = None]
           /\ kind' = [kind EXCEPT ![At(p)] = "dir"]
           /\ mode' = [mode EXCEPT ![At(p)] = Bits]
           /\ UNCHANGED cwd

\* Run r changed where the paths in `hit` lead.
Moves(r, hit(_)) ==
  moved' = [s \in Run |-> moved[s] \/ (s # r /\ call[s].left # << >> /\ hit(call[s].path))]

--------------------------------------------------------------------------------
(* Natives that are one system call.  One that throws changes nothing.        *)

Calling(r) == call[r].left # << >>
OneStep(r) == call[r] = Idle /\ UNCHANGED call /\ Witness

\* rmdir: fs::remove_dir, also of the working directory.
Rmdir(r, p) ==
  /\ OneStep(r)
  /\ Open(Parent(p)) /\ At(p) \notin {None, Root} /\ kind[At(p)] = "dir"
  /\ \A x \in Name : child[At(p)][x] = None
  /\ Drop(p)
  /\ Moves(r, LAMBDA q : TRUE)

\* unlink: fs::remove_file
Unlink(r, p) ==
  /\ OneStep(r)
  /\ Open(Parent(p)) /\ At(p) # None /\ kind[At(p)] = "file"
  /\ Drop(p)
  /\ UNCHANGED moved

\* Directory n and all below it.
Below(n) == {m \in Node : \A S \in SUBSET Node :
               n \in S /\ (\A k \in S : Range(child[k]) \subseteq S \cup {None}) => m \in S}

\* rename: fs::rename, of a file over a file, of a directory over an empty one or
\* to a path nothing is at, but not to below itself.
Rename(r, p, q) ==
  LET n == At(p)
      over == At(q)
  IN  /\ OneStep(r)
      /\ Open(Parent(p)) /\ Open(Parent(q))
      /\ n \notin {None, Root, over} /\ over # Root
      /\ kind[n] = "dir" => Parent(q) \notin Below(n)
      /\ over # None => kind[over] = kind[n] /\ \A x \in Name : child[over][x] = None
      /\ child' = [child EXCEPT ![Parent(p)][Last(p.names)] = None,
                                ![Parent(q)][Last(q.names)] = n]
      /\ kind' = IF over = None THEN kind ELSE [kind EXCEPT ![over] = "dir"]
      /\ mode' = IF over = None THEN mode ELSE [mode EXCEPT ![over] = Bits]
      /\ UNCHANGED cwd
      /\ IF kind[n] = "dir" THEN Moves(r, LAMBDA o : TRUE) ELSE UNCHANGED moved

\* open with O_CREAT, of a path nothing is at; the descriptor is not modelled here.
Creat(r, p, bits) ==
  /\ OneStep(r)
  /\ \E n \in Node : Put(n, p, "file", bits)
  /\ UNCHANGED moved

\* chdir: std::env::set_current_dir, for every run of the process.
Chdir(r, p) ==
  /\ OneStep(r)
  /\ At(p) # None /\ kind[At(p)] = "dir" /\ "x" \in mode[At(p)]
  /\ cwd' = At(p)
  /\ Moves(r, LAMBDA q : ~q.abs)
  /\ UNCHANGED <<kind, child, mode>>

\* chmod: fs::set_permissions
Chmod(r, p, bits) ==
  /\ OneStep(r)
  /\ At(p) # None
  /\ mode' = [mode EXCEPT ![At(p)] = bits]
  /\ Moves(r, LAMBDA q : kind[At(p)] = "dir")
  /\ UNCHANGED <<kind, child, cwd>>

--------------------------------------------------------------------------------
(* Natives that are several.                                                  *)

\* The lookups of a native, in their order.
If(b, bits) == IF b \in bits THEN <<b>> ELSE << >>
Lookups(op, bits) ==
  CASE op = "file_exists" -> <<"f">>
    [] op = "is_file" -> <<"f", "file">>
    [] op = "is_directory" -> <<"f", "dir">>
    [] op = "access" -> If("f", bits) \o If("r", bits) \o If("w", bits) \o If("x", bits)
    [] op = "mkdir" -> <<"create", "permit">>

Begin(r, op, p, bits) ==
  /\ call[r] = Idle
  /\ call' = [call EXCEPT ![r] = [op |-> op, path |-> p, mode |-> bits, made |-> None,
                                  left |-> Lookups(op, bits), out |-> "none"]]
  /\ Witness /\ UNCHANGED <<tree, moved>>

\* The compiler has the answer, or the exception, and goes on.
Return(r) ==
  /\ call[r].out # "none"
  /\ call' = [call EXCEPT ![r] = Idle]
  /\ seen' = [seen EXCEPT ![r] = {}]
  /\ moved' = [moved EXCEPT ![r] = FALSE]
  /\ UNCHANGED tree

\* Mutants of Finds: is_file is "not a directory"; access asks metadata, never
\* the open that a file without the permission refuses.
FindsNoDir(b, n) ==
  CASE b = "file" -> n = None \/ kind[n] # "dir"
    [] b = "dir" -> n # None /\ kind[n] = "dir"
    [] b = "f" -> n # None
    [] b = "w" -> n # None /\ kind[n] = "file" /\ "w" \in mode[n]
    [] OTHER -> n # None /\ b \in mode[n]

FindsAny(b, n) ==
  CASE b = "file" -> n # None /\ kind[n] = "file"
    [] b = "dir" -> n # None /\ kind[n] = "dir"
    [] OTHER -> n # None

\* What a lookup asks of the node it finds: Path::exists, is_file, is_dir;
\* metadata, File::open, OpenOptions::write (which a directory refuses), and for
\* "x" an execute bit of anyone, the process or not.
Finds(b, n) ==
  CASE b = "file" -> n # None /\ kind[n] = "file"
    [] b = "dir" -> n # None /\ kind[n] = "dir"
    [] b = "f" -> n # None
    [] b = "r" -> n # None /\ "r" \in mode[n]
    [] b = "w" -> n # None /\ kind[n] = "file" /\ "w" \in mode[n]
    [] b = "x" -> n # None /\ {"x", "o"} \cap mode[n] # {}

Fails(op) == IF op = "access" THEN "throw" ELSE "no"
Ends(op) == IF op = "access" THEN "ok" ELSE "yes"

\* The next lookup of is_file, is_directory, file_exists or access.
Look(r) ==
  LET c == call[r]
      found == Finds(Head(c.left), At(c.path))
  IN  /\ Looking(r)
      /\ call' = [call EXCEPT
                    ![r].left = IF found THEN Tail(@) ELSE << >>,
                    ![r].out = IF ~found THEN Fails(c.op)
                               ELSE IF Len(c.left) = 1 THEN Ends(c.op) ELSE @]
      /\ Witness /\ UNCHANGED <<tree, moved>>

\* mkdir: fs::create_dir, with every permission the umask leaves ...
Create(r) ==
  /\ Calling(r) /\ Head(call[r].left) = "create"
  /\ \E n \in Node : /\ Put(n, call[r].path, "dir", Fresh)
                     /\ call' = [call EXCEPT ![r].left = Tail(@), ![r].made = n]
  /\ Witness /\ UNCHANGED moved

\* Mutant of CreateThrows: create_dir_all, for which a directory may be there.
CreateAll(r) ==
  /\ Calling(r) /\ Head(call[r].left) = "create"
  /\ ~Open(Parent(call[r].path)) \/ At(call[r].path) # None \/ Full
  /\ call' = IF Facts(call[r].path).kind = "dir" THEN [call EXCEPT ![r].left = Tail(@)]
             ELSE [call EXCEPT ![r].left = << >>, ![r].out = "throw"]
  /\ Witness /\ UNCHANGED <<tree, moved>>

\* ... or its error, and the native throws.
CreateThrows(r) ==
  /\ Calling(r) /\ Head(call[r].left) = "create"
  /\ ~Open(Parent(call[r].path)) \/ At(call[r].path) # None \/ Full
  /\ call' = [call EXCEPT ![r].left = << >>, ![r].out = "throw"]
  /\ Witness /\ UNCHANGED <<tree, moved>>

\* mkdir: fs::set_permissions, of whatever is at the path by now ...
Permit(r) ==
  LET n == At(call[r].path)
  IN  /\ Calling(r) /\ Head(call[r].left) = "permit"
      /\ n # None
      /\ mode' = [mode EXCEPT ![n] = call[r].mode]
      /\ call' = [call EXCEPT ![r].left = << >>, ![r].out = "ok"]
      /\ Witness /\ UNCHANGED <<kind, child, cwd>>
      /\ IF kind[n] = "dir" THEN Moves(r, LAMBDA q : TRUE) ELSE UNCHANGED moved

\* ... or its error, because nothing is there or for any other reason, and the
\* native throws.
PermitThrows(r) ==
  /\ Calling(r) /\ Head(call[r].left) = "permit"
  /\ call' = [call EXCEPT ![r].left = << >>, ![r].out = "throw"]
  /\ Witness /\ UNCHANGED <<tree, moved>>

Next == \E r \in Run :
          \/ \E p \in Asked :
               \/ Rmdir(r, p) \/ Unlink(r, p) \/ Chdir(r, p)
               \/ \E q \in Asked : Rename(r, p, q)
               \/ \E bits \in Modes : \/ Creat(r, p, bits) \/ Chmod(r, p, bits)
                                      \/ Begin(r, "mkdir", p, bits)
               \/ \E op \in {"file_exists", "is_file", "is_directory"} : Begin(r, op, p, {})
               \/ \E bits \in Checks : Begin(r, "access", p, bits)
          \/ Look(r) \/ Return(r)
          \/ Create(r) \/ CreateThrows(r) \/ Permit(r) \/ PermitThrows(r)

Spec == Init /\ [][Next]_vars

--------------------------------------------------------------------------------
(* Properties.                                                                *)

\* is_file, is_directory and file_exists look twice, yet what they answer was
\* so at one moment of the call: whatever came and went at the path, "yes" is
\* never said of a path that was not of that kind at any time, nor "no" of one
\* that always was (wasmoo_extern.rs:156-204).
Wanted(op) == CASE op = "is_file" -> {"file"} [] op = "is_directory" -> {"dir"}
                [] op = "file_exists" -> {"file", "dir"}

LookTrue(r) ==
  LET c == call[r] IN
  /\ c.out = "yes" => \E s \in seen[r] : s.kind \in Wanted(c.op)
  /\ c.out = "no" => \E s \in seen[r] : s.kind \notin Wanted(c.op)

LooksTrue == \A r \in Run : LookTrue(r)

\* What has been seen of a path shows b: something is there; its owner may read or
\* write it; anyone may execute it.
Had(b, s) == s.kind # "none" /\ CASE b = "f" -> TRUE
                                  [] b = "x" -> {"x", "o"} \cap s.mode # {}
                                  [] OTHER -> b \in s.mode

\* access: if it returns, what was asked for was there, each at a moment of the call
\* (not all at one); if it throws, some of it was missing at a moment, or write was
\* asked of a directory.  For read and write that is the permission of the process;
\* for execute it is no more than that someone may: access returns also for what the
\* process itself may not execute or search (wasmoo_extern.rs:487-571, 536-537).
AnswerTrue(r) ==
  LET c == call[r] IN
  /\ c.op = "access" /\ c.out = "ok" => \A b \in c.mode : \E s \in seen[r] : Had(b, s)
  /\ c.op = "access" /\ c.out = "throw" =>
       \/ \E b \in c.mode, s \in seen[r] : ~Had(b, s)
       \/ "w" \in c.mode /\ \E s \in seen[r] : s.kind = "dir"

AccessTrue == \A r \in Run : AnswerTrue(r)

\* mkdir creates the directory and sets its mode in two steps.  Unless another run
\* changes the working directory, or removes, renames or changes the mode of a
\* directory in between: a call that returns has given the mode asked to the
\* directory it made, and to no other; one that throws has changed nothing, or, if
\* it was the mode that could not be set, leaves the new directory at its path with
\* the mode it was made with (wasmoo_extern.rs:1186-1221).
Whole(r) ==
  LET c == call[r] IN
  c.op = "mkdir" /\ Calling(r) /\ call'[r].out # "none" /\ ~moved[r] =>
    \/ /\ call'[r].out = "ok" /\ c.made # None
       /\ mode' = [mode EXCEPT ![c.made] = c.mode] /\ UNCHANGED <<kind, child, cwd>>
    \/ /\ call'[r].out = "throw" /\ UNCHANGED tree
       /\ \/ c.made = None
          \/ At(c.path) = c.made /\ kind[c.made] = "dir" /\ mode[c.made] = Fresh

MkdirWhole == [][\A r \in Run : Whole(r)]_vars

--------------------------------------------------------------------------------
(* The inductive invariant.                                                   *)

Fact == [kind : {"dir", "file", "none"}, mode : SUBSET Bits]

Lookup == {"f", "r", "w", "x", "file", "dir", "create", "permit"}

Call == [op : {"none", "file_exists", "is_file", "is_directory", "access", "mkdir"},
         path : Asked \cup {None}, mode : SUBSET (Bits \cup {"f"}),
         left : Seq(Lookup), out : {"none", "yes", "no", "ok", "throw"},
         made : Node \cup {None}]

TreeOK ==
  /\ kind \in [Node -> {"dir", "file"}]
  /\ child \in [Node -> [Name -> Node \cup {None}]]
  /\ mode \in [Node -> SUBSET Bits]
  /\ cwd \in Node

TypeOK ==
  /\ TreeOK
  /\ call \in [Run -> Call]
  /\ seen \in [Run -> SUBSET Fact]
  /\ moved \in [Run -> BOOLEAN]

\* The lookups a call may have left, and that it ends with the last of them.
Stage(r) ==
  LET c == call[r] IN
  /\ c.op = "none" => c = Idle
  /\ c.op # "none" => c.path \in Asked /\ (c.left = << >> <=> c.out # "none")
  /\ c.op = "file_exists" => c.left \in {<<"f">>, << >>} /\ c.out \in {"none", "yes", "no"}
  /\ c.op = "is_file" => c.left \in {<<"f", "file">>, <<"file">>, << >>} /\ c.out \in {"none", "yes", "no"}
  /\ c.op = "is_directory" => c.left \in {<<"f", "dir">>, <<"dir">>, << >>} /\ c.out \in {"none", "yes", "no"}
  /\ c.op = "access" => /\ ToSet(c.left) \subseteq c.mode /\ c.mode \subseteq {"f", "r", "w", "x"}
                        /\ c.out \in {"none", "ok", "throw"}
  /\ c.op = "mkdir" => /\ c.left \in {<<"create", "permit">>, <<"permit">>, << >>}
                       /\ c.mode \subseteq Bits
                       /\ c.out \in {"none", "ok", "throw"}
                       /\ c.left = <<"create", "permit">> => c.made = None

\* What access has not yet asked for is still to come.
Granted(r) ==
  LET c == call[r] IN
  c.op = "access" /\ c.out # "throw" =>
    \A b \in c.mode : b \in ToSet(c.left) \/ \E s \in seen[r] : Had(b, s)

\* The directory an undisturbed mkdir has made is still at its path.
Made(r) ==
  LET c == call[r] IN
  c.op = "mkdir" /\ c.left = <<"permit">> =>
    /\ c.made \in Node
    /\ ~moved[r] => At(c.path) = c.made /\ kind[c.made] = "dir" /\ mode[c.made] = Fresh

IInv == /\ TypeOK
        /\ \A r \in Run : Stage(r) /\ Granted(r) /\ Made(r)
        /\ LooksTrue
        /\ AccessTrue
================================================================================
