--------------------------------- MODULE FdTable ---------------------------------
(* The file natives a compiler run calls (src/moonc_wasm/wasmoo_extern.rs):   *)
(* `FdTable`, which each run has to itself, and the files below it, which the *)
(* runs of a process share.                                                   *)
(*                                                                            *)
(* What a file holds is, byte by byte, the run and the descriptor that wrote  *)
(* it.  What std::fs and the system underneath do with an open file follows   *)
(* the Unix build.  Natives that only look at a file (stat, fstat, file_size, *)
(* access, fsync and the like) change nothing here; any of the others may     *)
(* also fail without having changed anything.                                 *)
EXTENDS Naturals, Sequences

CONSTANTS Run,        \* the runs of the compiler, one V8 context each
          Path,       \* the paths they name
          Node,       \* the files (inodes) there can be at a time
          Asked,      \* the flags open is called with
          MaxFd,      \* bound: the largest descriptor a run is given
          MaxSize,    \* bound: the largest file
          None,       \* no file at a path
          Zero        \* a byte nobody wrote

FirstFd == 3               \* FdTable::new; 0, 1 and 2 are the standard streams
Std == {1, 2}              \* STDOUT, STDERR

\* The flags of an open call.  "none" is any access mode but the three.
Flags == [mode : {"rdonly", "wronly", "rdwr", "none"},
          append : BOOLEAN, trunc : BOOLEAN, creat : BOOLEAN, excl : BOOLEAN]

ASSUME FdTableAssumption == /\ Asked \subseteq Flags
                            /\ MaxFd \in Nat
                            /\ MaxSize \in Nat
                            /\ None \notin Node
                            /\ Zero \notin Run \X Nat

VARIABLES stage,    \* stage[r]: "ready", "running" or "over"
          map,      \* map[r]: the FdTable of r, descriptors to open files
          next_fd,  \* next_fd[r]
          link,     \* link[p]: the file at path p, or None
          data,     \* data[n]: the bytes of file n
          given     \* history: the descriptors open has returned

vars == <<stage, map, next_fd, link, data, given>>
files == <<link, data>>

Init == /\ stage = [r \in Run |-> "ready"]
        /\ map = [r \in Run |-> << >>]
        /\ next_fd = [r \in Run |-> FirstFd]
        /\ link = [p \in Path |-> None]
        /\ data = [n \in Node |-> << >>]
        /\ given = {}

--------------------------------------------------------------------------------
(* std::fs::OpenOptions, and files.                                           *)

Reads(f) == f.mode \in {"rdonly", "rdwr"}
Writes(f) == f.mode \in {"wronly", "rdwr"}

\* Combinations OpenOptions refuses.
Refused(f) == \/ ~Writes(f) /\ ~f.append /\ (f.trunc \/ f.creat)
              \/ f.append /\ f.trunc /\ ~(f.creat /\ f.excl)

\* Mutant of Opened: reading and writing are swapped.
OpenedSwapped(n, f) == [node |-> n, read |-> Writes(f), write |-> Reads(f) \/ f.append,
                        append |-> f.append, pos |-> 0]

\* An open file: O_APPEND alone makes it writable.
Opened(n, f) == [node |-> n, read |-> Reads(f), write |-> Writes(f) \/ f.append,
                 append |-> f.append, pos |-> 0]

\* A file is free once no path and no descriptor leads to it.
Free(n) == /\ \A p \in Path : link[p] # n
           /\ \A r \in Run : \A fd \in DOMAIN map[r] : map[r][fd].node # n

\* The bytes d after k bytes b have been written at pos.
Put(d, pos, k, b) ==
  [i \in 1..(IF pos + k > Len(d) THEN pos + k ELSE Len(d)) |->
     IF i > pos /\ i <= pos + k THEN b ELSE IF i <= Len(d) THEN d[i] ELSE Zero]

Resized(d, size) == [i \in 1..size |-> IF i <= Len(d) THEN d[i] ELSE Zero]

--------------------------------------------------------------------------------
(* The natives.                                                               *)

\* run_wasmoo: context.set_slot(FdTable::new())
Start(r) == /\ stage[r] = "ready"
            /\ stage' = [stage EXCEPT ![r] = "running"]
            /\ map' = [map EXCEPT ![r] = << >>]
            /\ next_fd' = [next_fd EXCEPT ![r] = FirstFd]
            /\ UNCHANGED <<files, given>>

\* The context is dropped, its table with it, and that closes the files.
Stop(r) == /\ stage[r] = "running"
           /\ stage' = [stage EXCEPT ![r] = "over"]
           /\ map' = [map EXCEPT ![r] = << >>]
           /\ UNCHANGED <<next_fd, files, given>>

\* Mutant of Add: next_fd stays.
AddSame(r, file, f) ==
  /\ map' = [map EXCEPT ![r] = [fd \in DOMAIN @ \cup {next_fd[r]} |->
                                  IF fd = next_fd[r] THEN file ELSE @[fd]]]
  /\ given' = given \cup {[run |-> r, fd |-> next_fd[r], node |-> file.node,
                           writes |-> Writes(f) \/ f.append]}
  /\ UNCHANGED next_fd

\* FdTable::add
Add(r, file, f) ==
  /\ map' = [map EXCEPT ![r] = [fd \in DOMAIN @ \cup {next_fd[r]} |->
                                  IF fd = next_fd[r] THEN file ELSE @[fd]]]
  /\ next_fd' = [next_fd EXCEPT ![r] = @ + 1]
  /\ given' = given \cup {[run |-> r, fd |-> next_fd[r], node |-> file.node,
                           writes |-> Writes(f) \/ f.append]}

\* open, of a file that is there.
OpenExisting(r, p, f) ==
  /\ f.mode # "none" /\ ~Refused(f)
  /\ link[p] # None
  /\ ~(f.creat /\ f.excl)
  /\ next_fd[r] <= MaxFd
  /\ data' = [data EXCEPT ![link[p]] = IF f.trunc THEN << >> ELSE @]
  /\ Add(r, Opened(link[p], f), f)
  /\ UNCHANGED <<stage, link>>

\* open, of one that is not.
OpenNew(r, p, f) ==
  /\ f.mode # "none" /\ ~Refused(f)
  /\ link[p] = None
  /\ f.creat
  /\ next_fd[r] <= MaxFd
  /\ \E n \in Node : /\ Free(n)
                     /\ link' = [link EXCEPT ![p] = n]
                     /\ data' = [data EXCEPT ![n] = << >>]
                     /\ Add(r, Opened(n, f), f)
  /\ UNCHANGED stage

\* Mutant of Close: the number is given back.
CloseGivesBack(r, fd) == /\ fd \in DOMAIN map[r]
                         /\ map' = [map EXCEPT ![r] = [g \in DOMAIN @ \ {fd} |-> @[g]]]
                         /\ next_fd' = [next_fd EXCEPT ![r] = fd]
                         /\ UNCHANGED <<stage, files, given>>

\* close removes the entry; the sync_all after that may throw, to no effect.
Close(r, fd) == /\ fd \in DOMAIN map[r]
                /\ map' = [map EXCEPT ![r] = [g \in DOMAIN @ \ {fd} |-> @[g]]]
                /\ UNCHANGED <<stage, next_fd, files, given>>

\* Mutant of Write: what the file was opened for is not looked at.
WriteUnchecked(r, fd, k) ==
  /\ fd \notin Std
  /\ fd \in DOMAIN map[r]
  /\ LET file == map[r][fd]
         pos == IF file.append THEN Len(data[file.node]) ELSE file.pos
     IN  /\ pos + k <= MaxSize
         /\ data' = [data EXCEPT ![file.node] = Put(@, pos, k, <<r, fd>>)]
         /\ map' = [map EXCEPT ![r][fd].pos = pos + k]
  /\ UNCHANGED <<stage, next_fd, link, given>>

\* write: some of the bytes, at least one.  STDOUT and STDERR are not looked up.
Write(r, fd, k) ==
  /\ fd \notin Std
  /\ fd \in DOMAIN map[r]
  /\ map[r][fd].write
  /\ LET file == map[r][fd]
         pos == IF file.append THEN Len(data[file.node]) ELSE file.pos
     IN  /\ pos + k <= MaxSize
         /\ data' = [data EXCEPT ![file.node] = Put(@, pos, k, <<r, fd>>)]
         /\ map' = [map EXCEPT ![r][fd].pos = pos + k]
  /\ UNCHANGED <<stage, next_fd, link, given>>

\* read: some of the bytes, none at the end of the file.  STDIN is not a
\* special case, and no table ever has it: reading it throws.
Read(r, fd, k) ==
  /\ fd \in DOMAIN map[r]
  /\ map[r][fd].read
  /\ map[r][fd].pos + k <= Len(data[map[r][fd].node])
  /\ map' = [map EXCEPT ![r][fd].pos = @ + k]
  /\ UNCHANGED <<stage, next_fd, files, given>>

Ftruncate(r, fd, size) ==
  /\ fd \in DOMAIN map[r]
  /\ map[r][fd].write
  /\ data' = [data EXCEPT ![map[r][fd].node] = Resized(@, size)]
  /\ UNCHANGED <<stage, map, next_fd, link, given>>

Truncate(p, size) == /\ link[p] # None
                     /\ data' = [data EXCEPT ![link[p]] = Resized(@, size)]
                     /\ UNCHANGED <<stage, map, next_fd, link, given>>

Unlink(p) == /\ link[p] # None
             /\ link' = [link EXCEPT ![p] = None]
             /\ UNCHANGED <<stage, map, next_fd, data, given>>

Rename(p, q) == /\ link[p] # None
                /\ p # q
                /\ link' = [link EXCEPT ![q] = link[p], ![p] = None]
                /\ UNCHANGED <<stage, map, next_fd, data, given>>

FdCall(r) == \E fd \in 0..MaxFd, k \in 1..MaxSize :
                Close(r, fd) \/ Write(r, fd, k) \/ Read(r, fd, k) \/ Ftruncate(r, fd, k - 1)

PathCall(r) == \E p \in Path : \/ \E f \in Asked : OpenExisting(r, p, f) \/ OpenNew(r, p, f)
                               \/ \E k \in 0..MaxSize : Truncate(p, k)
                               \/ Unlink(p)
                               \/ \E q \in Path : Rename(p, q)

Native(r) == stage[r] = "running" /\ (FdCall(r) \/ PathCall(r))

Over == (\A r \in Run : stage[r] = "over") /\ UNCHANGED vars

Next == (\E r \in Run : Start(r) \/ Stop(r) \/ Native(r)) \/ Over

Spec == Init /\ [][Next]_vars

--------------------------------------------------------------------------------
OpenFile == [node : Node, read : BOOLEAN, write : BOOLEAN, append : BOOLEAN, pos : Nat]

Byte == (Run \X Nat) \cup {Zero}

TypeOK == /\ stage \in [Run -> {"ready", "running", "over"}]
          /\ DOMAIN map = Run
          /\ \A r \in Run : /\ DOMAIN map[r] \subseteq Nat
                            /\ map[r] \in [DOMAIN map[r] -> OpenFile]
          /\ next_fd \in [Run -> Nat]
          /\ link \in [Path -> Node \cup {None}]
          /\ data \in [Node -> Seq(Byte)]
          /\ given \subseteq [run : Run, fd : Nat, node : Node, writes : BOOLEAN]

\* The assert of FdTable::add holds: an insertion never replaces an open file
\* (wasmoo_extern.rs:303).
AddNeverReplaces == \A r \in Run : next_fd[r] \notin DOMAIN map[r]

\* Within a run a descriptor names one file for good: after a close, a call
\* with the old number cannot reach a file opened later, as it could with the
\* lowest free number of a Unix process (wasmoo_extern.rs:300-306, 322-324).
NeverReused ==
  /\ \A g, h \in given : g.run = h.run /\ g.fd = h.fd => g = h
  /\ \A r \in Run : \A fd \in DOMAIN map[r] :
       \E g \in given : g.run = r /\ g.fd = fd /\ g.node = map[r][fd].node

\* Every byte of a file was written through a descriptor that was returned for
\* that very file, by an open that asked to write: never by another run with
\* the same number, never by a reader, never in place of a standard stream
\* (wasmoo_extern.rs:365-392, 577-648).
ByAuthor ==
  \A n \in Node : \A i \in DOMAIN data[n] :
     data[n][i] # Zero =>
        \E g \in given : g.writes /\ g.node = n /\ data[n][i] = <<g.run, g.fd>>

\* The descriptors handed out so far are those from FirstFd to next_fd, each
\* for the file it is open on, and to write if the file is open to write.
TableInv == /\ \A g \in given : g.fd >= FirstFd /\ g.fd < next_fd[g.run]
            /\ \A r \in Run : next_fd[r] >= FirstFd
            /\ \A r \in Run : stage[r] = "ready" => \A g \in given : g.run # r
            /\ \A r \in Run : \A fd \in DOMAIN map[r] :
                 \E g \in given : /\ g.run = r
                                  /\ g.fd = fd
                                  /\ g.node = map[r][fd].node
                                  /\ map[r][fd].write => g.writes

IInv == TypeOK /\ TableInv /\ NeverReused /\ ByAuthor
================================================================================
