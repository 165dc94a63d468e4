------------------------------ MODULE NativesProofs ------------------------------
(* The natives, for any number of runs, names and files, any flags, paths,    *)
(* modes and times, and whatever the bounds are.                              *)
(*                                                                            *)
(* Descriptors of a run are never reused, and files hold only what was        *)
(* written through the right ones.  utimes keeps times and their order.  What *)
(* a native on a path answers was so at a moment of the call, and an          *)
(* undisturbed mkdir does what was asked or nothing.                          *)
EXTENDS Natives, Inductions

--------------------------------------------------------------------------------
(* Descriptors and files (FdTable).                                           *)

USE FdTableAssumption

\* Bytes of a file after a write are the old ones, the new ones, or holes.
LEMMA PutBytes ==
  ASSUME NEW d \in Seq(Byte), NEW pos \in Nat, NEW k \in Nat, NEW b \in Byte
  PROVE  /\ Put(d, pos, k, b) \in Seq(Byte)
         /\ \A i \in DOMAIN Put(d, pos, k, b) :
              \/ Put(d, pos, k, b)[i] \in {b, Zero}
              \/ i \in DOMAIN d /\ Put(d, pos, k, b)[i] = d[i]
<1> DEFINE m == IF pos + k > Len(d) THEN pos + k ELSE Len(d)
<1>1. m \in Nat /\ Zero \in Byte /\ DOMAIN d = 1..Len(d) /\ \A i \in 1..Len(d) : d[i] \in Byte
  BY DEF Byte
<1>2. \A i \in 1..m : \/ Put(d, pos, k, b)[i] \in {b, Zero}
                      \/ i \in DOMAIN d /\ Put(d, pos, k, b)[i] = d[i]
  BY <1>1 DEF Put
<1>3. Put(d, pos, k, b) = [i \in 1..m |-> Put(d, pos, k, b)[i]]
  BY DEF Put
<1>4. \A i \in 1..m : Put(d, pos, k, b)[i] \in Byte
  BY <1>1, <1>2
<1>5. Put(d, pos, k, b) \in Seq(Byte) /\ DOMAIN Put(d, pos, k, b) = 1..m
  <2> HIDE DEF m
  <2> QED
    BY <1>1, <1>3, <1>4
<1> QED
  BY <1>2, <1>5

LEMMA ResizedBytes ==
  ASSUME NEW d \in Seq(Byte), NEW size \in Nat
  PROVE  /\ Resized(d, size) \in Seq(Byte)
         /\ \A i \in DOMAIN Resized(d, size) :
              \/ Resized(d, size)[i] = Zero
              \/ i \in DOMAIN d /\ Resized(d, size)[i] = d[i]
  BY DEF Resized, Byte

--------------------------------------------------------------------------------
\* Holding on to authors: what ByAuthor needs of a step that writes no byte.
LEMMA KeepsAuthors ==
  ASSUME IInv, given \subseteq given', DOMAIN data' = Node,
         \A n \in Node : \A i \in DOMAIN data'[n] :
            data'[n][i] # Zero => i \in DOMAIN data[n] /\ data'[n][i] = data[n][i]
  PROVE  ByAuthor'
  BY DEF IInv, ByAuthor

\* A step that hands out no descriptor, and only closes or moves open files.
LEMMA KeepsTables ==
  ASSUME IInv, UNCHANGED <<next_fd, given>>,
         \A r \in Run : stage'[r] = "ready" => stage[r] = "ready",
         \A r \in Run : \A fd \in DOMAIN map'[r] :
            /\ fd \in DOMAIN map[r]
            /\ map'[r][fd].node = map[r][fd].node
            /\ map'[r][fd].write = map[r][fd].write
  PROVE  TableInv' /\ NeverReused'
<1>1. \A r \in Run : \A fd \in DOMAIN map'[r] :
         \E g \in given' : /\ g.run = r /\ g.fd = fd /\ g.node = map'[r][fd].node
                           /\ map'[r][fd].write => g.writes
  BY DEF IInv, TableInv
<1> QED
  BY <1>1 DEF IInv, TableInv, NeverReused

\* FdTable::add of a file that the flags allow to be written.
LEMMA AddInv ==
  ASSUME IInv, NEW r \in Run, stage[r] = "running", UNCHANGED stage,
         NEW f \in Asked, NEW n \in Node, Add(r, Opened(n, f), f)
  PROVE  /\ DOMAIN map' = Run
         /\ \A q \in Run : DOMAIN map'[q] \subseteq Nat /\ map'[q] \in [DOMAIN map'[q] -> OpenFile]
         /\ next_fd' \in [Run -> Nat]
         /\ given' \subseteq [run : Run, fd : Nat, node : Node, writes : BOOLEAN]
         /\ TableInv' /\ NeverReused'
<1> DEFINE fd0 == next_fd[r]
           opened == Opened(n, f)
           g0 == [run |-> r, fd |-> fd0, node |-> n, writes |-> Writes(f) \/ f.append]
<1>1. TypeOK /\ TableInv /\ NeverReused
  BY DEF IInv
<1>2. fd0 \in Nat /\ fd0 >= FirstFd
  BY <1>1 DEF TypeOK, TableInv
<1>3. /\ opened \in OpenFile /\ opened.node = n /\ opened.write = (Writes(f) \/ f.append)
      /\ g0 \in [run : Run, fd : Nat, node : Node, writes : BOOLEAN]
  <2>1. f.append \in BOOLEAN
    BY DEF Flags
  <2> QED
    BY <1>2, <2>1 DEF Opened, OpenFile, Reads, Writes
<1>4. given' = given \cup {g0}
  BY <1>3 DEF Add
<1>5. next_fd' = [next_fd EXCEPT ![r] = fd0 + 1]
  BY DEF Add
<1>6. /\ DOMAIN map' = Run
      /\ \A q \in Run \ {r} : map'[q] = map[q]
      /\ DOMAIN map'[r] = DOMAIN map[r] \cup {fd0}
      /\ map'[r] = [fd \in DOMAIN map[r] \cup {fd0} |-> IF fd = fd0 THEN opened ELSE map[r][fd]]
  BY <1>1 DEF Add, TypeOK
<1> HIDE DEF opened, g0, fd0
<1>7. \A q \in Run : DOMAIN map'[q] \subseteq Nat /\ map'[q] \in [DOMAIN map'[q] -> OpenFile]
  <2>1. ASSUME NEW q \in Run, q # r
        PROVE  DOMAIN map'[q] \subseteq Nat /\ map'[q] \in [DOMAIN map'[q] -> OpenFile]
    BY <1>1, <1>6, <2>1 DEF TypeOK
  <2>2. DOMAIN map'[r] \subseteq Nat /\ map'[r] \in [DOMAIN map'[r] -> OpenFile]
    BY <1>1, <1>2, <1>3, <1>6 DEF TypeOK
  <2> QED
    BY <2>1, <2>2
<1>8. /\ next_fd' \in [Run -> Nat]
      /\ next_fd'[r] = fd0 + 1 /\ \A q \in Run \ {r} : next_fd'[q] = next_fd[q]
  BY <1>1, <1>2, <1>5 DEF TypeOK
<1>9. given' \subseteq [run : Run, fd : Nat, node : Node, writes : BOOLEAN]
  BY <1>1, <1>3, <1>4 DEF TypeOK
<1>10. g0.run = r /\ g0.fd = fd0 /\ g0.node = n /\ g0.writes = (Writes(f) \/ f.append)
  BY DEF g0
<1>11. \A g \in given : g.run = r => g.fd < fd0
  BY <1>1 DEF TableInv, fd0
<1>12. \A g, h \in given' : g.run = h.run /\ g.fd = h.fd => g = h
  <2>1. \A g \in given : ~(g.run = r /\ g.fd = fd0)
    BY <1>1, <1>2, <1>11 DEF TypeOK
  <2> QED
    BY <1>1, <1>4, <1>10, <2>1 DEF NeverReused
<1>13. \A q \in Run : \A fd \in DOMAIN map'[q] :
          \E g \in given' : /\ g.run = q /\ g.fd = fd /\ g.node = map'[q][fd].node
                            /\ map'[q][fd].write => g.writes
  <2> SUFFICES ASSUME NEW q \in Run, NEW fd \in DOMAIN map'[q]
               PROVE  \E g \in given' : /\ g.run = q /\ g.fd = fd /\ g.node = map'[q][fd].node
                                        /\ map'[q][fd].write => g.writes
    OBVIOUS
  <2>1. CASE q = r /\ fd = fd0
    BY <1>3, <1>4, <1>6, <1>10, <2>1
  <2>2. CASE ~(q = r /\ fd = fd0)
    <3>1. fd \in DOMAIN map[q] /\ map'[q][fd] = map[q][fd]
      BY <1>6, <2>2
    <3> QED
      BY <1>1, <1>4, <3>1 DEF TableInv
  <2> QED
    BY <2>1, <2>2
<1>14. \A g \in given' : g.fd >= FirstFd /\ g.fd < next_fd'[g.run]
  <2>1. ASSUME NEW g \in given PROVE g.fd >= FirstFd /\ g.fd < next_fd'[g.run]
    <3>1. g.run \in Run /\ g.fd \in Nat /\ g.fd >= FirstFd /\ g.fd < next_fd[g.run]
      BY <1>1 DEF TypeOK, TableInv
    <3>2. CASE g.run = r
      BY <1>2, <1>8, <1>11, <3>1, <3>2
    <3>3. CASE g.run # r
      BY <1>8, <3>1, <3>3
    <3> QED
      BY <3>2, <3>3
  <2> QED
    BY <1>2, <1>4, <1>8, <1>10, <2>1
<1>15. \A q \in Run : /\ next_fd'[q] >= FirstFd
                      /\ stage'[q] = "ready" => \A g \in given' : g.run # q
  <2>1. ASSUME NEW q \in Run PROVE next_fd'[q] >= FirstFd
    BY <1>1, <1>2, <1>8 DEF TableInv, FirstFd
  <2>2. ASSUME NEW q \in Run, stage'[q] = "ready" PROVE \A g \in given' : g.run # q
    BY <1>1, <1>4, <1>10, <2>2 DEF TableInv
  <2> QED
    BY <2>1, <2>2
<1>16. TableInv'
  BY <1>13, <1>14, <1>15 DEF TableInv
<1>17. NeverReused'
  BY <1>12, <1>13 DEF NeverReused
<1> QED
  BY <1>6, <1>7, <1>8, <1>9, <1>16, <1>17

--------------------------------------------------------------------------------
LEMMA InitIInv == Init => IInv
  BY DEF Init, IInv, TypeOK, TableInv, NeverReused, ByAuthor, files, OpenFile, FirstFd

\* A step that neither opens a file nor changes one.
LEMMA TablesOnly ==
  ASSUME IInv, UNCHANGED <<next_fd, data, given>>,
         stage' \in [Run -> {"ready", "running", "over"}],
         link' \in [Path -> Node \cup {None}],
         DOMAIN map' = Run,
         \A r \in Run : /\ DOMAIN map'[r] \subseteq Nat
                        /\ map'[r] \in [DOMAIN map'[r] -> OpenFile],
         \A r \in Run : stage'[r] = "ready" => stage[r] = "ready",
         \A r \in Run : \A fd \in DOMAIN map'[r] :
            /\ fd \in DOMAIN map[r]
            /\ map'[r][fd].node = map[r][fd].node
            /\ map'[r][fd].write = map[r][fd].write
  PROVE  IInv'
<1>1. TypeOK'
  BY DEF IInv, TypeOK
<1>2. TableInv' /\ NeverReused'
  BY KeepsTables
<1>3. ByAuthor'
  BY DEF IInv, ByAuthor
<1> QED
  BY <1>1, <1>2, <1>3 DEF IInv

\* A step that only shortens a file or fills it with holes.
LEMMA DataOnly ==
  ASSUME IInv, UNCHANGED <<stage, map, next_fd, link, given>>,
         NEW n \in Node, NEW size \in Nat,
         data' = [data EXCEPT ![n] = Resized(@, size)]
  PROVE  IInv'
<1>1. data \in [Node -> Seq(Byte)]
  BY DEF IInv, TypeOK
<1>2. Resized(data[n], size) \in Seq(Byte)
  BY <1>1, ResizedBytes
<1>3. TypeOK'
  BY <1>1, <1>2 DEF IInv, TypeOK
<1>4. TableInv' /\ NeverReused'
  BY KeepsTables
<1>5. DOMAIN data' = Node /\ given \subseteq given'
  BY <1>1
<1>6. \A m \in Node : \A i \in DOMAIN data'[m] :
         data'[m][i] # Zero => i \in DOMAIN data[m] /\ data'[m][i] = data[m][i]
  <2>1. \A i \in DOMAIN Resized(data[n], size) :
           \/ Resized(data[n], size)[i] = Zero
           \/ i \in DOMAIN data[n] /\ Resized(data[n], size)[i] = data[n][i]
    BY <1>1, ResizedBytes
  <2>2. data'[n] = Resized(data[n], size) /\ \A m \in Node \ {n} : data'[m] = data[m]
    BY <1>1
  <2> QED
    BY <2>1, <2>2
<1>7. ByAuthor'
  BY <1>5, <1>6, KeepsAuthors
<1> QED
  BY <1>3, <1>4, <1>7 DEF IInv

LEMMA NextIInv == IInv /\ [Next]_vars => IInv'
<1> SUFFICES ASSUME IInv, [Next]_vars PROVE IInv'
  OBVIOUS
<1>0. TypeOK /\ TableInv /\ NeverReused /\ ByAuthor
  BY DEF IInv
<1>1. ASSUME NEW r \in Run, Start(r) PROVE IInv'
  <2>1. \A g \in given : g.run # r
    BY <1>0, <1>1 DEF Start, TableInv
  <2>2. /\ stage' = [stage EXCEPT ![r] = "running"] /\ map' = [map EXCEPT ![r] = << >>]
        /\ next_fd' = [next_fd EXCEPT ![r] = FirstFd] /\ UNCHANGED <<link, data, given>>
    BY <1>1 DEF Start, files
  <2>3. DOMAIN map[r] = {} /\ FirstFd \in Nat
    BY <1>0, <2>1 DEF TableInv, FirstFd
  <2>4. TypeOK'
    BY <1>0, <2>2, <2>3 DEF TypeOK, OpenFile
  <2>5. \A g \in given : g.fd >= FirstFd /\ g.fd < next_fd'[g.run]
    BY <1>0, <2>1, <2>2 DEF TypeOK, TableInv
  <2>6. \A q \in Run : next_fd'[q] >= FirstFd
    BY <1>0, <2>2, <2>3 DEF TypeOK, TableInv
  <2>7. \A q \in Run : stage'[q] = "ready" => \A g \in given : g.run # q
    BY <1>0, <2>2 DEF TypeOK, TableInv
  <2>8. \A q \in Run : \A fd \in DOMAIN map'[q] :
           fd \in DOMAIN map[q] /\ map'[q][fd] = map[q][fd]
    BY <1>0, <2>2 DEF TypeOK
  <2>9. TableInv'
    BY <1>0, <2>2, <2>5, <2>6, <2>7, <2>8 DEF TableInv
  <2>10. NeverReused'
    BY <1>0, <2>2, <2>8 DEF NeverReused
  <2>11. ByAuthor'
    BY <1>0, <2>2 DEF ByAuthor
  <2> QED
    BY <2>4, <2>9, <2>10, <2>11 DEF IInv
<1>2. ASSUME NEW r \in Run, Stop(r) PROVE IInv'
  <2>1. /\ stage' = [stage EXCEPT ![r] = "over"] /\ map' = [map EXCEPT ![r] = << >>]
        /\ UNCHANGED <<next_fd, link, data, given>>
    BY <1>2 DEF Stop, files
  <2>2. /\ stage' \in [Run -> {"ready", "running", "over"}]
        /\ link' \in [Path -> Node \cup {None}]
        /\ DOMAIN map' = Run
        /\ \A q \in Run : /\ DOMAIN map'[q] \subseteq Nat
                          /\ map'[q] \in [DOMAIN map'[q] -> OpenFile]
        /\ \A q \in Run : stage'[q] = "ready" => stage[q] = "ready"
    BY <1>0, <2>1 DEF TypeOK, OpenFile
  <2>3. \A q \in Run : \A fd \in DOMAIN map'[q] :
           fd \in DOMAIN map[q] /\ map'[q][fd] = map[q][fd]
    BY <1>0, <2>1 DEF TypeOK
  <2> QED
    BY <2>1, <2>2, <2>3, TablesOnly
<1>3. ASSUME NEW r \in Run, stage[r] = "running", NEW p \in Path, NEW f \in Asked,
             OpenExisting(r, p, f)
      PROVE  IInv'
  <2>1. link[p] \in Node /\ Add(r, Opened(link[p], f), f) /\ UNCHANGED <<stage, link>>
    BY <1>0, <1>3 DEF OpenExisting, TypeOK
  <2>2. /\ DOMAIN map' = Run
        /\ \A q \in Run : DOMAIN map'[q] \subseteq Nat /\ map'[q] \in [DOMAIN map'[q] -> OpenFile]
        /\ next_fd' \in [Run -> Nat]
        /\ given' \subseteq [run : Run, fd : Nat, node : Node, writes : BOOLEAN]
        /\ TableInv' /\ NeverReused'
    BY <1>3, <2>1, AddInv
  <2>3. data' = [data EXCEPT ![link[p]] = IF f.trunc THEN << >> ELSE @]
    BY <1>3 DEF OpenExisting
  <2>4. /\ data' \in [Node -> Seq(Byte)]
        /\ \A n \in Node : \A i \in DOMAIN data'[n] :
              i \in DOMAIN data[n] /\ data'[n][i] = data[n][i]
    BY <1>0, <2>1, <2>3 DEF TypeOK
  <2>5. given \subseteq given'
    BY <2>1 DEF Add
  <2>6. ByAuthor'
    BY <2>4, <2>5, KeepsAuthors
  <2>7. TypeOK'
    BY <1>0, <2>1, <2>2, <2>4 DEF TypeOK
  <2> QED
    BY <2>2, <2>6, <2>7 DEF IInv
<1>4. ASSUME NEW r \in Run, stage[r] = "running", NEW p \in Path, NEW f \in Asked,
             OpenNew(r, p, f)
      PROVE  IInv'
  <2>1. PICK n \in Node : /\ link' = [link EXCEPT ![p] = n]
                          /\ data' = [data EXCEPT ![n] = << >>]
                          /\ Add(r, Opened(n, f), f)
    BY <1>4 DEF OpenNew
  <2>2. UNCHANGED stage
    BY <1>4 DEF OpenNew
  <2>3. /\ DOMAIN map' = Run
        /\ \A q \in Run : DOMAIN map'[q] \subseteq Nat /\ map'[q] \in [DOMAIN map'[q] -> OpenFile]
        /\ next_fd' \in [Run -> Nat]
        /\ given' \subseteq [run : Run, fd : Nat, node : Node, writes : BOOLEAN]
        /\ TableInv' /\ NeverReused'
    BY <1>4, <2>1, <2>2, AddInv
  <2>4. /\ data' \in [Node -> Seq(Byte)]
        /\ \A m \in Node : \A i \in DOMAIN data'[m] :
              i \in DOMAIN data[m] /\ data'[m][i] = data[m][i]
    BY <1>0, <2>1 DEF TypeOK
  <2>5. given \subseteq given'
    BY <2>1 DEF Add
  <2>6. ByAuthor'
    BY <2>4, <2>5, KeepsAuthors
  <2>7. TypeOK'
    BY <1>0, <2>1, <2>2, <2>3, <2>4 DEF TypeOK
  <2> QED
    BY <2>3, <2>6, <2>7 DEF IInv
<1>5. ASSUME NEW r \in Run, NEW fd0, Close(r, fd0) PROVE IInv'
  <2>1. /\ map' = [map EXCEPT ![r] = [g \in DOMAIN @ \ {fd0} |-> @[g]]]
        /\ UNCHANGED <<stage, next_fd, link, data, given>>
    BY <1>5 DEF Close, files
  <2>2. /\ DOMAIN map' = Run
        /\ \A q \in Run \ {r} : map'[q] = map[q]
        /\ DOMAIN map'[r] = DOMAIN map[r] \ {fd0}
        /\ map'[r] = [g \in DOMAIN map[r] \ {fd0} |-> map[r][g]]
    BY <1>0, <2>1 DEF TypeOK
  <2>3. \A q \in Run : \A fd \in DOMAIN map'[q] :
           fd \in DOMAIN map[q] /\ map'[q][fd] = map[q][fd]
    BY <2>2
  <2>4. \A q \in Run : DOMAIN map'[q] \subseteq Nat /\ map'[q] \in [DOMAIN map'[q] -> OpenFile]
    BY <1>0, <2>2 DEF TypeOK
  <2> QED
    BY <1>0, <2>1, <2>2, <2>3, <2>4, TablesOnly DEF TypeOK
<1>6. ASSUME NEW r \in Run, NEW fd0 \in DOMAIN map[r], NEW p0 \in Nat,
             map' = [map EXCEPT ![r][fd0].pos = p0]
      PROVE  /\ DOMAIN map' = Run
             /\ \A q \in Run : /\ DOMAIN map'[q] \subseteq Nat
                               /\ map'[q] \in [DOMAIN map'[q] -> OpenFile]
             /\ \A q \in Run : \A fd \in DOMAIN map'[q] :
                  /\ fd \in DOMAIN map[q]
                  /\ map'[q][fd].node = map[q][fd].node
                  /\ map'[q][fd].write = map[q][fd].write
  <2>1. /\ DOMAIN map' = Run
        /\ \A q \in Run \ {r} : map'[q] = map[q]
        /\ DOMAIN map'[r] = DOMAIN map[r]
        /\ map'[r] = [map[r] EXCEPT ![fd0].pos = p0]
    BY <1>0, <1>6 DEF TypeOK
  <2>2. map[r] \in [DOMAIN map[r] -> OpenFile] /\ DOMAIN map[r] \subseteq Nat
    BY <1>0 DEF TypeOK
  <2>3. \A fd \in DOMAIN map[r] : fd # fd0 => map'[r][fd] = map[r][fd]
    BY <2>1, <2>2
  <2>4. map'[r][fd0] = [map[r][fd0] EXCEPT !.pos = p0] /\ map[r][fd0] \in OpenFile
    BY <2>1, <2>2
  <2>5. /\ map'[r][fd0] \in OpenFile
        /\ map'[r][fd0].node = map[r][fd0].node
        /\ map'[r][fd0].write = map[r][fd0].write
    BY <2>4 DEF OpenFile
  <2>6. map'[r] \in [DOMAIN map'[r] -> OpenFile]
    BY <2>1, <2>2, <2>3, <2>5
  <2>7. ASSUME NEW q \in Run PROVE /\ DOMAIN map'[q] \subseteq Nat
                                   /\ map'[q] \in [DOMAIN map'[q] -> OpenFile]
    BY <1>0, <2>1, <2>2, <2>6 DEF TypeOK
  <2>8. ASSUME NEW q \in Run, NEW fd \in DOMAIN map'[q]
        PROVE  /\ fd \in DOMAIN map[q]
               /\ map'[q][fd].node = map[q][fd].node
               /\ map'[q][fd].write = map[q][fd].write
    BY <2>1, <2>3, <2>5
  <2> QED
    BY <2>1, <2>7, <2>8
<1>7. ASSUME NEW r \in Run, NEW fd0 \in 0..MaxFd, NEW k \in 1..MaxSize, Write(r, fd0, k)
      PROVE  IInv'
  <2> DEFINE n == map[r][fd0].node
             pos == IF map[r][fd0].append THEN Len(data[n]) ELSE map[r][fd0].pos
             b == <<r, fd0>>
  <2>1. /\ fd0 \in DOMAIN map[r] /\ map[r][fd0].write
        /\ data' = [data EXCEPT ![n] = Put(@, pos, k, b)]
        /\ map' = [map EXCEPT ![r][fd0].pos = pos + k]
        /\ UNCHANGED <<stage, next_fd, link, given>>
    BY <1>7 DEF Write
  <2>2. map[r][fd0] \in OpenFile
    BY <1>0, <2>1 DEF TypeOK
  <2>3. n \in Node /\ pos \in Nat /\ k \in Nat /\ pos + k \in Nat /\ b \in Byte
    <3>1. n \in Node /\ map[r][fd0].pos \in Nat
      BY <2>2 DEF OpenFile
    <3>2. Len(data[n]) \in Nat
      BY <1>0, <3>1 DEF TypeOK
    <3>3. k \in Nat /\ fd0 \in Nat
      OBVIOUS
    <3>4. b \in Byte
      BY <3>3 DEF Byte
    <3>5. pos \in Nat
      BY <3>1, <3>2
    <3> QED
      <4> HIDE DEF pos, b, n
      <4> QED
        BY <3>1, <3>3, <3>4, <3>5
  <2>4. PICK g \in given : g.run = r /\ g.fd = fd0 /\ g.node = n /\ g.writes
    BY <1>0, <2>1 DEF TableInv
  <2> HIDE DEF n, pos, b
  <2>5. data \in [Node -> Seq(Byte)]
    BY <1>0 DEF TypeOK
  <2>6. /\ DOMAIN map' = Run
        /\ \A q \in Run : /\ DOMAIN map'[q] \subseteq Nat
                          /\ map'[q] \in [DOMAIN map'[q] -> OpenFile]
        /\ \A q \in Run : \A fd \in DOMAIN map'[q] :
             /\ fd \in DOMAIN map[q]
             /\ map'[q][fd].node = map[q][fd].node
             /\ map'[q][fd].write = map[q][fd].write
    BY <1>6, <2>1, <2>3
  <2>7. data[n] \in Seq(Byte)
    BY <2>3, <2>5
  <2>8. /\ data'[n] \in Seq(Byte)
        /\ \A i \in DOMAIN data'[n] : \/ data'[n][i] \in {b, Zero}
                                      \/ i \in DOMAIN data[n] /\ data'[n][i] = data[n][i]
        /\ \A m \in Node \ {n} : data'[m] = data[m]
        /\ data' \in [Node -> Seq(Byte)]
    <3>1. data'[n] = Put(data[n], pos, k, b) /\ \A m \in Node \ {n} : data'[m] = data[m]
      BY <2>1, <2>3, <2>5
    <3>2. /\ Put(data[n], pos, k, b) \in Seq(Byte)
          /\ \A i \in DOMAIN Put(data[n], pos, k, b) :
               \/ Put(data[n], pos, k, b)[i] \in {b, Zero}
               \/ i \in DOMAIN data[n] /\ Put(data[n], pos, k, b)[i] = data[n][i]
      <4>1. data[n] \in Seq(Byte) /\ pos \in Nat /\ k \in Nat /\ b \in Byte
        BY <2>3, <2>7
      <4> QED
        BY ONLY <4>1, PutBytes
    <3>3. data' \in [Node -> Seq(Byte)]
      BY <2>1, <2>3, <2>5, <3>2
    <3> QED
      BY <3>1, <3>2, <3>3
  <2>9. TypeOK'
    BY <1>0, <2>1, <2>6, <2>8 DEF TypeOK
  <2>10. TableInv' /\ NeverReused'
    BY <2>1, <2>6, KeepsTables
  <2>11. ByAuthor'
    <3> SUFFICES ASSUME NEW m \in Node, NEW i \in DOMAIN data'[m], data'[m][i] # Zero
                 PROVE  \E h \in given : h.writes /\ h.node = m /\ data'[m][i] = <<h.run, h.fd>>
      BY <2>1 DEF ByAuthor
    <3>1. CASE m = n /\ data'[m][i] = b
      BY <2>4, <3>1 DEF b
    <3>2. CASE ~(m = n /\ data'[m][i] = b)
      <4>1. i \in DOMAIN data[m] /\ data'[m][i] = data[m][i]
        BY <2>8, <3>2
      <4> QED
        BY <1>0, <4>1 DEF ByAuthor
    <3> QED
      BY <3>1, <3>2
  <2> QED
    BY <2>9, <2>10, <2>11 DEF IInv
<1>8. ASSUME NEW r \in Run, NEW fd0 \in 0..MaxFd, NEW k \in 1..MaxSize, Read(r, fd0, k)
      PROVE  IInv'
  <2>1. /\ fd0 \in DOMAIN map[r]
        /\ map' = [map EXCEPT ![r][fd0].pos = map[r][fd0].pos + k]
        /\ UNCHANGED <<stage, next_fd, link, data, given>>
    BY <1>8 DEF Read, files
  <2>2. map[r][fd0].pos + k \in Nat
    BY <1>0, <2>1 DEF TypeOK, OpenFile
  <2>3. /\ DOMAIN map' = Run
        /\ \A q \in Run : /\ DOMAIN map'[q] \subseteq Nat
                          /\ map'[q] \in [DOMAIN map'[q] -> OpenFile]
        /\ \A q \in Run : \A fd \in DOMAIN map'[q] :
             /\ fd \in DOMAIN map[q]
             /\ map'[q][fd].node = map[q][fd].node
             /\ map'[q][fd].write = map[q][fd].write
    BY <1>6, <2>1, <2>2
  <2> QED
    BY <1>0, <2>1, <2>3, TablesOnly DEF TypeOK
<1>9. ASSUME NEW r \in Run, NEW fd0 \in 0..MaxFd, NEW k \in 1..MaxSize, Ftruncate(r, fd0, k - 1)
      PROVE  IInv'
  <2>1. map[r][fd0].node \in Node /\ k - 1 \in Nat
    BY <1>0, <1>9 DEF Ftruncate, TypeOK, OpenFile
  <2> QED
    BY <1>9, <2>1, DataOnly DEF Ftruncate
<1>10. ASSUME NEW p \in Path, NEW k \in 0..MaxSize, Truncate(p, k) PROVE IInv'
  <2>1. link[p] \in Node /\ k \in Nat
    BY <1>0, <1>10 DEF Truncate, TypeOK
  <2> QED
    BY <1>10, <2>1, DataOnly DEF Truncate
<1>11. ASSUME NEW p \in Path, Unlink(p) PROVE IInv'
  <2>1. link' = [link EXCEPT ![p] = None] /\ UNCHANGED <<stage, map, next_fd, data, given>>
    BY <1>11 DEF Unlink
  <2> QED
    BY <1>0, <2>1, TablesOnly DEF TypeOK
<1>12. ASSUME NEW p \in Path, NEW q \in Path, Rename(p, q) PROVE IInv'
  <2>1. /\ link' = [link EXCEPT ![q] = link[p], ![p] = None]
        /\ UNCHANGED <<stage, map, next_fd, data, given>>
    BY <1>12 DEF Rename
  <2>2. link' \in [Path -> Node \cup {None}]
    BY <1>0, <2>1 DEF TypeOK
  <2> QED
    BY <1>0, <2>1, <2>2, TablesOnly DEF TypeOK
<1>13. CASE UNCHANGED vars
  BY <1>0, <1>13 DEF vars, IInv, TypeOK, TableInv, NeverReused, ByAuthor
<1>14. ASSUME NEW r \in Run, Native(r) PROVE IInv'
  <2>1. CASE FdCall(r)
    BY <1>5, <1>7, <1>8, <1>9, <2>1 DEF FdCall
  <2>2. CASE PathCall(r)
    BY <1>3, <1>4, <1>10, <1>11, <1>12, <1>14, <2>2 DEF PathCall, Native
  <2> QED
    BY <1>14, <2>1, <2>2 DEF Native
<1> QED
  BY <1>1, <1>2, <1>13, <1>14 DEF Next, Over

--------------------------------------------------------------------------------
\* The inductive invariant, for every number of runs, paths and files.
THEOREM FdInvariant == Spec => []IInv
<1> QED
  BY InitIInv, NextIInv, PTL DEF Spec

\* FdTable::add never replaces an open file (wasmoo_extern.rs:303).
THEOREM AssertHolds == Spec => []AddNeverReplaces
<1>1. IInv => AddNeverReplaces
  <2> SUFFICES ASSUME IInv, NEW r \in Run, next_fd[r] \in DOMAIN map[r] PROVE FALSE
    BY DEF AddNeverReplaces
  <2>1. PICK g \in given : g.run = r /\ g.fd = next_fd[r]
    BY DEF IInv, TableInv
  <2>2. g.fd < next_fd[g.run] /\ next_fd[r] \in Nat
    BY DEF IInv, TableInv, TypeOK
  <2> QED
    BY <2>1, <2>2
<1> QED
  BY <1>1, FdInvariant, PTL

\* A descriptor names one file for good (wasmoo_extern.rs:300-306, 322-324).
THEOREM DescriptorsFresh == Spec => []NeverReused
<1>1. IInv => NeverReused
  BY DEF IInv
<1> QED
  BY <1>1, FdInvariant, PTL

\* Every byte has an author who asked for that file, to write
\* (wasmoo_extern.rs:365-392, 577-648).
THEOREM BytesByAuthor == Spec => []ByAuthor
<1>1. IInv => ByAuthor
  BY DEF IInv
<1> QED
  BY <1>1, FdInvariant, PTL

HIDE FdTableAssumption

--------------------------------------------------------------------------------
(* The times of utimes (Utimes).                                              *)

\* Division with remainder.
LEMMA Euclid ==
  ASSUME NEW a \in Int, NEW b \in Nat \ {0}
  PROVE  /\ a \div b \in Int
         /\ a % b \in 0..(b - 1)
         /\ b * (a \div b) \in Int
         /\ b * (a \div b) <= a
         /\ a < b * (a \div b) + b
         /\ a % b = a - b * (a \div b)
<1>1. a \div b \in Int /\ b * (a \div b) \in Int
  OBVIOUS
<1>2. a % b \in 0..(b - 1)
  OBVIOUS
<1>3. b * (a \div b) <= a /\ a < b * (a \div b) + b
  OBVIOUS
<1>4. a % b = a - b * (a \div b)
  OBVIOUS
<1> QED
  BY <1>1, <1>2, <1>3, <1>4

LEMMA Cancel ==
  ASSUME NEW p \in Nat \ {0}, NEW x \in Int, NEW y \in Int, p * x < p * y
  PROVE  x < y
<1> SUFFICES ASSUME y <= x PROVE p * y <= p * x
  OBVIOUS
<1>1. PICK d \in Nat : x = y + d
  <2>1. x - y \in Nat /\ x = y + (x - y)
    OBVIOUS
  <2> QED
    BY <2>1
<1>2. p * x = p * y + p * d /\ p * d \in Nat
  BY <1>1
<1> QED
  BY <1>2

\* Microseconds, rounded: no further from the time than half of one.
LEMMA Rounded ==
  ASSUME NEW t \in Int
  PROVE  /\ Times!Round(t) \in Int
         /\ Part * Times!Round(t) \in Int
         /\ 2 * (Part * Times!Round(t)) - 2 * t <= Part
         /\ 2 * t - 2 * (Part * Times!Round(t)) <= Part
<1> DEFINE a == IF t < 0 THEN -t ELSE t
           r == (2 * a + Part) \div (2 * Part)
<1>1. a \in Nat /\ Part \in Nat \ {0} /\ 2 * a + Part \in Int /\ 2 * Part \in Nat \ {0}
  BY NativesAssumption DEF Times!UtimesAssumption
<1>2. /\ r \in Int
      /\ (2 * Part) * r \in Int
      /\ (2 * Part) * r <= 2 * a + Part
      /\ 2 * a + Part < (2 * Part) * r + 2 * Part
  <2> HIDE DEF a
  <2> QED
    BY <1>1, Euclid
<1>3. Times!Round(t) = IF t < 0 THEN -r ELSE r
  BY DEF Times!Round, Times!Abs
<1> HIDE DEF r
<1>4. (2 * Part) * r = 2 * (Part * r) /\ Part * r \in Int /\ Part * (-r) = -(Part * r)
  BY <1>1, <1>2
<1>5. 2 * (Part * r) - 2 * a <= Part /\ 2 * a - 2 * (Part * r) <= Part
  <2> DEFINE q == Part * r
  <2>1. q \in Int /\ 2 * q <= 2 * a + Part /\ 2 * a + Part < 2 * q + 2 * Part
    BY <1>2, <1>4
  <2> HIDE DEF q, a
  <2>2. 2 * q - 2 * a <= Part /\ 2 * a - 2 * q <= Part
    BY <1>1, <2>1
  <2> QED
    BY <2>2 DEF q
<1>6. CASE t < 0
  <2>1. Times!Round(t) = -r /\ a = -t
    BY <1>3, <1>6
  <2> DEFINE q == Part * r
  <2>2. q \in Int /\ 2 * q - 2 * a <= Part /\ 2 * a - 2 * q <= Part /\ Part * Times!Round(t) = -q
    BY <1>4, <1>5, <2>1
  <2> HIDE DEF q, a
  <2>3. 2 * (-q) - 2 * t <= Part /\ 2 * t - 2 * (-q) <= Part /\ -q \in Int
    BY <1>1, <2>1, <2>2
  <2> QED
    BY <1>2, <2>1, <2>2, <2>3
<1>7. CASE ~(t < 0)
  BY <1>2, <1>3, <1>4, <1>5, <1>7
<1> QED
  BY <1>6, <1>7

\* A later time is not rounded to an earlier microsecond.
LEMMA RoundKeepsOrder ==
  ASSUME NEW t \in Int, NEW u \in Int, t <= u
  PROVE  Times!Round(t) <= Times!Round(u)
<1> DEFINE a(x) == IF x < 0 THEN -x ELSE x
           r(x) == (2 * a(x) + Part) \div (2 * Part)
<1>1. Part \in Nat \ {0} /\ 2 * Part \in Nat \ {0} /\ a(t) \in Nat /\ a(u) \in Nat
  BY NativesAssumption DEF Times!UtimesAssumption
<1>2. ASSUME NEW x \in Nat, NEW y \in Nat, x <= y
      PROVE  (2 * x + Part) \div (2 * Part) <= (2 * y + Part) \div (2 * Part)
  <2> DEFINE p == 2 * Part
             c == (2 * x + Part) \div p
             d == (2 * y + Part) \div p
  <2>0. p \in Nat \ {0} /\ 2 * x + Part \in Int /\ 2 * y + Part \in Int
    BY <1>1
  <2>1. /\ c \in Int /\ p * c \in Int /\ p * c <= 2 * x + Part
        /\ d \in Int /\ p * d \in Int /\ 2 * y + Part < p * d + p
    <3> HIDE DEF p
    <3> QED
      BY <2>0, Euclid
  <2>2. p * c < p * (d + 1)
    <3> HIDE DEF p, c, d
    <3>1. p * (d + 1) = p * d + p
      BY <2>0, <2>1
    <3>2. p * c < p * d + p
      <4> \A m, n \in Int : m <= 2 * x + Part /\ 2 * y + Part < n => m < n
        BY <1>1, <1>2
      <4> p * d + p \in Int
        BY <2>0, <2>1
      <4> QED
        BY <2>1
    <3> QED
      BY <3>1, <3>2
  <2>3. c < d + 1
    <3> HIDE DEF c, d, p
    <3>1. p \in Nat \ {0}
      BY <1>1 DEF p
    <3> QED
      BY <2>1, <2>2, <3>1, Cancel
  <2> HIDE DEF c, d
  <2>4. c <= d
    BY <2>1, <2>3
  <2> QED
    BY <2>4 DEF c, d
<1>3. \A x \in Nat : (2 * x + Part) \div (2 * Part) \in Nat
  <2> SUFFICES ASSUME NEW x \in Nat PROVE (2 * x + Part) \div (2 * Part) \in Nat
    OBVIOUS
  <2> QED
    BY <1>1
<1>4. Times!Round(t) = (IF t < 0 THEN -r(t) ELSE r(t)) /\ Times!Round(u) = (IF u < 0 THEN -r(u) ELSE r(u))
  BY DEF Times!Round, Times!Abs
<1>5. r(t) \in Nat /\ r(u) \in Nat
  BY <1>1, <1>3
<1>6. CASE ~(t < 0)
  <2>1. ~(u < 0) /\ a(t) <= a(u)
    BY <1>6
  <2>2. r(t) <= r(u)
    BY <1>1, <1>2, <2>1
  <2> QED
    BY <1>4, <1>6, <2>1, <2>2
<1>7. CASE t < 0 /\ ~(u < 0)
  <2> HIDE DEF r
  <2> QED
    BY <1>4, <1>5, <1>7
<1>8. CASE u < 0
  <2>1. t < 0 /\ a(u) <= a(t)
    BY <1>8
  <2>2. r(u) <= r(t)
    BY <1>1, <1>2, <2>1
  <2> HIDE DEF r
  <2> QED
    BY <1>4, <1>5, <1>8, <2>1, <2>2
<1> QED
  BY <1>6, <1>7, <1>8

\* The conversion saturates at the ends of an i64, and keeps the order.
LEMMA Saturates ==
  ASSUME NEW i \in Int
  PROVE  /\ Times!AsI64(i) \in Int
         /\ \/ Times!AsI64(i) = i
            \/ i > MaxI64 /\ Times!AsI64(i) = MaxI64
            \/ i < Times!MinI64 /\ Times!AsI64(i) = Times!MinI64
         /\ \A j \in Int : i <= j => Times!AsI64(i) <= Times!AsI64(j)
<1>1. MaxI64 \in Nat /\ Times!MinI64 = -MaxI64 - 1
  BY NativesAssumption DEF Times!UtimesAssumption, Times!MinI64
<1> QED
  BY <1>1 DEF Times!AsI64

\* A timeval of a time is one the system accepts, and stands for its microseconds.
LEMMA TimevalOf ==
  ASSUME NEW t \in Int
  PROVE  /\ Times!AsI64(Times!Round(t)) \in Int
         /\ Times!Timeval(t).sec \in Int
         /\ Times!Timeval(t).usec \in 0..(Million - 1)
         /\ Times!Total(Times!Timeval(t)) = Times!AsI64(Times!Round(t))
<1> DEFINE total == Times!AsI64(Times!Round(t))
<1>1. total \in Int /\ Million \in Nat \ {0}
  BY Rounded, Saturates, NativesAssumption DEF Times!UtimesAssumption
<1>2. Times!Timeval(t) = [sec |-> total \div Million, usec |-> total % Million]
  BY DEF Times!Timeval
<1> HIDE DEF total
<1>3. /\ total \div Million \in Int /\ total % Million \in 0..(Million - 1)
      /\ Million * (total \div Million) \in Int
      /\ total % Million = total - Million * (total \div Million)
  BY <1>1, Euclid
<1>4. Times!Total(Times!Timeval(t)) = (total \div Million) * Million + (total % Million)
  BY <1>2 DEF Times!Total
<1>5. (total \div Million) * Million = Million * (total \div Million)
  BY <1>1, <1>3
<1>6. Times!Total(Times!Timeval(t)) = total
  <2> DEFINE q == Million * (total \div Million)
  <2>1. q \in Int /\ Times!Total(Times!Timeval(t)) = q + (total - q)
    BY <1>3, <1>4, <1>5
  <2> HIDE DEF q
  <2> QED
    BY <1>1, <2>1
<1> QED
  BY <1>1, <1>2, <1>3, <1>6 DEF total

LEMMA TimevalNear ==
  ASSUME NEW t \in Int
  PROVE  Times!Near(t, Times!Timeval(t))
<1> DEFINE r == Times!Round(t)
           total == Times!AsI64(r)
<1>1. /\ r \in Int /\ Part * r \in Int /\ Part \in Nat \ {0} /\ MaxI64 \in Nat
      /\ 2 * (Part * r) - 2 * t <= Part
      /\ 2 * t - 2 * (Part * r) <= Part
  BY Rounded, NativesAssumption DEF Times!UtimesAssumption
<1>2. Times!Total(Times!Timeval(t)) = total
  BY TimevalOf
<1> HIDE DEF r
<1>3. \A m \in Int : /\ m < r => Part * m <= t
                     /\ r < m => t <= Part * m
  <2> SUFFICES ASSUME NEW m \in Int PROVE /\ m < r => Part * m <= t
                                          /\ r < m => t <= Part * m
    OBVIOUS
  <2>1. ASSUME m < r PROVE Part * m <= t
    <3>1. PICK d \in Nat : r = m + 1 + d
      <4>1. r - m - 1 \in Nat /\ r = m + 1 + (r - m - 1)
        BY <1>1, <2>1
      <4> QED
        BY <4>1
    <3>2. Part * r = Part * m + Part + Part * d /\ Part * d \in Nat /\ Part * m \in Int
      BY <1>1, <3>1
    <3>3. \A u, v, w \in Int : u = v + Part + w /\ w >= 0 /\ 2 * u - 2 * t <= Part => v <= t
      BY <1>1
    <3> QED
      BY <1>1, <3>2, <3>3
  <2>2. ASSUME r < m PROVE t <= Part * m
    <3>1. PICK d \in Nat : m = r + 1 + d
      <4>1. m - r - 1 \in Nat /\ m = r + 1 + (m - r - 1)
        BY <1>1, <2>2
      <4> QED
        BY <4>1
    <3>2. Part * m = Part * r + Part + Part * d /\ Part * d \in Nat /\ Part * m \in Int
      BY <1>1, <3>1
    <3>3. \A u, v, w \in Int : u = v + Part + w /\ w >= 0 /\ 2 * t - 2 * v <= Part => t <= u
      BY <1>1
    <3> QED
      BY <1>1, <3>2, <3>3
  <2> QED
    BY <2>1, <2>2
<1>4. \/ total = r
      \/ r > MaxI64 /\ total = MaxI64
      \/ r < Times!MinI64 /\ total = Times!MinI64
  BY <1>1, Saturates
<1>5. CASE total = r
  <2> DEFINE d == t - Part * r
  <2>1. d \in Int /\ 2 * d <= Part /\ 2 * (-d) <= Part
    <3>1. \A q \in Int : 2 * q - 2 * t <= Part /\ 2 * t - 2 * q <= Part =>
            t - q \in Int /\ 2 * (t - q) <= Part /\ 2 * (-(t - q)) <= Part
      BY <1>1
    <3> QED
      BY <1>1, <3>1
  <2>2. 2 * Times!Abs(d) <= Part
    <3> HIDE DEF d
    <3> QED
      BY <2>1 DEF Times!Abs
  <2> QED
    BY <1>2, <1>5, <2>2 DEF Times!Near
<1>6. CASE r > MaxI64 /\ total = MaxI64
  <2>1. Part * MaxI64 <= t
    BY <1>1, <1>3, <1>6
  <2>2. t >= Part * MaxI64
    <3>1. Part * MaxI64 \in Int
      BY <1>1
    <3> QED
      BY <2>1, <3>1
  <2> QED
    BY <1>2, <1>6, <2>2 DEF Times!Near
<1>7. CASE r < Times!MinI64 /\ total = Times!MinI64
  <2>1. Times!MinI64 \in Int
    BY <1>1 DEF Times!MinI64
  <2>2. t <= Part * Times!MinI64
    BY <1>3, <1>7, <2>1
  <2> QED
    BY <1>2, <1>7, <2>2 DEF Times!Near
<1> QED
  BY <1>4, <1>5, <1>6, <1>7

LEMMA TimevalKeepsOrder ==
  ASSUME NEW t \in Int, NEW u \in Int, t <= u
  PROVE  Times!Before(Times!Timeval(t), Times!Timeval(u))
<1> DEFINE v == Times!Timeval(t)
           w == Times!Timeval(u)
<1>1. /\ v.sec \in Int /\ v.usec \in 0..(Million - 1)
      /\ w.sec \in Int /\ w.usec \in 0..(Million - 1)
      /\ v.sec * Million + v.usec <= w.sec * Million + w.usec
      /\ Million \in Nat \ {0}
  BY TimevalOf, Rounded, Saturates, RoundKeepsOrder, NativesAssumption
     DEF Times!Total, Times!UtimesAssumption
<1> HIDE DEF v, w
<1>2. CASE w.sec < v.sec
  <2>1. PICK d \in Nat : v.sec = w.sec + 1 + d
    <3>1. v.sec - w.sec - 1 \in Nat /\ v.sec = w.sec + 1 + (v.sec - w.sec - 1)
      BY <1>1, <1>2
    <3> QED
      BY <3>1
  <2>2. /\ v.sec * Million = w.sec * Million + Million + d * Million
        /\ d * Million \in Nat /\ w.sec * Million \in Int
    BY <1>1, <2>1
  <2>3. \A x, y, z \in Int : x = y + Million + z /\ z >= 0 => ~(x + v.usec <= y + w.usec)
    BY <1>1
  <2> QED
    BY <1>1, <2>2, <2>3
<1>3. CASE v.sec = w.sec
  <2>1. \A x \in Int : x + v.usec <= x + w.usec => v.usec <= w.usec
    BY <1>1
  <2>2. v.sec * Million \in Int
    BY <1>1
  <2> QED
    BY <1>1, <1>3, <2>1, <2>2 DEF Times!Before, v, w
<1>4. CASE v.sec < w.sec
  BY <1>4 DEF Times!Before, v, w
<1>5. v.sec < w.sec \/ v.sec = w.sec \/ w.sec < v.sec
  <2> \A m, n \in Int : m < n \/ m = n \/ n < m
    OBVIOUS
  <2> QED
    BY <1>1
<1> QED
  BY <1>2, <1>3, <1>4, <1>5

--------------------------------------------------------------------------------
LEMMA TimesInit == Times!Init => Times!IInv
<1>1. Times!Round(0) = 0
  <2>1. Part \in Nat \ {0}
    BY NativesAssumption DEF Times!UtimesAssumption
  <2>2. (2 * 0 + Part) \div (2 * Part) = 0
    BY <2>1
  <2> QED
    BY <2>2 DEF Times!Round, Times!Abs
<1>2. Times!Timeval(0) = Times!Epoch
  <2>1. MaxI64 \in Nat /\ Million \in Nat \ {0}
    BY NativesAssumption DEF Times!UtimesAssumption
  <2>2. Times!AsI64(0) = 0
    BY <2>1 DEF Times!AsI64, Times!MinI64
  <2>3. 0 \div Million = 0 /\ 0 % Million = 0
    BY <2>1
  <2> QED
    BY <1>1, <2>2, <2>3 DEF Times!Timeval, Times!Epoch
<1> QED
  BY <1>2 DEF Times!Init, Times!IInv

\* No finite time is refused, so that what throws is no time.
LEMMA TimesNext == Times!IInv /\ [Times!Next]_(Times!vars) => (Times!IInv)'
<1> SUFFICES ASSUME Times!IInv, [Times!Next]_(Times!vars) PROVE (Times!IInv)'
  OBVIOUS
<1>1. Finite \subseteq Int
  BY NativesAssumption DEF Times!UtimesAssumption
<1>2. ASSUME NEW t \in Finite PROVE Times!Usable(t)
  BY <1>1, TimevalOf DEF Times!Usable
<1>3. ASSUME NEW atime \in Finite \cup Odd, NEW mtime \in Finite \cup Odd, Times!Sets(atime, mtime)
      PROVE  (Times!IInv)'
  BY <1>1, <1>3 DEF Times!Sets, Times!IInv, Times!Usable, Times!Timeval, Times!Round, Times!Abs, Times!AsI64
<1>4. ASSUME NEW atime \in Finite \cup Odd, NEW mtime \in Finite \cup Odd, Times!Throws(atime, mtime)
      PROVE  (Times!IInv)'
  <2>1. throws' = "odd"
    BY <1>2, <1>4 DEF Times!Throws
  <2> QED
    BY <1>4, <2>1 DEF Times!Throws, Times!IInv, Times!Timeval, Times!Round, Times!Abs, Times!AsI64
<1>5. CASE UNCHANGED Times!vars
  BY <1>5 DEF Times!vars, Times!IInv, Times!Timeval, Times!Round, Times!Abs, Times!AsI64
<1> QED
  BY <1>3, <1>4, <1>5 DEF Times!Next

LEMMA TimesShown == Times!IInv => TimesKept
<1> SUFFICES ASSUME Times!IInv PROVE Times!TimesKept
  BY DEF TimesKept
<1>1. asked.atime \in Int /\ asked.mtime \in Int
  BY DEF Times!IInv
<1>2. file.atime = Times!Timeval(asked.atime) /\ file.mtime = Times!Timeval(asked.mtime)
  BY DEF Times!IInv
<1>3. Times!Near(asked.atime, file.atime) /\ Times!Near(asked.mtime, file.mtime)
  BY <1>1, <1>2, TimevalNear
<1>4. asked.atime <= asked.mtime => Times!Before(file.atime, file.mtime)
  BY <1>1, <1>2, TimevalKeepsOrder
<1> QED
  BY <1>3, <1>4 DEF Times!TimesKept, Times!IInv

\* For any finite times, any width of the integers and any length of a second: the file
\* keeps the last times set, to the microsecond and in their order, and no finite
\* time is refused (wasmoo_extern.rs:759-794).
THEOREM TimesAreKept == Times!Spec => []TimesKept
<1> QED
  BY TimesInit, TimesNext, TimesShown, PTL DEF Times!Spec

--------------------------------------------------------------------------------
(* Ways through the tree (PathNatives).                                       *)

\* A path of the tree is walked name by name.
Walked ==
  \A p \in Called :
    /\ Len(p.names) \in Nat \ {0}
    /\ \A i \in 1..Len(p.names) : p.names[i] \in Name
    /\ Paths!Walk(p) \in [0..Len(p.names) -> Place \cup {None}]
    /\ Paths!Walk(p)[0] = Paths!Start(p)
    /\ \A i \in 1..Len(p.names) :
         Paths!Walk(p)[i] = Paths!Enter(Paths!Walk(p)[i - 1], p.names[i])

LEMMA WalkSteps == Paths!TreeOK => Walked
<1> SUFFICES ASSUME Paths!TreeOK, NEW p \in Called
             PROVE  /\ Len(p.names) \in Nat \ {0}
                    /\ \A i \in 1..Len(p.names) : p.names[i] \in Name
                    /\ Paths!Walk(p) \in [0..Len(p.names) -> Place \cup {None}]
                    /\ Paths!Walk(p)[0] = Paths!Start(p)
                    /\ \A i \in 1..Len(p.names) :
                         Paths!Walk(p)[i] = Paths!Enter(Paths!Walk(p)[i - 1], p.names[i])
  BY DEF Walked
<1> DEFINE N == Len(p.names)
           X == Place \cup {None}
           h == [q \in (1..N) \X X |-> Paths!Enter(q[2], p.names[q[1]])]
<1>1. p.names \in Seq(Name) /\ p.names # << >> /\ p.abs \in BOOLEAN
  BY NativesAssumption DEF Paths!PathNativesAssumption, Paths!Paths
<1>2. N \in Nat \ {0} /\ \A i \in 1..N : p.names[i] \in Name
  BY <1>1
<1>3. Paths!Start(p) \in X
  BY NativesAssumption DEF Paths!PathNativesAssumption, Paths!Start, Paths!TreeOK
<1>4. \A n \in X, x \in Name : Paths!Enter(n, x) \in X
  BY DEF Paths!Enter, Paths!TreeOK
<1>5. h \in [(1..N) \X X -> X]
  BY <1>2, <1>4
<1>6. PICK f \in [0..N -> X] : f[0] = Paths!Start(p) /\ \A i \in 1..N : f[i] = h[<<i, f[i - 1]>>]
  <2> PICK M, Y, b, g : M = N /\ Y = X /\ b = Paths!Start(p) /\ g = h
    OBVIOUS
  <2> HIDE DEF h, X, N
  <2>1. M \in Nat /\ b \in Y /\ g \in [(1..M) \X Y -> Y]
    BY <1>2, <1>3, <1>5
  <2>2. \E f \in [0..M -> Y] : GoesBy(f, M, b, g)
    BY <2>1, RecursionExists
  <2> QED
    BY <2>2 DEF GoesBy
<1>7. ASSUME NEW i \in 1..N PROVE f[i] = Paths!Enter(f[i - 1], p.names[i])
  <2>1. f[i - 1] \in X
    BY <1>2
  <2>2. h[<<i, f[i - 1]>>] = Paths!Enter(f[i - 1], p.names[i])
    BY <2>1
  <2> QED
    BY <1>6, <2>2
<1>9. f = [i \in 0..N |-> IF i = 0 THEN Paths!Start(p) ELSE Paths!Enter(f[i - 1], p.names[i])]
  <2> HIDE DEF h, X
  <2> QED
    BY <1>2, <1>6, <1>7
<1>10. Paths!Walk(p) = [i \in 0..N |-> IF i = 0 THEN Paths!Start(p)
                                       ELSE Paths!Enter(Paths!Walk(p)[i - 1], p.names[i])]
  BY <1>9 DEF Paths!Walk
<1>11. ASSUME NEW i \in 0..N PROVE Paths!Walk(p)[i] \in X
  <2> DEFINE S == {j \in 0..N : Paths!Walk(p)[j] \in X}
  <2>1. 0 \in S
    BY <1>2, <1>3, <1>10
  <2>2. ASSUME NEW j \in 1..N, j - 1 \in S PROVE j \in S
    <3>1. Paths!Walk(p)[j] = Paths!Enter(Paths!Walk(p)[j - 1], p.names[j])
      BY <1>2, <1>10
    <3>2. Paths!Walk(p)[j - 1] \in X /\ p.names[j] \in Name
      BY <1>2, <2>2
    <3>3. Paths!Enter(Paths!Walk(p)[j - 1], p.names[j]) \in X
      <4> HIDE DEF X
      <4> QED
        BY <1>4, <3>2
    <3> QED
      BY <1>2, <3>1, <3>3
  <2>3. 0..N \subseteq S
    <3> HIDE DEF S, N
    <3> QED
      BY <1>2, <2>1, <2>2, UpTo
  <2> QED
    BY <2>3
<1>12. Paths!Walk(p) \in [0..N -> X]
  BY <1>10, <1>11
<1>13. Paths!Walk(p)[0] = Paths!Start(p)
  BY <1>2, <1>10
<1>14. ASSUME NEW i \in 1..N PROVE Paths!Walk(p)[i] = Paths!Enter(Paths!Walk(p)[i - 1], p.names[i])
  BY <1>2, <1>10
<1> QED
  BY <1>2, <1>12, <1>13, <1>14

\* It is walked the same while every name on the way leads where it did.
LEMMA WalkKept ==
  ASSUME Paths!TreeOK, (Paths!TreeOK)', NEW p \in Called, NEW M \in 0..Len(p.names),
         Paths!Start(p)' = Paths!Start(p),
         \A i \in 1..M : \A n : n = Paths!Walk(p)[i - 1] =>
            Paths!Enter(n, p.names[i])' = Paths!Walk(p)[i]
  PROVE  \A i \in 0..M : (Paths!Walk(p)')[i] = Paths!Walk(p)[i]
<1> DEFINE S == {i \in 0..M : (Paths!Walk(p)')[i] = Paths!Walk(p)[i]}
<1>1. Walked /\ Walked'
  <2>1. (Paths!TreeOK)' => Walked'
    BY WalkSteps, PTL
  <2> QED
    BY <2>1, WalkSteps
<1>2. M \in Nat /\ 1..M \subseteq 1..Len(p.names)
  BY <1>1 DEF Walked
<1>3. 0 \in S
  BY <1>1, <1>2 DEF Walked
<1>4. ASSUME NEW i \in 1..M, i - 1 \in S PROVE i \in S
  <2>1. (Paths!Walk(p)')[i] = Paths!Enter((Paths!Walk(p))[i - 1], p.names[i])'
    BY <1>1, <1>2 DEF Walked
  <2>2. PICK n : n = Paths!Walk(p)[i - 1]
    OBVIOUS
  <2>3. (Paths!Walk(p)')[i - 1] = n
    BY <1>4, <2>2
  <2>4. (Paths!Walk(p)')[i] = Paths!Enter(n, p.names[i])'
    BY <2>1, <2>3 DEF Paths!Enter
  <2> QED
    BY <1>2, <2>2, <2>4
<1>5. 0..M \subseteq S
  <2> HIDE DEF S
  <2> QED
    BY <1>2, <1>3, <1>4, UpTo
<1> QED
  BY <1>5

\* A way that leads somewhere leads there through directories.
LEMMA WayOfDirectories ==
  ASSUME Paths!TreeOK, NEW p \in Called, NEW M \in 0..Len(p.names), Paths!Walk(p)[M] # None
  PROVE  /\ Paths!Walk(p)[M] \in Place
         /\ \A i \in 1..M :
               /\ Paths!Walk(p)[i - 1] \in Place
               /\ kind[Paths!Walk(p)[i - 1]] = "dir"
               /\ "x" \in mode[Paths!Walk(p)[i - 1]]
               /\ child[Paths!Walk(p)[i - 1]][p.names[i]] = Paths!Walk(p)[i]
               /\ Paths!Walk(p)[i] \in Place
               /\ p.names[i] \in Name
<1> DEFINE w == Paths!Walk(p)
           Fine(i) == /\ w[i - 1] \in Place
                      /\ kind[w[i - 1]] = "dir"
                      /\ "x" \in mode[w[i - 1]]
                      /\ child[w[i - 1]][p.names[i]] = w[i]
                      /\ w[i] \in Place
                      /\ p.names[i] \in Name
           S == {j \in 0..M : w[j] # None => \A i \in 1..j : Fine(i)}
<1>1. Walked
  BY WalkSteps
<1>2. /\ M \in Nat /\ 1..M \subseteq 1..Len(p.names) /\ w \in [0..Len(p.names) -> Place \cup {None}]
      /\ \A i \in 1..M : p.names[i] \in Name /\ w[i] = Paths!Enter(w[i - 1], p.names[i])
  BY <1>1 DEF Walked
<1> HIDE DEF w
<1>3. 0 \in S
  BY <1>2
<1>4. ASSUME NEW j \in 1..M, j - 1 \in S PROVE j \in S
  <2> SUFFICES ASSUME w[j] # None PROVE \A i \in 1..j : Fine(i)
    BY <1>2
  <2>1. /\ w[j - 1] # None /\ kind[w[j - 1]] = "dir" /\ "x" \in mode[w[j - 1]]
        /\ w[j] = child[w[j - 1]][p.names[j]]
    BY <1>2 DEF Paths!Enter
  <2>2. w[j - 1] \in Place /\ w[j] \in Place
    BY <1>2, <2>1
  <2>3. Fine(j)
    BY <1>2, <2>1, <2>2
  <2>4. \A i \in 1..(j - 1) : Fine(i)
    BY <1>4, <2>1
  <2> HIDE DEF Fine
  <2> QED
    BY <1>2, <2>3, <2>4
<1>5. 0..M \subseteq S
  <2> HIDE DEF S
  <2> QED
    BY <1>2, <1>3, <1>4, UpTo
<1>6. w[M] # None /\ M \in S
  BY <1>2, <1>5 DEF w
<1>7. w[M] \in Place
  BY <1>2, <1>6
<1>8. \A i \in 1..M : Fine(i)
  BY <1>6
<1> QED
  BY <1>7, <1>8 DEF w

\* Where a path and its parent lead.
LEMMA Ends ==
  ASSUME Paths!TreeOK, NEW p \in Called
  PROVE  /\ Len(p.names) \in Nat \ {0} /\ Len(p.names) - 1 \in Nat
         /\ Paths!Last(p.names) = p.names[Len(p.names)] /\ Paths!Last(p.names) \in Name
         /\ Paths!At(p) \in Place \cup {None}
         /\ Paths!Parent(p) \in Place \cup {None}
         /\ Paths!At(p) = Paths!Enter(Paths!Parent(p), Paths!Last(p.names))
<1>1. Walked
  BY WalkSteps
<1>2. Paths!Last(p.names) = p.names[Len(p.names)]
  BY DEF Paths!Last
<1> QED
  BY <1>1, <1>2 DEF Walked, Paths!At, Paths!Parent

\* What is made at a path is in the tree, and nothing else is.
LEMMA PutTree ==
  ASSUME Paths!TreeOK, NEW p \in Called, NEW n \in Place, NEW k \in {"dir", "file"},
         NEW bits \in SUBSET Paths!Bits, Paths!Put(n, p, k, bits)
  PROVE  (Paths!TreeOK)'
<1>1. Paths!Parent(p) \in Place /\ Paths!Last(p.names) \in Name
  BY Ends DEF Paths!Put, Paths!Open
<1> QED
  BY <1>1 DEF Paths!Put, Paths!TreeOK

LEMMA DropTree ==
  ASSUME Paths!TreeOK, NEW p \in Called, Paths!Open(Paths!Parent(p)), Paths!At(p) # None,
         Paths!Drop(p)
  PROVE  (Paths!TreeOK)'
<1>1. Paths!Parent(p) \in Place /\ Paths!Last(p.names) \in Name /\ Paths!At(p) \in Place
  BY Ends DEF Paths!Open
<1> QED
  BY <1>1 DEF Paths!Drop, Paths!TreeOK, Paths!Bits

--------------------------------------------------------------------------------
(* Where a way to a directory leads after other steps.                        *)

LEMMA WayKept ==
  ASSUME Paths!TreeOK, (Paths!TreeOK)', NEW p \in Called, NEW M \in 0..Len(p.names),
         Paths!Walk(p)[M] # None, Paths!Start(p)' = Paths!Start(p),
         \A i \in 1..M : \A m : m = Paths!Walk(p)[i - 1] =>
            /\ kind'[m] = "dir" /\ "x" \in mode'[m]
            /\ child'[m][p.names[i]] = child[m][p.names[i]]
  PROVE  \A i \in 0..M : (Paths!Walk(p)')[i] = Paths!Walk(p)[i]
<1> DEFINE w == Paths!Walk(p)
<1>1. ASSUME NEW i \in 1..M, NEW m, m = w[i - 1] PROVE Paths!Enter(m, p.names[i])' = w[i]
  <2>1. m \in Place /\ child[m][p.names[i]] = w[i] /\ m # None
    BY <1>1, WayOfDirectories, NativesAssumption DEF Paths!PathNativesAssumption
  <2>2. kind'[m] = "dir" /\ "x" \in mode'[m] /\ child'[m][p.names[i]] = w[i]
    BY <1>1, <2>1
  <2> QED
    BY <2>1, <2>2 DEF Paths!Enter
<1> HIDE DEF w
<1> QED
  BY <1>1, WalkKept DEF w

\* A new entry.
LEMMA PutKeepsWay ==
  ASSUME Paths!TreeOK, NEW p \in Called, NEW M \in 0..Len(p.names), Paths!Walk(p)[M] # None,
         NEW q \in Called, NEW n \in Place, NEW k \in {"dir", "file"}, NEW bits \in SUBSET Paths!Bits,
         Paths!Put(n, q, k, bits)
  PROVE  \A i \in 0..M : (Paths!Walk(p)')[i] = Paths!Walk(p)[i] /\ Paths!Walk(p)[i] # n
<1> DEFINE w == Paths!Walk(p)
<1>1. (Paths!TreeOK)'
  BY PutTree
<1>2. \A i \in 1..M : /\ w[i - 1] \in Place /\ kind[w[i - 1]] = "dir" /\ "x" \in mode[w[i - 1]]
                      /\ child[w[i - 1]][p.names[i]] = w[i] /\ w[i] \in Place /\ p.names[i] \in Name
  BY WayOfDirectories
<1>3. w[0] = Paths!Start(p) /\ M \in Nat
  BY WalkSteps DEF Walked
<1>4. /\ Paths!At(q) = None /\ ~Paths!Linked(n) /\ n # cwd /\ n # Root
      /\ kind' = [kind EXCEPT ![n] = k]
      /\ child' = [child EXCEPT ![Paths!Parent(q)][Paths!Last(q.names)] = n]
      /\ mode' = [mode EXCEPT ![n] = bits]
      /\ cwd' = cwd
      /\ Paths!Open(Paths!Parent(q))
  BY DEF Paths!Put, Paths!Free, Paths!Linked
<1>5. /\ Paths!Parent(q) \in Place /\ Paths!Last(q.names) \in Name
      /\ child[Paths!Parent(q)][Paths!Last(q.names)] = None
  BY <1>4, Ends DEF Paths!Open, Paths!Enter
<1>6. Paths!Start(p)' = Paths!Start(p) /\ w[0] # n
  BY <1>3, <1>4 DEF Paths!Start
<1>7. \A i \in 1..M : w[i] # n
  BY <1>2, <1>4 DEF Paths!Linked
<1>8. \A i \in 0..M : w[i] # n
  BY <1>3, <1>6, <1>7
<1>9. ASSUME NEW i \in 1..M, NEW m, m = w[i - 1]
      PROVE  kind'[m] = "dir" /\ "x" \in mode'[m] /\ child'[m][p.names[i]] = child[m][p.names[i]]
  <2>1. m \in Place /\ m # n /\ kind[m] = "dir" /\ "x" \in mode[m] /\ child[m][p.names[i]] # None
    <3>1. None \notin Place
      BY NativesAssumption DEF Paths!PathNativesAssumption
    <3>2. i - 1 \in 0..M
      BY <1>3
    <3> QED
      BY <1>2, <1>8, <1>9, <3>1, <3>2
  <2>2. kind'[m] = "dir" /\ "x" \in mode'[m]
    BY <1>4, <2>1 DEF Paths!TreeOK
  <2>3. child'[m][p.names[i]] = child[m][p.names[i]]
    BY <1>2, <1>4, <1>5, <2>1 DEF Paths!TreeOK
  <2> QED
    BY <2>2, <2>3
<1> HIDE DEF w
<1>10. \A i \in 0..M : (Paths!Walk(p)')[i] = Paths!Walk(p)[i]
  BY <1>1, <1>6, <1>9, WayKept DEF w
<1> QED
  BY <1>8, <1>10 DEF w

\* A directory that is at its path after a step as before, with its mode.
Stays(p) ==
  LET n == Paths!At(p)
  IN  n \in Place /\ kind[n] = "dir" =>
        Paths!At(p)' = n /\ kind'[n] = "dir" /\ mode'[n] = mode[n]

\* A step that leaves directories, their modes, and the entries that lead to
\* directories alone.
LEMMA DirectoriesStay ==
  ASSUME Paths!TreeOK, (Paths!TreeOK)', NEW p \in Called, Paths!Start(p)' = Paths!Start(p),
         \A m \in Place : kind[m] = "dir" => kind'[m] = "dir" /\ mode'[m] = mode[m],
         \A m \in Place, x \in Name :
            child[m][x] \in Place /\ kind[child[m][x]] = "dir" => child'[m][x] = child[m][x]
  PROVE  Stays(p)
<1> DEFINE w == Paths!Walk(p)
           N == Len(p.names)
<1> SUFFICES ASSUME Paths!At(p) \in Place, kind[Paths!At(p)] = "dir"
             PROVE  /\ Paths!At(p)' = Paths!At(p) /\ kind'[Paths!At(p)] = "dir"
                    /\ mode'[Paths!At(p)] = mode[Paths!At(p)]
  BY DEF Stays
<1>1. N \in Nat /\ N \in 0..N /\ \A i \in 0..N : i # N => i + 1 \in 1..N /\ (i + 1) - 1 = i
  BY Ends
<1>2. w[N] # None /\ kind[w[N]] = "dir"
  BY NativesAssumption DEF Paths!PathNativesAssumption, Paths!At
<1>3. \A i \in 1..N : /\ w[i - 1] \in Place /\ kind[w[i - 1]] = "dir" /\ "x" \in mode[w[i - 1]]
                      /\ child[w[i - 1]][p.names[i]] = w[i] /\ w[i] \in Place /\ p.names[i] \in Name
  BY <1>1, <1>2, WayOfDirectories
<1>4. ASSUME NEW i \in 0..N PROVE kind[w[i]] = "dir"
  <2>1. CASE i = N
    BY <1>2, <2>1
  <2>2. CASE i # N
    BY <1>1, <1>3, <2>2
  <2> QED
    BY <2>1, <2>2
<1>5. ASSUME NEW i \in 1..N, NEW m, m = w[i - 1]
      PROVE  kind'[m] = "dir" /\ "x" \in mode'[m] /\ child'[m][p.names[i]] = child[m][p.names[i]]
  <2>1. /\ m \in Place /\ kind[m] = "dir" /\ "x" \in mode[m] /\ p.names[i] \in Name
        /\ child[m][p.names[i]] = w[i] /\ w[i] \in Place
    BY <1>3, <1>5
  <2>2. kind[w[i]] = "dir"
    BY <1>1, <1>4
  <2> QED
    BY <2>1, <2>2
<1>6. \A i \in 0..N : (Paths!Walk(p)')[i] = Paths!Walk(p)[i]
  <2> HIDE DEF w
  <2> QED
    BY <1>1, <1>2, <1>5, WayKept DEF w
<1> QED
  BY <1>1, <1>6 DEF Paths!At

--------------------------------------------------------------------------------
(* What the calls have seen.                                                  *)

LEMMA FactsType ==
  ASSUME Paths!TreeOK, NEW p \in Called
  PROVE  Paths!Facts(p) \in Paths!Fact
BY Ends DEF Paths!Facts, Paths!Fact, Paths!TreeOK, Paths!Bits

LEMMA Witnessed ==
  ASSUME Paths!IInv, Paths!Witness
  PROVE  /\ seen' \in [Run -> SUBSET Paths!Fact]
         /\ \A r \in Run : seen[r] \subseteq seen'[r]
         /\ \A r \in Run : Paths!Looking(r) => /\ call[r].path \in Called
                                             /\ Paths!Facts(call[r].path) \in seen'[r]
<1>1. ASSUME NEW r \in Run, Paths!Looking(r)
      PROVE  call[r].path \in Called
  BY <1>1 DEF Paths!IInv, Paths!Stage, Paths!Looking, Paths!Idle
<1>2. Paths!TreeOK /\ seen \in [Run -> SUBSET Paths!Fact]
  BY DEF Paths!IInv, Paths!TypeOK
<1>3. ASSUME NEW r \in Run, Paths!Looking(r)
      PROVE  Paths!Facts(call[r].path) \in Paths!Fact
  BY <1>1, <1>2, <1>3, FactsType
<1> QED
  BY <1>1, <1>2, <1>3 DEF Paths!Witness

\* A call that goes on as it was keeps what it has found out.
LEMMA CallKept ==
  ASSUME Paths!IInv, NEW r \in Run, call'[r] = call[r], seen[r] \subseteq seen'[r]
  PROVE  (Paths!Stage(r) /\ Paths!Granted(r) /\ Paths!LookTrue(r) /\ Paths!AnswerTrue(r))'
<1>1. Paths!Stage(r) /\ Paths!Granted(r) /\ Paths!LookTrue(r) /\ Paths!AnswerTrue(r)
  BY DEF Paths!IInv, Paths!LooksTrue, Paths!AccessTrue
<1>2. Paths!Stage(r)'
  BY <1>1 DEF Paths!Stage, Paths!Idle
<1>3. Paths!Granted(r)'
  BY <1>1 DEF Paths!Granted
<1>4. Paths!LookTrue(r)'
  BY <1>1 DEF Paths!LookTrue
<1>5. Paths!AnswerTrue(r)'
  BY <1>1 DEF Paths!AnswerTrue
<1> QED
  BY <1>2, <1>3, <1>4, <1>5

\* So does a mkdir whose directory is left alone.
LEMMA MadeKept ==
  ASSUME Paths!IInv, NEW r \in Run, call'[r] = call[r], moved[r] => moved'[r],
         call[r].left # << >> /\ ~moved'[r] => \A p \in Called : p = call[r].path => Stays(p)
  PROVE  Paths!Made(r)'
<1>1. PICK c, p : c = call[r] /\ c = call'[r] /\ p = c.path
  OBVIOUS
<1>2. /\ Paths!Made(r)
      /\ c.op # "none" => p \in Called
  BY <1>1 DEF Paths!IInv, Paths!Stage
<1>3. Paths!At(call[r].path) = Paths!At(p) /\ Paths!At(call[r].path)' = Paths!At(p)'
  BY <1>1 DEF Paths!At, Paths!Walk, Paths!Start
<1>4. ASSUME c.op = "mkdir", c.left = <<"permit">>
      PROVE  /\ c.made \in Place
             /\ ~moved'[r] => /\ Paths!At(p)' = c.made /\ kind'[c.made] = "dir"
                              /\ mode'[c.made] = Fresh
  <2>1. c.left # << >>
    BY <1>4
  <2>2. c.made \in Place /\ (~moved[r] => /\ Paths!At(p) = c.made /\ kind[c.made] = "dir"
                                             /\ mode[c.made] = Fresh)
    BY <1>1, <1>2, <1>3, <1>4 DEF Paths!Made
  <2> QED
    BY <1>1, <1>2, <1>4, <2>1, <2>2 DEF Stays
<1> QED
  BY <1>1, <1>3, <1>4 DEF Paths!Made

\* A path leads to its directory as long as only the modes of files change, or the
\* working directory does and the path is absolute.
LEMMA QuietStays ==
  ASSUME Paths!TreeOK, (Paths!TreeOK)', NEW p \in Called,
         kind' = kind, child' = child, p.abs \/ cwd' = cwd,
         \A n \in Place : kind[n] = "dir" => mode'[n] = mode[n]
  PROVE  Stays(p)
<1>1. Paths!Start(p)' = Paths!Start(p)
  BY DEF Paths!Start
<1> QED
  BY <1>1, DirectoriesStay

\* A native of one system call leaves the other calls what they had.
LEMMA OneStepKeeps ==
  ASSUME Paths!IInv, NEW r \in Run, Paths!OneStep(r), (Paths!TreeOK)',
         moved' \in [Run -> BOOLEAN], \A s \in Run : moved[s] => moved'[s],
         \A s \in Run, p \in Called :
            s # r /\ call[s].left # << >> /\ ~moved'[s] /\ p = call[s].path => Stays(p)
  PROVE  (Paths!IInv)'
<1>1. /\ seen' \in [Run -> SUBSET Paths!Fact]
      /\ \A s \in Run : call'[s] = call[s] /\ seen[s] \subseteq seen'[s]
  BY Witnessed DEF Paths!OneStep
<1>2. (Paths!TypeOK)'
  BY <1>1 DEF Paths!IInv, Paths!TypeOK, Paths!OneStep
<1>3. call[r].left = << >>
  BY DEF Paths!OneStep, Paths!Idle
<1>4. ASSUME NEW s \in Run
      PROVE  (Paths!Stage(s) /\ Paths!Granted(s) /\ Paths!LookTrue(s) /\ Paths!AnswerTrue(s) /\ Paths!Made(s))'
  <2>1. call'[s] = call[s] /\ seen[s] \subseteq seen'[s]
    BY <1>1
  <2>2. Paths!Made(s)'
    BY <1>3, <2>1, MadeKept
  <2> QED
    BY <2>1, <2>2, CallKept
<1> QED
  BY <1>2, <1>4 DEF Paths!IInv, Paths!LooksTrue, Paths!AccessTrue

LEMMA RmdirStep ==
  ASSUME Paths!IInv, NEW r \in Run, NEW p \in Called, Paths!Rmdir(r, p)
  PROVE  (Paths!IInv)'
<1>1. Paths!TypeOK
  BY DEF Paths!IInv
<1>2. (Paths!TreeOK)'
  BY <1>1, DropTree DEF Paths!Rmdir, Paths!TypeOK
<1>3. moved' = [s \in Run |-> moved[s] \/ (s # r /\ call[s].left # << >> /\ TRUE)]
  BY DEF Paths!Rmdir, Paths!Moves
<1>4. /\ moved' \in [Run -> BOOLEAN]
      /\ \A s \in Run : moved[s] => moved'[s]
      /\ \A s \in Run : s # r /\ call[s].left # << >> => moved'[s]
  BY <1>1, <1>3 DEF Paths!TypeOK
<1>5. Paths!OneStep(r)
  BY DEF Paths!Rmdir
<1> QED
  BY <1>2, <1>4, <1>5, OneStepKeeps

LEMMA UnlinkStep ==
  ASSUME Paths!IInv, NEW r \in Run, NEW q \in Called, Paths!Unlink(r, q)
  PROVE  (Paths!IInv)'
<1>1. Paths!TypeOK /\ Paths!TreeOK
  BY DEF Paths!IInv, Paths!TypeOK
<1>2. /\ Paths!OneStep(r)
      /\ Paths!Open(Paths!Parent(q)) /\ Paths!At(q) # None /\ kind[Paths!At(q)] = "file"
      /\ Paths!Drop(q)
      /\ moved' = moved
  BY DEF Paths!Unlink
<1>3. (Paths!TreeOK)'
  BY <1>1, <1>2, DropTree
<1>4. ASSUME NEW p \in Called PROVE Stays(p)
  <2>1. Paths!Start(p)' = Paths!Start(p)
    BY <1>2 DEF Paths!Start, Paths!Drop
  <2>2. /\ Paths!Parent(q) \in Place /\ Paths!Last(q.names) \in Name /\ Paths!At(q) \in Place
        /\ child[Paths!Parent(q)][Paths!Last(q.names)] = Paths!At(q)
    BY <1>1, <1>2, Ends DEF Paths!Open, Paths!Enter
  <2>3. \A m \in Place : kind[m] = "dir" => kind'[m] = "dir" /\ mode'[m] = mode[m]
    BY <1>1, <1>2, <2>2 DEF Paths!Drop, Paths!TreeOK
  <2>4. \A m \in Place, x \in Name :
           child[m][x] \in Place /\ kind[child[m][x]] = "dir" => child'[m][x] = child[m][x]
    BY <1>1, <1>2, <2>2 DEF Paths!Drop, Paths!TreeOK
  <2> QED
    BY <1>1, <1>3, <2>1, <2>3, <2>4, DirectoriesStay
<1> QED
  BY <1>1, <1>2, <1>3, <1>4, OneStepKeeps DEF Paths!TypeOK

\* A renamed file takes no directory from its path; of a renamed directory every
\* other call is told.
LEMMA RenameStep ==
  ASSUME Paths!IInv, NEW r \in Run, NEW q \in Called, NEW o \in Called, Paths!Rename(r, q, o)
  PROVE  (Paths!IInv)'
<1> DEFINE n == Paths!At(q)
           over == Paths!At(o)
           from == Paths!Parent(q)
           to == Paths!Parent(o)
           x == Paths!Last(q.names)
           y == Paths!Last(o.names)
<1>1. Paths!TypeOK /\ Paths!TreeOK
  BY DEF Paths!IInv, Paths!TypeOK
<1>2. /\ Paths!OneStep(r)
      /\ n # None
      /\ over # None => kind[over] = kind[n]
      /\ child' = [child EXCEPT ![from][x] = None, ![to][y] = n]
      /\ kind' = IF over = None THEN kind ELSE [kind EXCEPT ![over] = "dir"]
      /\ mode' = IF over = None THEN mode ELSE [mode EXCEPT ![over] = Paths!Bits]
      /\ cwd' = cwd
  BY DEF Paths!Rename
<1>3. IF kind[n] = "dir"
      THEN moved' = [s \in Run |-> moved[s] \/ (s # r /\ call[s].left # << >> /\ TRUE)]
      ELSE moved' = moved
  BY DEF Paths!Rename, Paths!Moves
<1>4. /\ from \in Place /\ to \in Place /\ x \in Name /\ y \in Name
      /\ n \in Place /\ over \in Place \cup {None}
      /\ child[from][x] = n /\ child[to][y] = over
  <2>1. Paths!Open(from) /\ Paths!Open(to)
    BY DEF Paths!Rename
  <2> QED
    BY <1>1, <1>2, <2>1, Ends DEF Paths!Open, Paths!Enter
<1> HIDE DEF n, over, from, to, x, y
<1>5. (Paths!TreeOK)'
  BY <1>1, <1>2, <1>4 DEF Paths!TreeOK, Paths!Bits
<1>6. /\ moved' \in [Run -> BOOLEAN]
      /\ \A s \in Run : moved[s] => moved'[s]
      /\ kind[n] = "dir" => \A s \in Run : s # r /\ call[s].left # << >> => moved'[s]
  <2>1. CASE kind[n] = "dir"
    BY <1>1, <1>3, <2>1 DEF Paths!TypeOK
  <2>2. CASE kind[n] # "dir"
    BY <1>1, <1>3, <2>2 DEF Paths!TypeOK
  <2> QED
    BY <2>1, <2>2
<1>7. ASSUME NEW s \in Run, NEW p \in Called,
             s # r, call[s].left # << >>, ~moved'[s], p = call[s].path
      PROVE  Stays(p)
  <2>1. kind[n] # "dir" /\ (over # None => kind[over] # "dir")
    BY <1>2, <1>6, <1>7
  <2>2. Paths!Start(p)' = Paths!Start(p)
    BY <1>2 DEF Paths!Start
  <2>3. \A m \in Place : kind[m] = "dir" => kind'[m] = "dir" /\ mode'[m] = mode[m]
    BY <1>1, <1>2, <1>4, <2>1 DEF Paths!TreeOK
  <2>4. \A m \in Place, z \in Name :
           child[m][z] \in Place /\ kind[child[m][z]] = "dir" => child'[m][z] = child[m][z]
    <3>1. None \notin Place
      BY NativesAssumption DEF Paths!PathNativesAssumption
    <3> QED
      BY <1>1, <1>2, <1>4, <2>1, <3>1 DEF Paths!TreeOK
  <2> QED
    BY <1>1, <1>5, <2>2, <2>3, <2>4, DirectoriesStay
<1> QED
  BY <1>2, <1>5, <1>6, <1>7, OneStepKeeps

\* A new entry is at no path that led somewhere.
LEMMA PutStays ==
  ASSUME Paths!TreeOK, NEW q \in Called, NEW n \in Place, NEW k \in {"dir", "file"},
         NEW bits \in SUBSET Paths!Bits, Paths!Put(n, q, k, bits), NEW p \in Called
  PROVE  Stays(p)
<1> SUFFICES ASSUME Paths!At(p) \in Place, kind[Paths!At(p)] = "dir"
             PROVE  /\ Paths!At(p)' = Paths!At(p) /\ kind'[Paths!At(p)] = "dir"
                    /\ mode'[Paths!At(p)] = mode[Paths!At(p)]
  BY DEF Stays
<1>1. Len(p.names) \in 0..Len(p.names)
  BY Ends
<1>2. Paths!Walk(p)[Len(p.names)] # None
  BY NativesAssumption DEF Paths!PathNativesAssumption, Paths!At
<1>3. \A i \in 0..Len(p.names) : (Paths!Walk(p)')[i] = Paths!Walk(p)[i] /\ Paths!Walk(p)[i] # n
  BY <1>1, <1>2, PutKeepsWay
<1>4. Paths!At(p)' = Paths!At(p) /\ Paths!At(p) # n
  BY <1>1, <1>3 DEF Paths!At
<1> QED
  BY <1>4 DEF Paths!Put, Paths!TreeOK

LEMMA CreatStep ==
  ASSUME Paths!IInv, NEW r \in Run, NEW q \in Called, NEW bits \in Modes, Paths!Creat(r, q, bits)
  PROVE  (Paths!IInv)'
<1>1. Paths!TypeOK /\ Paths!TreeOK
  BY DEF Paths!IInv, Paths!TypeOK
<1>2. bits \in SUBSET Paths!Bits
  BY NativesAssumption DEF Paths!PathNativesAssumption
<1>3. Paths!OneStep(r) /\ moved' = moved
  BY DEF Paths!Creat
<1>4. PICK n \in Place : Paths!Put(n, q, "file", bits)
  BY DEF Paths!Creat
<1>5. (Paths!TreeOK)'
  BY <1>1, <1>2, <1>4, PutTree
<1>6. ASSUME NEW p \in Called PROVE Stays(p)
  BY <1>1, <1>2, <1>4, PutStays
<1> QED
  BY <1>1, <1>3, <1>5, <1>6, OneStepKeeps DEF Paths!TypeOK

LEMMA ChdirStep ==
  ASSUME Paths!IInv, NEW r \in Run, NEW q \in Called, Paths!Chdir(r, q)
  PROVE  (Paths!IInv)'
<1>1. Paths!TypeOK /\ Paths!TreeOK
  BY DEF Paths!IInv, Paths!TypeOK
<1>2. /\ Paths!OneStep(r) /\ Paths!At(q) # None /\ cwd' = Paths!At(q)
      /\ kind' = kind /\ child' = child /\ mode' = mode
      /\ moved' = [s \in Run |-> moved[s] \/ (s # r /\ call[s].left # << >> /\ ~call[s].path.abs)]
  BY DEF Paths!Chdir, Paths!Moves
<1>3. (Paths!TreeOK)'
  BY <1>1, <1>2, Ends DEF Paths!TreeOK
<1>4. /\ moved' \in [Run -> BOOLEAN]
      /\ \A s \in Run : moved[s] => moved'[s]
      /\ \A s \in Run : s # r /\ call[s].left # << >> /\ ~moved'[s] => call[s].path.abs
  BY <1>1, <1>2 DEF Paths!TypeOK
<1>5. ASSUME NEW s \in Run, NEW p \in Called,
             s # r, call[s].left # << >>, ~moved'[s], p = call[s].path
      PROVE  Stays(p)
  <2>1. p.abs
    BY <1>4, <1>5
  <2> QED
    BY <1>1, <1>2, <1>3, <2>1, QuietStays
<1> QED
  BY <1>2, <1>3, <1>4, <1>5, OneStepKeeps

LEMMA ChmodStep ==
  ASSUME Paths!IInv, NEW r \in Run, NEW q \in Called, NEW bits \in Modes, Paths!Chmod(r, q, bits)
  PROVE  (Paths!IInv)'
<1>1. Paths!TypeOK /\ Paths!TreeOK
  BY DEF Paths!IInv, Paths!TypeOK
<1>2. /\ Paths!OneStep(r) /\ Paths!At(q) # None /\ mode' = [mode EXCEPT ![Paths!At(q)] = bits]
      /\ kind' = kind /\ child' = child /\ cwd' = cwd
      /\ moved' = [s \in Run |-> moved[s] \/ (s # r /\ call[s].left # << >> /\ kind[Paths!At(q)] = "dir")]
  BY DEF Paths!Chmod, Paths!Moves
<1>3. Paths!At(q) \in Place /\ bits \in SUBSET Paths!Bits
  BY <1>1, <1>2, Ends, NativesAssumption DEF Paths!PathNativesAssumption
<1>4. (Paths!TreeOK)'
  BY <1>1, <1>2, <1>3 DEF Paths!TreeOK
<1>5. /\ moved' \in [Run -> BOOLEAN]
      /\ \A s \in Run : moved[s] => moved'[s]
      /\ \A s \in Run : s # r /\ call[s].left # << >> /\ ~moved'[s] => kind[Paths!At(q)] # "dir"
  BY <1>1, <1>2 DEF Paths!TypeOK
<1>6. ASSUME NEW s \in Run, NEW p \in Called,
             s # r, call[s].left # << >>, ~moved'[s], p = call[s].path
      PROVE  Stays(p)
  <2>1. \A n \in Place : kind[n] = "dir" => mode'[n] = mode[n]
    BY <1>1, <1>2, <1>3, <1>5, <1>6 DEF Paths!TreeOK
  <2> QED
    BY <1>1, <1>2, <1>4, <2>1, QuietStays
<1> QED
  BY <1>2, <1>4, <1>5, <1>6, OneStepKeeps

--------------------------------------------------------------------------------
(* Natives of several system calls.                                           *)

LEMMA CallStepKeeps ==
  ASSUME Paths!IInv, NEW r \in Run, (Paths!TypeOK)',
         \A s \in Run \ {r} : call'[s] = call[s] /\ seen[s] \subseteq seen'[s] /\ (moved[s] => moved'[s]),
         \A s \in Run \ {r}, p \in Called :
            call[s].left # << >> /\ ~moved'[s] /\ p = call[s].path => Stays(p),
         (Paths!Stage(r) /\ Paths!Granted(r) /\ Paths!LookTrue(r) /\ Paths!AnswerTrue(r) /\ Paths!Made(r))'
  PROVE  (Paths!IInv)'
<1>1. ASSUME NEW s \in Run
      PROVE  (Paths!Stage(s) /\ Paths!Granted(s) /\ Paths!LookTrue(s) /\ Paths!AnswerTrue(s) /\ Paths!Made(s))'
  <2>1. CASE s = r
    BY <2>1
  <2>2. CASE s # r
    <3>1. Paths!Made(s)'
      BY <2>2, MadeKept
    <3> QED
      BY <2>2, <3>1, CallKept
  <2> QED
    BY <2>1, <2>2
<1> QED
  BY <1>1 DEF Paths!IInv, Paths!LooksTrue, Paths!AccessTrue

LEMMA TailSet ==
  ASSUME NEW S, NEW q \in Seq(S), q # << >>
  PROVE  /\ Head(q) \in S /\ Tail(q) \in Seq(S)
         /\ Paths!ToSet(q) = {Head(q)} \cup Paths!ToSet(Tail(q))
         /\ Len(q) = 1 <=> Tail(q) = << >>
<1>1. Head(q) = q[1] /\ 1 \in DOMAIN q /\ Tail(q) \in Seq(S)
  OBVIOUS
<1>2. DOMAIN Tail(q) = 1..(Len(q) - 1) /\ \A i \in DOMAIN Tail(q) : Tail(q)[i] = q[i + 1]
  OBVIOUS
<1>3. \A i \in DOMAIN q : i # 1 => i - 1 \in DOMAIN Tail(q) /\ q[i] = Tail(q)[i - 1]
  BY <1>2
<1>4. \A i \in DOMAIN Tail(q) : i + 1 \in DOMAIN q
  BY <1>2
<1>5. Paths!ToSet(q) = {Head(q)} \cup Paths!ToSet(Tail(q))
  <2> DEFINE t == Tail(q)
  <2>1. \A i \in DOMAIN t : i + 1 \in DOMAIN q /\ t[i] = q[i + 1]
    BY <1>2, <1>4
  <2>2. \A i \in DOMAIN q : i # 1 => i - 1 \in DOMAIN t /\ q[i] = t[i - 1]
    BY <1>3
  <2> HIDE DEF t
  <2>3. {t[i] : i \in DOMAIN t} \subseteq {q[i] : i \in DOMAIN q}
    BY <2>1
  <2>4. {q[i] : i \in DOMAIN q} \subseteq {q[1]} \cup {t[i] : i \in DOMAIN t}
    BY <2>2
  <2>5. {q[i] : i \in DOMAIN q} = {q[1]} \cup {t[i] : i \in DOMAIN t}
    BY <1>1, <2>3, <2>4
  <2> QED
    BY <1>1, <2>5 DEF Paths!ToSet, t
<1>6. Len(q) = 1 <=> Tail(q) = << >>
  <2>1. Len(q) \in Nat \ {0} /\ Len(Tail(q)) = Len(q) - 1
    OBVIOUS
  <2>2. Tail(q) = << >> <=> Len(Tail(q)) = 0
    <3> DEFINE t == Tail(q)
    <3>1. t \in Seq(S)
      BY <1>1
    <3> HIDE DEF t
    <3>2. t = << >> <=> Len(t) = 0
      BY <3>1
    <3> QED
      BY <3>2 DEF t
  <2> QED
    BY <2>1, <2>2
<1> QED
  BY <1>1, <1>5, <1>6

LEMMA ConcatSet ==
  ASSUME NEW S, NEW q \in Seq(S), NEW b \in S, NEW bits
  PROVE  /\ q \o Paths!If(b, bits) \in Seq(S)
         /\ Paths!ToSet(q \o Paths!If(b, bits)) = Paths!ToSet(q) \cup ({b} \cap bits)
<1>1. CASE b \in bits
  <2>1. q \o Paths!If(b, bits) = Append(q, b)
    BY <1>1 DEF Paths!If
  <2>2. Append(q, b) \in Seq(S) /\ Len(Append(q, b)) = Len(q) + 1 /\ DOMAIN q = 1..Len(q)
        /\ DOMAIN Append(q, b) = 1..(Len(q) + 1) /\ Append(q, b)[Len(q) + 1] = b
        /\ \A i \in DOMAIN q : Append(q, b)[i] = q[i]
    OBVIOUS
  <2>3. Len(q) \in Nat
    OBVIOUS
  <2>4. \A i \in 1..(Len(q) + 1) : i \in 1..Len(q) \/ i = Len(q) + 1
    BY <2>3
  <2>5. Paths!ToSet(Append(q, b)) = Paths!ToSet(q) \cup {b}
    BY <2>2, <2>3, <2>4 DEF Paths!ToSet
  <2> QED
    BY <1>1, <2>1, <2>2, <2>5
<1>2. CASE b \notin bits
  BY <1>2 DEF Paths!If
<1> QED
  BY <1>1, <1>2

\* access asks for each permission in its argument.
LEMMA AccessLookups ==
  ASSUME NEW bits \in Checks
  PROVE  /\ Paths!Lookups("access", bits) \in Seq(Paths!Lookup)
         /\ Paths!ToSet(Paths!Lookups("access", bits)) = bits
         /\ Paths!Lookups("access", bits) # << >>
<1> DEFINE L == Paths!Lookup
           q1 == Paths!If("f", bits)
           q2 == q1 \o Paths!If("r", bits)
           q3 == q2 \o Paths!If("w", bits)
           q4 == q3 \o Paths!If("x", bits)
<1>1. "f" \in L /\ "r" \in L /\ "w" \in L /\ "x" \in L
  BY DEF Paths!Lookup
<1>2. q1 \in Seq(L) /\ Paths!ToSet(q1) = {"f"} \cap bits
  BY <1>1 DEF Paths!If, Paths!ToSet
<1> HIDE DEF L, q1
<1>3. q2 \in Seq(L) /\ Paths!ToSet(q2) = Paths!ToSet(q1) \cup ({"r"} \cap bits)
  BY <1>1, <1>2, ConcatSet
<1> HIDE DEF q2
<1>4. q3 \in Seq(L) /\ Paths!ToSet(q3) = Paths!ToSet(q2) \cup ({"w"} \cap bits)
  BY <1>1, <1>3, ConcatSet
<1> HIDE DEF q3
<1>5. q4 \in Seq(L) /\ Paths!ToSet(q4) = Paths!ToSet(q3) \cup ({"x"} \cap bits)
  BY <1>1, <1>4, ConcatSet
<1>6. Paths!Lookups("access", bits) = q4
  BY DEF Paths!Lookups, q1, q2, q3
<1> HIDE DEF q4
<1>7. bits \subseteq {"f", "r", "w", "x"} /\ bits # {}
  BY NativesAssumption DEF Paths!PathNativesAssumption, Paths!Bits
<1>8. Paths!ToSet(q4) = bits
  BY <1>2, <1>3, <1>4, <1>5, <1>7
<1>9. q4 # << >>
  BY <1>7, <1>8 DEF Paths!ToSet
<1> QED
  BY <1>5, <1>6, <1>8, <1>9 DEF L

\* Steps that leave the tree alone.
LEMMA SameTree ==
  ASSUME Paths!TreeOK, UNCHANGED Paths!tree
  PROVE  (Paths!TreeOK)' /\ \A p \in Called : Stays(p)
<1>1. (Paths!TreeOK)'
  BY DEF Paths!TreeOK, Paths!tree
<1>2. kind' = kind /\ child' = child /\ mode' = mode /\ cwd' = cwd
  BY DEF Paths!tree
<1> QED
  BY <1>1, <1>2, QuietStays

LEMMA BeginStep ==
  ASSUME Paths!IInv, NEW r \in Run, NEW p \in Called, NEW op, NEW bits, Paths!Begin(r, op, p, bits),
         \/ op = "mkdir" /\ bits \in Modes
         \/ op \in {"file_exists", "is_file", "is_directory"} /\ bits = {}
         \/ op = "access" /\ bits \in Checks
  PROVE  (Paths!IInv)'
<1> DEFINE left == Paths!Lookups(op, bits)
           c == [op |-> op, path |-> p, mode |-> bits, made |-> None, left |-> left, out |-> "none"]
<1>1. Paths!TypeOK /\ Paths!TreeOK
  BY DEF Paths!IInv, Paths!TypeOK
<1>2. UNCHANGED Paths!tree /\ moved' = moved /\ call' = [call EXCEPT ![r] = c] /\ Paths!Witness
  BY DEF Paths!Begin
<1>3. (Paths!TreeOK)' /\ \A q \in Called : Stays(q)
  BY <1>1, <1>2, SameTree
<1>4. seen' \in [Run -> SUBSET Paths!Fact] /\ \A s \in Run : seen[s] \subseteq seen'[s]
  BY <1>2, Witnessed
<1>5. /\ op = "mkdir" => left = <<"create", "permit">>
      /\ op = "file_exists" => left = <<"f">>
      /\ op = "is_file" => left = <<"f", "file">>
      /\ op = "is_directory" => left = <<"f", "dir">>
  BY DEF Paths!Lookups
<1>6. left \in Seq(Paths!Lookup) /\ left # << >> /\ (op = "access" => Paths!ToSet(left) = bits)
  <2>1. CASE op = "access"
    BY <2>1, AccessLookups
  <2>2. CASE op \in {"mkdir", "file_exists", "is_file", "is_directory"}
    <3> HIDE DEF left, c
    <3>1. \A x, y \in Paths!Lookup : /\ <<x, y>> \in Seq(Paths!Lookup) /\ <<x>> \in Seq(Paths!Lookup)
                                     /\ <<x, y>> # << >> /\ <<x>> # << >>
      OBVIOUS
    <3>2. {"create", "permit", "f", "file", "dir"} \subseteq Paths!Lookup
      BY DEF Paths!Lookup
    <3> QED
      BY <1>5, <2>2, <3>1, <3>2
  <2> QED
    BY <2>1, <2>2
<1>7. /\ bits \in SUBSET (Paths!Bits \cup {"f"})
      /\ op = "mkdir" => bits \subseteq Paths!Bits
      /\ op = "access" => bits \subseteq {"f", "r", "w", "x"}
  BY NativesAssumption DEF Paths!PathNativesAssumption, Paths!Bits
<1> HIDE DEF left
<1>8. /\ call'[r] = c
      /\ \A s \in Run \ {r} : call'[s] = call[s]
  BY <1>1, <1>2 DEF Paths!TypeOK
<1>9. (Paths!TypeOK)'
  <2>1. c \in Paths!Call
    BY <1>6, <1>7 DEF Paths!Call
  <2> HIDE DEF c
  <2> QED
    BY <1>1, <1>2, <1>3, <1>4, <2>1 DEF Paths!TypeOK
<1>10. Paths!Stage(r)'
  BY <1>5, <1>6, <1>7, <1>8 DEF Paths!Stage
<1>11. Paths!Granted(r)' /\ Paths!LookTrue(r)' /\ Paths!AnswerTrue(r)'
  BY <1>6, <1>8 DEF Paths!Granted, Paths!LookTrue, Paths!AnswerTrue
<1>12. Paths!Made(r)'
  BY <1>5, <1>8 DEF Paths!Made
<1> QED
  BY <1>2, <1>3, <1>4, <1>8, <1>9, <1>10, <1>11, <1>12, CallStepKeeps

LEMMA ReturnStep ==
  ASSUME Paths!IInv, NEW r \in Run, Paths!Return(r)
  PROVE  (Paths!IInv)'
<1>1. Paths!TypeOK /\ Paths!TreeOK
  BY DEF Paths!IInv, Paths!TypeOK
<1>2. /\ UNCHANGED Paths!tree /\ moved' = [moved EXCEPT ![r] = FALSE] /\ seen' = [seen EXCEPT ![r] = {}]
      /\ call' = [call EXCEPT ![r] = Paths!Idle]
  BY DEF Paths!Return
<1>3. (Paths!TreeOK)' /\ \A q \in Called : Stays(q)
  BY <1>1, <1>2, SameTree
<1>4. /\ call'[r] = Paths!Idle /\ seen'[r] = {} /\ seen' \in [Run -> SUBSET Paths!Fact]
      /\ moved' \in [Run -> BOOLEAN]
      /\ \A s \in Run \ {r} : call'[s] = call[s] /\ seen'[s] = seen[s] /\ moved'[s] = moved[s]
  BY <1>1, <1>2 DEF Paths!TypeOK
<1>5. (Paths!TypeOK)'
  <2>1. Paths!Idle \in Paths!Call
    BY DEF Paths!Idle, Paths!Call
  <2> QED
    BY <1>1, <1>2, <1>3, <1>4, <2>1 DEF Paths!TypeOK
<1>6. (Paths!Stage(r) /\ Paths!Granted(r) /\ Paths!LookTrue(r) /\ Paths!AnswerTrue(r) /\ Paths!Made(r))'
  BY <1>4 DEF Paths!Stage, Paths!Granted, Paths!LookTrue, Paths!AnswerTrue, Paths!Made, Paths!Idle
<1> QED
  BY <1>3, <1>4, <1>5, <1>6, CallStepKeeps

LEMMA Fields ==
  ASSUME NEW c \in Paths!Call
  PROVE  /\ c.op \in {"none", "file_exists", "is_file", "is_directory", "access", "mkdir"}
         /\ c.mode \subseteq Paths!Bits \cup {"f"} /\ c.left \in Seq(Paths!Lookup)
         /\ c.out \in {"none", "yes", "no", "ok", "throw"}
BY DEF Paths!Call

\* The next lookup of a call that looks.
LEMMA LookStep ==
  ASSUME Paths!IInv, NEW r \in Run, Paths!Look(r)
  PROVE  (Paths!IInv)'
<1>1. Paths!TypeOK /\ Paths!TreeOK
  BY DEF Paths!IInv, Paths!TypeOK
<1>2. PICK c, p, n, b, t, f :
        c = call[r] /\ p = c.path /\ n = Paths!At(p) /\ b = Head(c.left) /\ t = Tail(c.left)
        /\ f = Paths!Facts(p)
  OBVIOUS
<1>3. /\ c.left # << >> /\ c.op # "mkdir" /\ UNCHANGED Paths!tree /\ moved' = moved
      /\ Paths!Witness
      /\ Paths!At(call[r].path) = n /\ Paths!Facts(call[r].path) = f /\ Paths!Looking(r)
  BY <1>2 DEF Paths!Look, Paths!Looking
<1>4. call' = [call EXCEPT ![r].left = IF Paths!Finds(b, n) THEN t ELSE << >>,
                           ![r].out = IF ~Paths!Finds(b, n) THEN Paths!Fails(c.op)
                                      ELSE IF Len(c.left) = 1 THEN Paths!Ends(c.op) ELSE @]
  BY <1>2 DEF Paths!Look
<1>5. /\ (Paths!TreeOK)' /\ \A q \in Called : Stays(q)
      /\ seen' \in [Run -> SUBSET Paths!Fact] /\ \A s \in Run : seen[s] \subseteq seen'[s]
      /\ p \in Called /\ f \in seen'[r]
  BY <1>1, <1>2, <1>3, SameTree, Witnessed
<1>6. /\ Paths!Stage(r) /\ Paths!Granted(r)
      /\ c \in Paths!Call
      /\ c.op \in {"none", "file_exists", "is_file", "is_directory", "access", "mkdir"}
      /\ c.mode \subseteq Paths!Bits \cup {"f"} /\ c.left \in Seq(Paths!Lookup)
      /\ c.out \in {"none", "yes", "no", "ok", "throw"}
  BY <1>1, <1>2, Fields DEF Paths!IInv, Paths!TypeOK
<1>7. /\ b \in Paths!Lookup /\ t \in Seq(Paths!Lookup)
      /\ Paths!ToSet(c.left) = {b} \cup Paths!ToSet(t)
      /\ Len(c.left) = 1 <=> t = << >>
  BY <1>2, <1>3, <1>6, TailSet
<1>8. PICK d : d = call'[r]
  OBVIOUS
<1>9. /\ d.op = c.op /\ d.path = p /\ d.mode = c.mode /\ d.made = c.made
      /\ Paths!Finds(b, n) => d.left = t /\ d.out = IF t = << >> THEN Paths!Ends(c.op) ELSE c.out
      /\ ~Paths!Finds(b, n) => d.left = << >> /\ d.out = Paths!Fails(c.op)
      /\ \A s \in Run \ {r} : call'[s] = call[s]
  BY <1>1, <1>2, <1>4, <1>6, <1>7, <1>8 DEF Paths!TypeOK
<1>10. c.op \in {"file_exists", "is_file", "is_directory", "access"} /\ c.out = "none"
  BY <1>2, <1>3, <1>6 DEF Paths!Stage, Paths!Idle
<1>11. f = IF n = None THEN [kind |-> "none", mode |-> {}] ELSE [kind |-> kind[n], mode |-> mode[n]]
  BY <1>2 DEF Paths!Facts
<1>12. n # None => kind[n] \in {"dir", "file"}
  BY <1>1, <1>2, <1>5, Ends DEF Paths!TreeOK
<1>13. /\ c.op = "file_exists" => b = "f" /\ t = << >>
       /\ c.op = "is_file" => (b = "f" /\ t = <<"file">>) \/ (b = "file" /\ t = << >>)
       /\ c.op = "is_directory" => (b = "f" /\ t = <<"dir">>) \/ (b = "dir" /\ t = << >>)
       /\ c.op = "access" => /\ Paths!ToSet(c.left) \subseteq c.mode
                             /\ c.mode \subseteq {"f", "r", "w", "x"}
  <2>1. /\ c.op = "file_exists" => c.left \in {<<"f">>, << >>}
        /\ c.op = "is_file" => c.left \in {<<"f", "file">>, <<"file">>, << >>}
        /\ c.op = "is_directory" => c.left \in {<<"f", "dir">>, <<"dir">>, << >>}
        /\ c.op = "access" => /\ Paths!ToSet(c.left) \subseteq c.mode
                              /\ c.mode \subseteq {"f", "r", "w", "x"}
    BY <1>2, <1>6 DEF Paths!Stage
  <2>2. \A x, y : /\ Head(<<x>>) = x /\ Tail(<<x>>) = << >>
                  /\ Head(<<x, y>>) = x /\ Tail(<<x, y>>) = <<y>>
    OBVIOUS
  <2>3. c.op = "file_exists" => b = "f" /\ t = << >>
    BY <1>2, <1>3, <2>1, <2>2
  <2>4. c.op = "is_file" => (b = "f" /\ t = <<"file">>) \/ (b = "file" /\ t = << >>)
    <3>1. c.op = "is_file" => c.left = <<"f", "file">> \/ c.left = <<"file">>
      BY <1>3, <2>1
    <3> QED
      BY <1>2, <2>2, <3>1
  <2>5. c.op = "is_directory" => (b = "f" /\ t = <<"dir">>) \/ (b = "dir" /\ t = << >>)
    <3>1. c.op = "is_directory" => c.left = <<"f", "dir">> \/ c.left = <<"dir">>
      BY <1>3, <2>1
    <3> QED
      BY <1>2, <2>2, <3>1
  <2> QED
    BY <2>1, <2>3, <2>4, <2>5
<1>14. (Paths!TypeOK)'
  <2>1. call' = [call EXCEPT ![r] = d]
    BY <1>1, <1>4, <1>8 DEF Paths!TypeOK
  <2>2. d \in Paths!Call
    <3>1. PICK l, o : /\ l = IF Paths!Finds(b, n) THEN t ELSE << >>
                      /\ o = IF ~Paths!Finds(b, n) THEN Paths!Fails(c.op)
                             ELSE IF Len(c.left) = 1 THEN Paths!Ends(c.op) ELSE c.out
      OBVIOUS
    <3>2. l \in Seq(Paths!Lookup) /\ o \in {"none", "yes", "no", "ok", "throw"}
      BY <1>6, <1>7, <3>1 DEF Paths!Ends, Paths!Fails
    <3>3. d = [c EXCEPT !.left = l, !.out = o]
      BY <1>1, <1>2, <1>4, <1>6, <1>8, <3>1 DEF Paths!TypeOK
    <3> QED
      BY <1>6, <3>2, <3>3 DEF Paths!Call
  <2> QED
    BY <1>1, <1>3, <1>5, <2>1, <2>2 DEF Paths!TypeOK
<1>15. Paths!Stage(r)'
  <2>1. d.left = << >> <=> d.out # "none"
    BY <1>9, <1>10 DEF Paths!Ends, Paths!Fails
  <2>2. CASE c.op = "access"
    <3>0. Paths!ToSet(<< >>) = {}
      BY DEF Paths!ToSet
    <3>1. Paths!ToSet(t) \subseteq c.mode /\ Paths!ToSet(<< >>) \subseteq c.mode
      BY <1>7, <1>13, <2>2, <3>0
    <3> QED
      BY <1>5, <1>8, <1>9, <1>10, <1>13, <2>1, <2>2, <3>1 DEF Paths!Stage, Paths!Ends, Paths!Fails
  <2>3. CASE c.op = "file_exists"
    BY <1>5, <1>8, <1>9, <1>10, <1>13, <2>1, <2>3 DEF Paths!Stage, Paths!Ends, Paths!Fails
  <2>4. CASE c.op = "is_file"
    BY <1>5, <1>8, <1>9, <1>10, <1>13, <2>1, <2>4 DEF Paths!Stage, Paths!Ends, Paths!Fails
  <2>5. CASE c.op = "is_directory"
    BY <1>5, <1>8, <1>9, <1>10, <1>13, <2>1, <2>5 DEF Paths!Stage, Paths!Ends, Paths!Fails
  <2> QED
    BY <1>10, <2>2, <2>3, <2>4, <2>5
<1>16. Paths!LookTrue(r)'
  <2>1. /\ b = "f" => (Paths!Finds(b, n) <=> n # None)
        /\ b = "file" => (Paths!Finds(b, n) <=> n # None /\ kind[n] = "file")
        /\ b = "dir" => (Paths!Finds(b, n) <=> n # None /\ kind[n] = "dir")
    BY DEF Paths!Finds
  <2> QED
    BY <1>5, <1>8, <1>9, <1>10, <1>11, <1>12, <1>13, <2>1
       DEF Paths!LookTrue, Paths!Wanted, Paths!Ends, Paths!Fails
<1>17. c.op = "access" => b \in {"f", "r", "w", "x"} /\ b \in c.mode
  BY <1>6, <1>7, <1>13 DEF Paths!Bits
<1>18. c.op = "access" => (Paths!Finds(b, n) => Paths!Had(b, f))
  BY <1>11, <1>12, <1>17 DEF Paths!Finds, Paths!Had
<1>19. c.op = "access" => (~Paths!Finds(b, n) => ~Paths!Had(b, f) \/ (b = "w" /\ f.kind = "dir"))
  BY <1>11, <1>12, <1>17 DEF Paths!Finds, Paths!Had
<1>20. Paths!Granted(r)'
  <2>1. c.op = "access" => \A x \in c.mode : x = b \/ x \in Paths!ToSet(t) \/ \E s \in seen[r] : Paths!Had(x, s)
    BY <1>2, <1>6, <1>7, <1>10 DEF Paths!Granted
  <2> QED
    BY <1>5, <1>8, <1>9, <1>18, <2>1 DEF Paths!Granted, Paths!Fails
<1>21. Paths!AnswerTrue(r)'
  <2>1. Paths!ToSet(<< >>) = {}
    BY DEF Paths!ToSet
  <2>2. c.op = "access" /\ d.out = "ok" => d.left = << >>
    BY <1>7, <1>9, <1>10 DEF Paths!Fails
  <2>3. c.op = "access" /\ d.out = "ok" => \A x \in c.mode : \E s \in seen'[r] : Paths!Had(x, s)
    BY <1>8, <1>9, <1>20, <2>1, <2>2 DEF Paths!Granted
  <2>4. c.op = "access" /\ d.out = "throw" => ~Paths!Finds(b, n)
    BY <1>9, <1>10 DEF Paths!Ends
  <2> QED
    BY <1>5, <1>8, <1>9, <1>17, <1>19, <2>3, <2>4 DEF Paths!AnswerTrue
<1>22. Paths!Made(r)'
  BY <1>3, <1>8, <1>9 DEF Paths!Made
<1> QED
  BY <1>3, <1>5, <1>9, <1>14, <1>15, <1>16, <1>20, <1>21, <1>22, CallStepKeeps

\* Only a mkdir creates and sets modes.
LEMMA Creating ==
  ASSUME Paths!IInv, NEW r \in Run, call[r].left # << >>, Head(call[r].left) \in {"create", "permit"}
  PROVE  /\ call[r].op = "mkdir" /\ call[r].out = "none" /\ call[r].path \in Called
         /\ call[r].mode \subseteq Paths!Bits
         /\ Head(call[r].left) = "create" => /\ call[r].left = <<"create", "permit">>
                                             /\ Tail(call[r].left) = <<"permit">>
                                             /\ call[r].made = None
         /\ Head(call[r].left) = "permit" => call[r].left = <<"permit">>
<1>1. PICK c : c = call[r]
  OBVIOUS
<1>2. /\ c.mode \subseteq Paths!Bits \cup {"f"} /\ c.left \in Seq(Paths!Lookup)
      /\ c.op \in {"none", "file_exists", "is_file", "is_directory", "access", "mkdir"}
  BY <1>1, Fields DEF Paths!IInv, Paths!TypeOK
<1>3. Paths!Stage(r)
  BY DEF Paths!IInv
<1>4. \A x, y : /\ Head(<<x>>) = x /\ Head(<<x, y>>) = x /\ Tail(<<x, y>>) = <<y>>
  OBVIOUS
<1>5. c.op # "none"
  BY <1>1, <1>3 DEF Paths!Stage, Paths!Idle
<1>6. c.op # "file_exists"
  <2>1. c.op = "file_exists" => c.left = <<"f">>
    BY <1>1, <1>3 DEF Paths!Stage
  <2> QED
    BY <1>1, <1>4, <2>1
<1>7. c.op # "is_file"
  <2>1. c.op = "is_file" => c.left = <<"f", "file">> \/ c.left = <<"file">>
    BY <1>1, <1>3 DEF Paths!Stage
  <2> QED
    BY <1>1, <1>4, <2>1
<1>8. c.op # "is_directory"
  <2>1. c.op = "is_directory" => c.left = <<"f", "dir">> \/ c.left = <<"dir">>
    BY <1>1, <1>3 DEF Paths!Stage
  <2> QED
    BY <1>1, <1>4, <2>1
<1>9. c.op # "access"
  <2>1. c.op = "access" => Paths!ToSet(c.left) \subseteq c.mode
    BY <1>1, <1>3 DEF Paths!Stage
  <2>2. Head(c.left) \in Paths!ToSet(c.left)
    BY <1>1, <1>2, TailSet
  <2> QED
    BY <1>1, <1>2, <2>1, <2>2 DEF Paths!Bits
<1>10. /\ c.path \in Called /\ c.out = "none" /\ c.mode \subseteq Paths!Bits
       /\ c.left = <<"create", "permit">> \/ c.left = <<"permit">>
       /\ c.left = <<"create", "permit">> => c.made = None
  BY <1>1, <1>2, <1>3, <1>5, <1>6, <1>7, <1>8, <1>9 DEF Paths!Stage
<1>11. c.op = "mkdir"
  BY <1>2, <1>5, <1>6, <1>7, <1>8, <1>9
<1>12. /\ Head(c.left) = "create" => c.left = <<"create", "permit">> /\ Tail(c.left) = <<"permit">>
       /\ Head(c.left) = "permit" => c.left = <<"permit">>
  <2>1. CASE c.left = <<"create", "permit">>
    BY <1>4, <2>1
  <2>2. CASE c.left = <<"permit">>
    BY <1>4, <2>2
  <2> QED
    BY <1>10, <2>1, <2>2
<1> QED
  BY <1>1, <1>10, <1>11, <1>12

\* mkdir makes its directory: it is at the path.
LEMMA PutIsAt ==
  ASSUME Paths!TreeOK, NEW p \in Called, NEW n \in Place, Paths!Put(n, p, "dir", Fresh)
  PROVE  Paths!At(p)' = n /\ kind'[n] = "dir" /\ mode'[n] = Fresh
<1> DEFINE N == Len(p.names)
           m == Paths!Parent(p)
<1>1. /\ N \in Nat \ {0} /\ N - 1 \in 0..N /\ N \in 1..N /\ Paths!Last(p.names) = p.names[N]
      /\ Paths!Last(p.names) \in Name
  BY Ends
<1>2. /\ m \in Place /\ m # None /\ kind[m] = "dir" /\ "x" \in mode[m]
      /\ kind' = [kind EXCEPT ![n] = "dir"]
      /\ child' = [child EXCEPT ![m][Paths!Last(p.names)] = n]
      /\ mode' = [mode EXCEPT ![n] = Fresh]
  BY Ends DEF Paths!Put, Paths!Open
<1>0. Fresh \in SUBSET Paths!Bits
  BY NativesAssumption DEF Paths!PathNativesAssumption
<1>3. (Paths!TreeOK)'
  BY <1>0, PutTree
<1>4. Paths!Walk(p)[N - 1] # None
  BY <1>2 DEF Paths!Parent
<1>5. Paths!Walk(p)'[N - 1] = m /\ m # n
  BY <1>0, <1>1, <1>4, PutKeepsWay DEF Paths!Parent
<1>6. Walked'
  <2>1. (Paths!TreeOK)' => Walked'
    BY WalkSteps, PTL
  <2> QED
    BY <1>3, <2>1
<1>7. Paths!Walk(p)'[N] = Paths!Enter(Paths!Walk(p)[N - 1], p.names[N])'
  BY <1>1, <1>6 DEF Walked
<1>8. Paths!Walk(p)'[N] = child'[m][p.names[N]]
  <2>1. kind'[m] = "dir" /\ "x" \in mode'[m]
    BY <1>2, <1>5 DEF Paths!TreeOK
  <2> QED
    BY <1>2, <1>5, <1>7, <2>1 DEF Paths!Enter
<1>9. child'[m][p.names[N]] = n
  BY <1>1, <1>2 DEF Paths!TreeOK
<1>10. kind'[n] = "dir" /\ mode'[n] = Fresh
  BY <1>2 DEF Paths!TreeOK
<1> QED
  BY <1>8, <1>9, <1>10 DEF Paths!At

LEMMA CreateStep ==
  ASSUME Paths!IInv, NEW r \in Run, Paths!Create(r)
  PROVE  (Paths!IInv)'
<1>1. Paths!TypeOK /\ Paths!TreeOK /\ call[r] \in Paths!Call
  BY DEF Paths!IInv, Paths!TypeOK
<1>2. PICK c, p : c = call[r] /\ p = c.path
  OBVIOUS
<1>3. c.left # << >> /\ Head(c.left) = "create" /\ Paths!Witness /\ moved' = moved
  BY <1>2 DEF Paths!Create, Paths!Calling
<1>4. PICK n \in Place : /\ Paths!Put(n, p, "dir", Fresh)
                         /\ call' = [call EXCEPT ![r].left = Tail(@), ![r].made = n]
  BY <1>2 DEF Paths!Create
<1>5. /\ c.op = "mkdir" /\ c.out = "none" /\ p \in Called /\ c.mode \subseteq Paths!Bits
      /\ Tail(c.left) = <<"permit">>
  BY <1>2, <1>3, Creating
<1>6. <<"permit">> \in Seq(Paths!Lookup) /\ <<"permit">> # << >> /\ <<"permit">> # <<"create", "permit">>
  BY DEF Paths!Lookup
<1>7. PICK l : l = <<"permit">>
  OBVIOUS
<1>8. PICK d : d = [c EXCEPT !.left = l, !.made = n]
  OBVIOUS
<1>9. /\ d \in Paths!Call
      /\ d.op = "mkdir" /\ d.path = p /\ d.mode = c.mode /\ d.left = l /\ d.out = "none" /\ d.made = n
  <2>1. c \in Paths!Call /\ l \in Seq(Paths!Lookup)
    BY <1>1, <1>2, <1>6, <1>7
  <2>2. d \in Paths!Call /\ d.op = c.op /\ d.path = c.path /\ d.mode = c.mode /\ d.left = l
        /\ d.out = c.out /\ d.made = n
    BY <1>8, <2>1 DEF Paths!Call
  <2> QED
    BY <1>2, <1>5, <2>2
<1>10. call' = [call EXCEPT ![r] = d]
  BY <1>1, <1>2, <1>4, <1>5, <1>7, <1>8 DEF Paths!TypeOK
<1>11. call'[r] = d /\ \A s \in Run \ {r} : call'[s] = call[s]
  BY <1>1, <1>10 DEF Paths!TypeOK
<1>12. seen' \in [Run -> SUBSET Paths!Fact] /\ \A s \in Run : seen[s] \subseteq seen'[s]
  BY <1>3, Witnessed
<1>13. (Paths!TreeOK)' /\ \A q \in Called : Stays(q)
  <2>1. Fresh \in SUBSET Paths!Bits
    BY NativesAssumption DEF Paths!PathNativesAssumption
  <2> QED
    BY <1>1, <1>4, <1>5, <2>1, PutTree, PutStays
<1>14. (Paths!TypeOK)'
  BY <1>1, <1>3, <1>9, <1>10, <1>12, <1>13 DEF Paths!TypeOK
<1>15. Paths!Stage(r)'
  BY <1>5, <1>6, <1>7, <1>9, <1>11 DEF Paths!Stage
<1>16. Paths!Granted(r)' /\ Paths!LookTrue(r)' /\ Paths!AnswerTrue(r)'
  BY <1>9, <1>11 DEF Paths!Granted, Paths!LookTrue, Paths!AnswerTrue
<1>17. Paths!Made(r)'
  <2>1. Paths!At(p)' = n /\ kind'[n] = "dir" /\ mode'[n] = Fresh
    BY <1>1, <1>4, <1>5, PutIsAt
  <2>2. Paths!At(call[r].path)' = Paths!At(p)'
    BY <1>9, <1>11 DEF Paths!At, Paths!Walk, Paths!Start
  <2> QED
    BY <1>9, <1>11, <2>1, <2>2 DEF Paths!Made
<1> QED
  BY <1>3, <1>11, <1>12, <1>13, <1>14, <1>15, <1>16, <1>17, CallStepKeeps

\* A call that throws ends, with the tree as it is.
LEMMA ThrowsStep ==
  ASSUME Paths!IInv, NEW r \in Run, Paths!CreateThrows(r) \/ Paths!PermitThrows(r)
  PROVE  (Paths!IInv)'
<1>1. Paths!TypeOK /\ Paths!TreeOK /\ call[r] \in Paths!Call
  BY DEF Paths!IInv, Paths!TypeOK
<1>2. PICK c : c = call[r]
  OBVIOUS
<1>3. /\ c.left # << >> /\ Head(c.left) \in {"create", "permit"} /\ Paths!Witness /\ moved' = moved
      /\ UNCHANGED Paths!tree
      /\ call' = [call EXCEPT ![r].left = << >>, ![r].out = "throw"]
  BY <1>2 DEF Paths!CreateThrows, Paths!PermitThrows, Paths!Calling
<1>4. c.op = "mkdir" /\ c.path \in Called /\ c.mode \subseteq Paths!Bits
  BY <1>2, <1>3, Creating
<1>5. << >> # <<"permit">> /\ << >> # <<"create", "permit">> /\ << >> \in Seq(Paths!Lookup)
  OBVIOUS
<1>6. PICK l : l = << >>
  OBVIOUS
<1>7. PICK d : d = [c EXCEPT !.left = l, !.out = "throw"]
  OBVIOUS
<1>8. /\ d \in Paths!Call
      /\ d.op = "mkdir" /\ d.path \in Called /\ d.mode = c.mode /\ d.left = l /\ d.out = "throw"
  <2>1. c \in Paths!Call /\ l \in Seq(Paths!Lookup) /\ "throw" \in {"none", "yes", "no", "ok", "throw"}
    BY <1>1, <1>2, <1>5, <1>6
  <2>2. d \in Paths!Call /\ d.op = c.op /\ d.path = c.path /\ d.mode = c.mode /\ d.left = l
        /\ d.out = "throw"
    BY <1>7, <2>1 DEF Paths!Call
  <2> QED
    BY <1>4, <2>2
<1>9. call' = [call EXCEPT ![r] = d]
  BY <1>1, <1>2, <1>3, <1>6, <1>7 DEF Paths!TypeOK
<1>10. call'[r] = d /\ \A s \in Run \ {r} : call'[s] = call[s]
  BY <1>1, <1>9 DEF Paths!TypeOK
<1>11. seen' \in [Run -> SUBSET Paths!Fact] /\ \A s \in Run : seen[s] \subseteq seen'[s]
  BY <1>3, Witnessed
<1>12. (Paths!TreeOK)' /\ \A q \in Called : Stays(q)
  BY <1>1, <1>3, SameTree
<1>13. (Paths!TypeOK)'
  BY <1>1, <1>3, <1>8, <1>9, <1>11, <1>12 DEF Paths!TypeOK
<1>14. Paths!Stage(r)'
  BY <1>4, <1>5, <1>6, <1>8, <1>10 DEF Paths!Stage
<1>15. Paths!Granted(r)' /\ Paths!LookTrue(r)' /\ Paths!AnswerTrue(r)' /\ Paths!Made(r)'
  BY <1>5, <1>6, <1>8, <1>10 DEF Paths!Granted, Paths!LookTrue, Paths!AnswerTrue, Paths!Made
<1> QED
  BY <1>3, <1>10, <1>11, <1>12, <1>13, <1>14, <1>15, CallStepKeeps

\* Setting the mode: of a directory, every other call is told; of a file, no way changes.
LEMMA PermitStep ==
  ASSUME Paths!IInv, NEW r \in Run, Paths!Permit(r)
  PROVE  (Paths!IInv)'
<1>1. Paths!TypeOK /\ Paths!TreeOK /\ call[r] \in Paths!Call
  BY DEF Paths!IInv, Paths!TypeOK
<1>2. PICK c, n : c = call[r] /\ n = Paths!At(call[r].path)
  OBVIOUS
<1>3. /\ c.left # << >> /\ Head(c.left) = "permit" /\ Paths!Witness
      /\ kind' = kind /\ child' = child /\ cwd' = cwd
      /\ n # None
      /\ mode' = [mode EXCEPT ![n] = c.mode]
      /\ call' = [call EXCEPT ![r].left = << >>, ![r].out = "ok"]
      /\ IF kind[n] = "dir"
         THEN moved' = [s \in Run |-> moved[s] \/ (s # r /\ call[s].left # << >> /\ TRUE)]
         ELSE moved' = moved
  BY <1>2 DEF Paths!Permit, Paths!Calling, Paths!Moves
<1>4. c.op = "mkdir" /\ c.path \in Called /\ c.mode \subseteq Paths!Bits
  BY <1>2, <1>3, Creating
<1>5. << >> # <<"permit">> /\ << >> # <<"create", "permit">> /\ << >> \in Seq(Paths!Lookup)
  OBVIOUS
<1>6. PICK l, o : l = << >> /\ o = "ok"
  OBVIOUS
<1>7. PICK d : d = [c EXCEPT !.left = l, !.out = o]
  OBVIOUS
<1>9. /\ d \in Paths!Call
      /\ d.op = "mkdir" /\ d.path \in Called /\ d.mode = c.mode /\ d.left = l /\ d.out = o
  <2>1. c \in Paths!Call /\ l \in Seq(Paths!Lookup) /\ o \in {"none", "yes", "no", "ok", "throw"}
    BY <1>1, <1>2, <1>5, <1>6
  <2>2. d \in Paths!Call /\ d.op = c.op /\ d.path = c.path /\ d.mode = c.mode /\ d.left = l
        /\ d.out = o
    BY <1>7, <2>1 DEF Paths!Call
  <2> QED
    BY <1>4, <2>2
<1>10. call' = [call EXCEPT ![r] = d]
  BY <1>1, <1>2, <1>3, <1>6, <1>7 DEF Paths!TypeOK
<1>11. call'[r] = d /\ \A s \in Run \ {r} : call'[s] = call[s]
  BY <1>1, <1>10 DEF Paths!TypeOK
<1>12. seen' \in [Run -> SUBSET Paths!Fact] /\ \A s \in Run : seen[s] \subseteq seen'[s]
  BY <1>3, Witnessed
<1>13. n \in Place
  BY <1>1, <1>2, <1>3, <1>4, Ends
<1>14. (Paths!TreeOK)'
  BY <1>1, <1>3, <1>4, <1>13 DEF Paths!TreeOK
<1>15. /\ moved' \in [Run -> BOOLEAN]
       /\ \A s \in Run : moved[s] => moved'[s]
       /\ kind[n] = "dir" => \A s \in Run \ {r} : call[s].left # << >> => moved'[s]
  <2>1. CASE kind[n] = "dir"
    BY <1>1, <1>3, <2>1 DEF Paths!TypeOK
  <2>2. CASE kind[n] # "dir"
    BY <1>1, <1>3, <2>2 DEF Paths!TypeOK
  <2> QED
    BY <2>1, <2>2
<1>16. ASSUME NEW s \in Run \ {r}, NEW p \in Called, call[s].left # << >>, ~moved'[s], p = call[s].path
       PROVE  Stays(p)
  <2>1. kind[n] # "dir"
    BY <1>15, <1>16
  <2>2. \A m \in Place : kind[m] = "dir" => mode'[m] = mode[m]
    BY <1>1, <1>3, <1>13, <2>1 DEF Paths!TreeOK
  <2> QED
    BY <1>1, <1>3, <1>14, <2>2, QuietStays
<1>17. (Paths!TypeOK)'
  BY <1>1, <1>9, <1>10, <1>12, <1>14, <1>15 DEF Paths!TypeOK
<1>18. Paths!Stage(r)'
  BY <1>4, <1>5, <1>6, <1>9, <1>11 DEF Paths!Stage
<1>19. Paths!Granted(r)' /\ Paths!LookTrue(r)' /\ Paths!AnswerTrue(r)' /\ Paths!Made(r)'
  BY <1>5, <1>6, <1>9, <1>11 DEF Paths!Granted, Paths!LookTrue, Paths!AnswerTrue, Paths!Made
<1> QED
  BY <1>11, <1>12, <1>15, <1>16, <1>17, <1>18, <1>19, CallStepKeeps

--------------------------------------------------------------------------------
(* The theorems about paths.                                                  *)

LEMMA PathsInit == Paths!Init => Paths!IInv
<1> SUFFICES ASSUME Paths!Init PROVE Paths!IInv
  OBVIOUS
<1>1. Paths!TypeOK
  <2>1. Paths!Idle \in Paths!Call
    BY DEF Paths!Idle, Paths!Call
  <2> QED
    BY <2>1, NativesAssumption
       DEF Paths!Init, Paths!TypeOK, Paths!TreeOK, Paths!Bits, Paths!PathNativesAssumption
<1>2. ASSUME NEW r \in Run
      PROVE  Paths!Stage(r) /\ Paths!Granted(r) /\ Paths!LookTrue(r) /\ Paths!AnswerTrue(r) /\ Paths!Made(r)
  BY DEF Paths!Init, Paths!Idle, Paths!Stage, Paths!Granted, Paths!LookTrue, Paths!AnswerTrue, Paths!Made
<1> QED
  BY <1>1, <1>2 DEF Paths!IInv, Paths!LooksTrue, Paths!AccessTrue

LEMMA PathsNext == Paths!IInv /\ [Paths!Next]_(Paths!vars) => (Paths!IInv)'
<1> SUFFICES ASSUME Paths!IInv, [Paths!Next]_(Paths!vars) PROVE (Paths!IInv)'
  OBVIOUS
<1>1. ASSUME NEW r \in Run, NEW p \in Called, Paths!Rmdir(r, p) PROVE (Paths!IInv)'
  BY <1>1, RmdirStep
<1>2. ASSUME NEW r \in Run, NEW p \in Called, Paths!Unlink(r, p) PROVE (Paths!IInv)'
  BY <1>2, UnlinkStep
<1>3. ASSUME NEW r \in Run, NEW p \in Called, Paths!Chdir(r, p) PROVE (Paths!IInv)'
  BY <1>3, ChdirStep
<1>4. ASSUME NEW r \in Run, NEW p \in Called, NEW bits \in Modes, Paths!Creat(r, p, bits)
      PROVE  (Paths!IInv)'
  BY <1>4, CreatStep
<1>5. ASSUME NEW r \in Run, NEW p \in Called, NEW bits \in Modes, Paths!Chmod(r, p, bits)
      PROVE  (Paths!IInv)'
  BY <1>5, ChmodStep
<1>6. ASSUME NEW r \in Run, NEW p \in Called, NEW bits \in Modes, Paths!Begin(r, "mkdir", p, bits)
      PROVE  (Paths!IInv)'
  BY <1>6, BeginStep
<1>7. ASSUME NEW r \in Run, NEW p \in Called, NEW op \in {"file_exists", "is_file", "is_directory"},
             Paths!Begin(r, op, p, {})
      PROVE  (Paths!IInv)'
  BY <1>7, BeginStep
<1>8. ASSUME NEW r \in Run, NEW p \in Called, NEW bits \in Checks, Paths!Begin(r, "access", p, bits)
      PROVE  (Paths!IInv)'
  BY <1>8, BeginStep
<1>9. ASSUME NEW r \in Run, Paths!Look(r) \/ Paths!Return(r) PROVE (Paths!IInv)'
  BY <1>9, LookStep, ReturnStep
<1>10. ASSUME NEW r \in Run, \/ Paths!Create(r) \/ Paths!CreateThrows(r)
                              \/ Paths!Permit(r) \/ Paths!PermitThrows(r)
       PROVE  (Paths!IInv)'
  BY <1>10, CreateStep, PermitStep, ThrowsStep
<1>12. ASSUME NEW r \in Run, NEW p \in Called, NEW q \in Called, Paths!Rename(r, p, q)
       PROVE  (Paths!IInv)'
  BY <1>12, RenameStep
<1>11. CASE UNCHANGED Paths!vars
  <2>1. /\ kind' = kind /\ child' = child /\ mode' = mode /\ cwd' = cwd /\ call' = call
        /\ seen' = seen /\ moved' = moved
    BY <1>11 DEF Paths!vars
  <2>2. (Paths!TypeOK)'
    BY <2>1 DEF Paths!IInv, Paths!TypeOK, Paths!TreeOK
  <2>3. Paths!TreeOK /\ UNCHANGED Paths!tree
    BY <2>1 DEF Paths!IInv, Paths!TypeOK, Paths!tree
  <2>4. \A p \in Called : Stays(p)
    BY <2>3, SameTree
  <2>5. ASSUME NEW s \in Run
        PROVE (Paths!Stage(s) /\ Paths!Granted(s) /\ Paths!LookTrue(s) /\ Paths!AnswerTrue(s) /\ Paths!Made(s))'
    BY <2>1, <2>4, CallKept, MadeKept
  <2> QED
    BY <2>2, <2>5 DEF Paths!IInv, Paths!LooksTrue, Paths!AccessTrue
<1> QED
  BY <1>1, <1>2, <1>3, <1>4, <1>5, <1>6, <1>7, <1>8, <1>9, <1>10, <1>11, <1>12 DEF Paths!Next

\* The invariant of the natives on paths, in every reachable state.
LEMMA PathsInvariant == Paths!Spec => []Paths!IInv
  BY PathsInit, PathsNext, PTL DEF Paths!Spec

\* What is_file, is_directory and file_exists answer was so at a moment of the call,
\* whatever the other runs did to the tree meanwhile.
THEOREM LooksAreTrue == Paths!Spec => []LooksTrue
<1>1. Paths!IInv => LooksTrue
  BY DEF Paths!IInv, LooksTrue
<1> QED
  BY <1>1, PathsInvariant, PTL

\* access returns only if what was asked for was there, each at a moment of the call,
\* where for execute it is enough that anyone may; it throws only if some of it was
\* missing at a moment, or write was asked of a directory.
THEOREM AccessIsTrue == Paths!Spec => []AccessTrue
<1>1. Paths!IInv => AccessTrue
  BY DEF Paths!IInv, AccessTrue
<1> QED
  BY <1>1, PathsInvariant, PTL

\* What a step that is not of r does to the call r is in.
LEMMA Others ==
  ASSUME Paths!TypeOK, NEW r \in Run, NEW s \in Run, s # r,
         \/ \E p \in Called :
              \/ Paths!Rmdir(s, p) \/ Paths!Unlink(s, p) \/ Paths!Chdir(s, p)
              \/ \E q \in Called : Paths!Rename(s, p, q)
              \/ \E bits \in Modes : \/ Paths!Creat(s, p, bits) \/ Paths!Chmod(s, p, bits)
                                     \/ Paths!Begin(s, "mkdir", p, bits)
              \/ \E op \in {"file_exists", "is_file", "is_directory"} : Paths!Begin(s, op, p, {})
              \/ \E bits \in Checks : Paths!Begin(s, "access", p, bits)
         \/ Paths!Look(s) \/ Paths!Return(s)
         \/ Paths!Create(s) \/ Paths!CreateThrows(s) \/ Paths!Permit(s) \/ Paths!PermitThrows(s)
  PROVE  call'[r] = call[r]
<1>1. ASSUME call' = call PROVE call'[r] = call[r]
  BY <1>1
<1>2. ASSUME NEW c, call' = [call EXCEPT ![s] = c] PROVE call'[r] = call[r]
  BY <1>2 DEF Paths!TypeOK
<1>3. CASE \E p \in Called : \/ Paths!Rmdir(s, p) \/ Paths!Unlink(s, p) \/ Paths!Chdir(s, p)
                             \/ \E q \in Called : Paths!Rename(s, p, q)
                             \/ \E bits \in Modes : Paths!Creat(s, p, bits) \/ Paths!Chmod(s, p, bits)
  BY <1>1, <1>3 DEF Paths!Rmdir, Paths!Unlink, Paths!Chdir, Paths!Rename, Paths!Creat, Paths!Chmod, Paths!OneStep
<1>4. ASSUME NEW p \in Called, NEW op, NEW bits, Paths!Begin(s, op, p, bits) PROVE call'[r] = call[r]
  BY <1>2, <1>4 DEF Paths!Begin
<1>5. CASE Paths!Return(s)
  BY <1>2, <1>5 DEF Paths!Return
<1>6. CASE Paths!Look(s)
  <2>1. \E l, o : call' = [call EXCEPT ![s].left = l, ![s].out = o]
    BY <1>6 DEF Paths!Look
  <2> QED
    BY <2>1 DEF Paths!TypeOK
<1>7. CASE Paths!Create(s)
  <2>1. \E l, n : call' = [call EXCEPT ![s].left = l, ![s].made = n]
    BY <1>7 DEF Paths!Create
  <2> QED
    BY <2>1 DEF Paths!TypeOK
<1>8. CASE Paths!CreateThrows(s)
  BY <1>8 DEF Paths!CreateThrows, Paths!TypeOK
<1>9. CASE Paths!Permit(s)
  BY <1>9 DEF Paths!Permit, Paths!TypeOK
<1>10. CASE Paths!PermitThrows(s)
  BY <1>10 DEF Paths!PermitThrows, Paths!TypeOK
<1> QED
  BY <1>3, <1>4, <1>5, <1>6, <1>7, <1>8, <1>9, <1>10

LEMMA WholeStep ==
  ASSUME Paths!IInv, [Paths!Next]_(Paths!vars), NEW r \in Run
  PROVE  Paths!Whole(r)
<1> SUFFICES ASSUME call[r].op = "mkdir", call[r].left # << >>, call'[r].out # "none", ~moved[r]
             PROVE  \/ /\ call'[r].out = "ok" /\ call[r].made # None
                       /\ mode' = [mode EXCEPT ![call[r].made] = call[r].mode]
                       /\ UNCHANGED <<kind, child, cwd>>
                    \/ /\ call'[r].out = "throw" /\ UNCHANGED Paths!tree
                       /\ \/ call[r].made = None
                          \/ /\ Paths!At(call[r].path) = call[r].made
                             /\ kind[call[r].made] = "dir" /\ mode[call[r].made] = Fresh
  BY DEF Paths!Whole, Paths!Calling
<1>1. /\ Paths!TypeOK /\ call[r] \in Paths!Call /\ Paths!Stage(r) /\ Paths!Made(r)
      /\ call[r].out = "none" /\ call[r] # Paths!Idle
  BY DEF Paths!IInv, Paths!TypeOK, Paths!Stage, Paths!Idle
<1>2. call'[r] # call[r]
  BY <1>1
<1>3. \/ Paths!Look(r) \/ Paths!Return(r) \/ Paths!Create(r) \/ Paths!CreateThrows(r)
      \/ Paths!Permit(r) \/ Paths!PermitThrows(r)
  <2>1. ~UNCHANGED Paths!vars
    BY <1>2 DEF Paths!vars
  <2>2. \A p, q, op, bits : /\ ~Paths!Rmdir(r, p) /\ ~Paths!Unlink(r, p) /\ ~Paths!Chdir(r, p)
                            /\ ~Paths!Rename(r, p, q)
                            /\ ~Paths!Creat(r, p, bits) /\ ~Paths!Chmod(r, p, bits)
                            /\ ~Paths!Begin(r, op, p, bits)
    BY <1>1 DEF Paths!Rmdir, Paths!Unlink, Paths!Chdir, Paths!Rename, Paths!Creat, Paths!Chmod, Paths!Begin,
                Paths!OneStep
  <2> QED
    BY <1>1, <1>2, <2>1, <2>2, Others DEF Paths!Next
<1>4. ~Paths!Look(r) /\ ~Paths!Return(r)
  BY <1>1 DEF Paths!Look, Paths!Looking, Paths!Return
<1>5. CASE Paths!Create(r)
  <2>1. call'[r].out = call[r].out
    BY <1>1, <1>5 DEF Paths!Create, Paths!TypeOK, Paths!Call
  <2> QED
    BY <1>1, <2>1
<1>6. CASE Paths!CreateThrows(r)
  <2>1. Head(call[r].left) = "create" /\ UNCHANGED Paths!tree
    BY <1>6 DEF Paths!CreateThrows
  <2>2. call[r].made = None
    BY <2>1, Creating
  <2>3. call'[r].out = "throw"
    BY <1>1, <1>6 DEF Paths!CreateThrows, Paths!TypeOK, Paths!Call
  <2> QED
    BY <2>1, <2>2, <2>3
<1>7. CASE Paths!Permit(r)
  <2>1. PICK n : n = Paths!At(call[r].path)
    OBVIOUS
  <2>2. /\ Head(call[r].left) = "permit" /\ n # None
        /\ mode' = [mode EXCEPT ![n] = call[r].mode]
        /\ call' = [call EXCEPT ![r].left = << >>, ![r].out = "ok"]
        /\ UNCHANGED <<kind, child, cwd>>
    BY <1>7, <2>1 DEF Paths!Permit
  <2>3. n = call[r].made
    BY <1>1, <2>1, <2>2, Creating DEF Paths!Made
  <2>4. call'[r].out = "ok"
    BY <1>1, <2>2 DEF Paths!TypeOK, Paths!Call
  <2> QED
    BY <2>2, <2>3, <2>4
<1>8. CASE Paths!PermitThrows(r)
  <2>1. Head(call[r].left) = "permit" /\ UNCHANGED Paths!tree
    BY <1>8 DEF Paths!PermitThrows
  <2>2. /\ Paths!At(call[r].path) = call[r].made
        /\ kind[call[r].made] = "dir" /\ mode[call[r].made] = Fresh
    BY <1>1, <2>1, Creating DEF Paths!Made
  <2>3. call'[r].out = "throw"
    BY <1>1, <1>8 DEF Paths!PermitThrows, Paths!TypeOK, Paths!Call
  <2> QED
    BY <2>1, <2>2, <2>3
<1> QED
  BY <1>3, <1>4, <1>5, <1>6, <1>7, <1>8

\* An mkdir no other run disturbed gives its mode to the directory it made, or throws
\* and has changed nothing, or throws and leaves the new directory with the mode of
\* a new one.
THEOREM MkdirIsWhole == Paths!Spec => MkdirWhole
<1>1. Paths!IInv /\ [Paths!Next]_(Paths!vars) => [\A r \in Run : Paths!Whole(r)]_(Paths!vars)
  BY WholeStep
<1> QED
  BY <1>1, PathsInvariant, PTL DEF Paths!Spec, MkdirWhole, Paths!MkdirWhole
================================================================================
