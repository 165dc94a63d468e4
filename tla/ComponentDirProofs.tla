---------------------------- MODULE ComponentDirProofs ----------------------------
(* What an open component finds in its directory, and what is left behind:    *)
(* for any number of components and directories, any bindings and core        *)
(* library.                                                                   *)
EXTENDS ComponentDir, TLAPS

USE FilesApart DEF File

\* What a step of component c leaves alone.
Near(c) == /\ \A d \in Handle \ {c} : comp'[d] = comp[d]
           /\ comp'[c].dir \in {comp[c].dir, None}
           /\ \A p \in Path \ {comp[c].dir} : /\ content'[p] = content[p]
                                              /\ p \in there' <=> p \in there
           /\ excused \subseteq excused'
           /\ \A p \in finished' : p \in finished \/ In(p) = {c}

\* Whoever is alone in a directory does not notice the steps of others.
LEMMA Bystanders ==
  ASSUME IInv, NEW c \in Handle, comp[c].pc # "none", Near(c)
  PROVE  \A d \in Handle \ {c} : PlaceInv(d)' /\ AloneInv(d)'
<1> SUFFICES ASSUME NEW d \in Handle \ {c}
             PROVE  PlaceInv(d)' /\ AloneInv(d)'
  OBVIOUS
<1>1. TypeOK /\ PlaceInv(d) /\ AloneInv(d) /\ PlaceInv(c) /\ comp'[d] = comp[d]
  BY DEF IInv, Near
<1>2. comp[c].dir # None /\ c \in In(comp[c].dir)
  BY <1>1 DEF PlaceInv, In
<1>3. PlaceInv(d)'
  <2>1. comp[d].dir \in finished' /\ comp[d].temp => comp[d].dir \in finished
    BY <1>1 DEF Near, In, TypeOK, Component
  <2> QED
    BY <1>1, <2>1 DEF PlaceInv, Near
<1>4. ASSUME comp[d].alone, comp[d].pc \in Writing \cup {"resolve", "open"}
      PROVE  AloneInv(d)'
  <2>1. In(comp[d].dir) = {d}
    BY <1>1, <1>4 DEF AloneInv
  <2>2. comp[d].dir # comp[c].dir /\ comp[d].dir \in Path
    BY <1>1, <1>2, <1>4, <2>1 DEF TypeOK, Component, PlaceInv, Writing
  <2>3. content'[comp[d].dir] = content[comp[d].dir]
        /\ (comp[d].dir \in there' <=> comp[d].dir \in there)
    BY <2>2 DEF Near
  <2>4. In(comp[d].dir)' = {d}
    BY <1>1, <2>1, <2>2 DEF Near, In
  <2> QED
    BY <1>1, <1>4, <2>3, <2>4 DEF AloneInv, Done
<1>5. ~(comp[d].alone /\ comp[d].pc \in Writing \cup {"resolve", "open"}) => AloneInv(d)'
  BY <1>1 DEF AloneInv
<1> QED
  BY <1>3, <1>4, <1>5

\* What a step of component c owes its own directory.
Own(c) == /\ comp[c].dir \notin there' => \A f \in File : content'[comp[c].dir][f] = "no"
          /\ comp[c].dir \in finished' => \A f \in {Wit} \cup Binding :
                                             content'[comp[c].dir][f] = "whole"
          /\ comp[c].temp /\ comp[c].dir \in there' \ excused' =>
               comp'[c].temp /\ comp'[c].dir = comp[c].dir

\* It is enough to look at the component that moves, and at its directory.
LEMMA Local ==
  ASSUME IInv, NEW c \in Handle, comp[c].pc # "none", Near(c), Own(c),
         TypeOK', PlaceInv(c)', AloneInv(c)'
  PROVE  IInv'
<1>1. TypeOK /\ PlaceInv(c) /\ DirInv /\ NoLeftovers
  BY DEF IInv
<1>2. \A d \in Handle : PlaceInv(d)' /\ AloneInv(d)'
  BY Bystanders
<1>3. DirInv'
  <2>1. ASSUME NEW p \in Path \ there'
        PROVE  \A f \in File : content'[p][f] = "no"
    BY <1>1 DEF Near, Own, DirInv
  <2>2. ASSUME NEW p \in finished'
        PROVE  Generated(p)'
    <3>1. p \in finished \/ p = comp[c].dir
      BY DEF Near, In
    <3>2. p \in Path
      BY DEF TypeOK
    <3> QED
      BY <1>1, <3>1, <3>2 DEF Near, Own, DirInv, Generated
  <2> QED
    BY <2>1, <2>2 DEF DirInv
<1>4. NoLeftovers'
  <2> SUFFICES ASSUME NEW p \in there' \ excused'
               PROVE  \E d \in Handle : comp'[d].dir = p /\ comp'[d].temp
    BY DEF NoLeftovers
  <2>1. CASE p = comp[c].dir
    <3>1. p \notin excused /\ p # None
      BY <1>1, <2>1 DEF Near, PlaceInv
    <3>2. comp[c].temp
      BY <1>1, <2>1, <3>1 DEF PlaceInv
    <3> QED
      BY <2>1, <3>2 DEF Own
  <2>2. CASE p # comp[c].dir
    <3>1. p \in there \ excused
      BY <2>2 DEF Near, TypeOK
    <3>2. PICK d \in Handle : comp[d].dir = p /\ comp[d].temp
      BY <1>1, <3>1 DEF NoLeftovers
    <3> QED
      BY <2>2, <3>2 DEF Near
  <2> QED
    BY <2>1, <2>2
<1> QED
  BY <1>2, <1>3, <1>4 DEF IInv

--------------------------------------------------------------------------------
LEMMA InitIInv == Init => IInv
<1> SUFFICES ASSUME Init PROVE IInv
  OBVIOUS
<1>1. \A c \in Handle : comp[c] = Nobody
  BY DEF Init
<1>2. content \in [Path -> [File -> {"no", "torn", "whole"}]]
  BY DEF Init, UserDir
<1>3. Nobody \in Component
  BY DEF Nobody, Component, Writing
<1>4. TypeOK
  BY <1>2, <1>3 DEF Init, TypeOK
<1>5. \A c \in Handle : PlaceInv(c) /\ AloneInv(c)
  <2> SUFFICES ASSUME NEW c \in Handle PROVE PlaceInv(c) /\ AloneInv(c)
    OBVIOUS
  <2>1. /\ Nobody.pc = "none" /\ Nobody.dir = None
        /\ Nobody.temp = FALSE /\ Nobody.keep = FALSE /\ Nobody.alone = FALSE
    BY DEF Nobody
  <2> QED
    BY <1>1, <2>1 DEF PlaceInv, AloneInv
<1>6. DirInv /\ NoLeftovers
  BY DEF Init, DirInv, NoLeftovers
<1> QED
  BY <1>4, <1>5, <1>6 DEF IInv

\* A component that begins its life in p, in a directory it has made, or with
\* `existing`.
LEMMA EnterIInv ==
  ASSUME IInv, NEW c \in Handle, NEW p \in Path, comp[c].pc = "none",
         \/ EmptyFromWit(c, p)
         \/ Existing(c, p)
  PROVE  IInv'
<1>1. TypeOK /\ DirInv /\ NoLeftovers /\ \A d \in Handle : PlaceInv(d) /\ AloneInv(d)
  BY DEF IInv
<1>2. PICK l \in {"wit", "core"}, temporary \in BOOLEAN, files \in SUBSET File :
         /\ Enter(c, p, l, temporary, files)
         /\ l = "wit" <=> temporary
         /\ files = IF temporary THEN {Wit} ELSE Core
         /\ there' = there \cup {p}
         /\ temporary => p \notin there /\ p \notin finished' /\ excused' = excused
         /\ ~temporary => p \in excused' /\ excused' = excused \cup {p} /\ finished' = finished
         /\ finished' \subseteq finished
         /\ content' = content
  <2>1. CASE EmptyFromWit(c, p)
    BY <2>1 DEF EmptyFromWit
  <2>2. CASE Existing(c, p)
    BY <2>2 DEF Existing
  <2> QED
    BY <2>1, <2>2
<1> DEFINE new == [Nobody EXCEPT !.pc = l, !.dir = p, !.temp = temporary,
                                 !.todo = files, !.alone = In(p) = {}]
<1>3. /\ comp' = [d \in Handle |-> IF d = c THEN new
                                   ELSE IF d \in In(p) THEN [comp[d] EXCEPT !.alone = FALSE]
                                   ELSE comp[d]]
      /\ comp'[c] = new
      /\ \A d \in Handle \ {c} : comp'[d] \in {comp[d], [comp[d] EXCEPT !.alone = FALSE]}
  BY <1>2 DEF Enter
<1>4. /\ new \in Component
      /\ new.pc = l /\ new.dir = p /\ new.temp = temporary /\ new.keep = FALSE
      /\ new.todo = files /\ new.writing = None /\ new.alone = (In(p) = {})
  BY <1>2 DEF Nobody, Component, Writing
<1> HIDE DEF new
<1>5. comp[c].dir = None /\ c \notin In(p)
  BY <1>1 DEF PlaceInv, In
<1>6. TypeOK'
  <2>1. \A d \in Handle : comp'[d] \in Component
    <3>1. \A r \in Component : [r EXCEPT !.alone = FALSE] \in Component
      BY DEF Component
    <3> QED
      BY <1>1, <1>3, <1>4, <3>1 DEF TypeOK
  <2>2. comp' \in [Handle -> Component]
    BY <1>3, <2>1
  <2> QED
    BY <1>1, <1>2, <2>2 DEF TypeOK
<1>7. PlaceInv(c)' /\ AloneInv(c)'
  <2>1. PlaceInv(c)'
    BY <1>2, <1>3, <1>4 DEF PlaceInv, Nobody
  <2>2. In(comp[c].dir)' = {c} \cup In(p)
    BY <1>3, <1>4, <1>5, <1>1 DEF In, TypeOK, Component
  <2>3. Done(c, {Wit})' \/ ~temporary
    BY <1>2, <1>3, <1>4 DEF Done
  <2>4. Done(c, Core)' \/ temporary
    BY <1>2, <1>3, <1>4 DEF Done
  <2> QED
    BY <1>2, <1>3, <1>4, <2>1, <2>2, <2>3, <2>4 DEF AloneInv
<1>8. ASSUME NEW d \in Handle \ {c}
      PROVE  PlaceInv(d)' /\ AloneInv(d)'
  <2>1. /\ comp'[d].pc = comp[d].pc /\ comp'[d].dir = comp[d].dir /\ comp'[d].temp = comp[d].temp
        /\ comp'[d].keep = comp[d].keep /\ comp'[d].todo = comp[d].todo
        /\ comp'[d].writing = comp[d].writing
        /\ comp'[d].alone => comp[d].alone /\ d \notin In(p)
        /\ d \notin In(p) => comp'[d] = comp[d]
    BY <1>1, <1>3 DEF TypeOK, Component
  <2>2. PlaceInv(d)'
    BY <1>1, <1>2, <2>1 DEF PlaceInv, In, Nobody
  <2>3. ASSUME comp'[d].alone, comp[d].pc \in Writing \cup {"resolve", "open"}
        PROVE  AloneInv(d)'
    <3>1. comp[d].dir # p /\ comp[d].dir \in Path
      BY <1>1, <2>1, <2>3 DEF In, PlaceInv, TypeOK, Component, Writing
    <3>2. In(comp[d].dir)' = In(comp[d].dir)
      BY <1>1, <1>3, <1>4, <1>5, <3>1 DEF In, TypeOK, Component
    <3> QED
      BY <1>1, <1>2, <2>1, <2>3, <3>1, <3>2 DEF AloneInv, Done
  <2> QED
    BY <2>1, <2>2, <2>3 DEF AloneInv
<1>9. DirInv'
  BY <1>1, <1>2 DEF DirInv, Generated
<1>10. NoLeftovers'
  <2> SUFFICES ASSUME NEW q \in there' \ excused'
               PROVE  \E d \in Handle : comp'[d].dir = q /\ comp'[d].temp
    BY DEF NoLeftovers
  <2>1. CASE q = p
    BY <1>2, <1>3, <1>4, <2>1
  <2>2. CASE q # p
    <3>1. PICK d \in Handle : comp[d].dir = q /\ comp[d].temp
      BY <1>1, <1>2, <2>2 DEF NoLeftovers
    <3>2. d # c
      BY <1>1, <1>2, <1>5, <2>2, <3>1 DEF TypeOK
    <3> QED
      BY <1>1, <1>3, <3>1, <3>2 DEF TypeOK, Component
  <2> QED
    BY <2>1, <2>2
<1> QED
  BY <1>6, <1>7, <1>8, <1>9, <1>10 DEF IInv

--------------------------------------------------------------------------------
(* The steps of a component that has a directory.                             *)

LEMMA Placed ==
  ASSUME IInv, NEW c \in Handle, comp[c].pc # "none"
  PROVE  /\ TypeOK /\ DirInv /\ PlaceInv(c) /\ AloneInv(c)
         /\ comp[c] \in Component
         /\ comp[c].dir \in Path /\ comp[c].dir # None
         /\ c \in In(comp[c].dir)
         /\ content[comp[c].dir] \in [File -> {"no", "torn", "whole"}]
<1>1. TypeOK /\ DirInv /\ PlaceInv(c) /\ AloneInv(c)
  BY DEF IInv
<1>2. comp[c] \in Component
  BY <1>1 DEF TypeOK
<1>3. comp[c].dir \in Path /\ comp[c].dir # None
  BY <1>1, <1>2 DEF PlaceInv, Component
<1> QED
  BY <1>1, <1>2, <1>3 DEF In, TypeOK

LEMMA OpenFileIInv ==
  ASSUME IInv, NEW c \in Handle, NEW f \in File, OpenFile(c, f)
  PROVE  IInv'
<1> DEFINE p == comp[c].dir
<1>1. comp[c].pc # "none" /\ comp[c].pc \in Writing /\ f \in comp[c].todo
      /\ comp[c].writing = None
  BY DEF OpenFile, Writing
<1>2. /\ TypeOK /\ DirInv /\ PlaceInv(c) /\ AloneInv(c)
      /\ comp[c] \in Component
      /\ p \in Path /\ p # None
      /\ c \in In(p)
      /\ content[p] \in [File -> {"no", "torn", "whole"}]
  BY <1>1, Placed
<1>3. comp'[c] = [comp[c] EXCEPT !.todo = @ \ {f}, !.writing = f]
      /\ \A d \in Handle \ {c} : comp'[d] = comp[d]
  BY <1>2 DEF OpenFile, TypeOK
<1>4. /\ comp'[c] \in Component
      /\ comp'[c].pc = comp[c].pc /\ comp'[c].dir = p /\ comp'[c].temp = comp[c].temp
      /\ comp'[c].keep = comp[c].keep /\ comp'[c].alone = comp[c].alone
      /\ comp'[c].todo = comp[c].todo \ {f} /\ comp'[c].writing = f
  BY <1>2, <1>3 DEF Component
<1>5. /\ \A q \in Path \ {p} : content'[q] = content[q]
      /\ content'[p] = [content[p] EXCEPT ![f] = "torn"]
      /\ there' = there \cup {p}
      /\ UNCHANGED <<finished, excused>>
  BY <1>2 DEF OpenFile, TypeOK
<1> HIDE DEF p
<1>6. TypeOK'
  BY <1>2, <1>3, <1>4, <1>5 DEF OpenFile, TypeOK
<1>7. Near(c)
  BY <1>3, <1>4, <1>5 DEF Near, p
<1>8. p \in finished => f \in Core
  BY <1>1, <1>2 DEF PlaceInv, Writing, p
<1>9. Own(c)
  BY <1>2, <1>4, <1>5, <1>8 DEF Own, DirInv, Generated, p
<1>10. PlaceInv(c)'
  BY <1>1, <1>2, <1>4, <1>5 DEF PlaceInv, p, Writing
<1>11. AloneInv(c)'
  <2>1. (In(comp[c].dir))' = In(p)
    BY <1>2, <1>3, <1>4 DEF In, p
  <2>2. ASSUME NEW fs \in SUBSET File, Done(c, fs)
        PROVE  Done(c, fs)'
    <3>1. (fs \ (comp[c].todo \cup {comp[c].writing}))'
            = fs \ (comp[c].todo \cup {comp[c].writing})
      BY <1>1, <1>4
    <3>2. \A g \in File \ {f} : content'[p][g] = content[p][g]
      BY <1>2, <1>5
    <3> QED
      BY <1>1, <1>4, <2>2, <3>1, <3>2 DEF Done, p
  <2>3. \A fs \in SUBSET File : Done(c, fs) => Done(c, fs)'
    BY <2>2
  <2> QED
    BY <1>1, <1>2, <1>4, <1>5, <2>1, <2>3 DEF AloneInv, p
<1> QED
  BY <1>1, <1>6, <1>7, <1>9, <1>10, <1>11, Local

LEMMA CloseFileIInv ==
  ASSUME IInv, NEW c \in Handle, CloseFile(c)
  PROVE  IInv'
<1> DEFINE p == comp[c].dir
           f == comp[c].writing
<1>1. comp[c].pc # "none" /\ comp[c].pc \in Writing /\ f # None
  BY DEF CloseFile, Writing
<1>2. /\ TypeOK /\ DirInv /\ PlaceInv(c) /\ AloneInv(c)
      /\ comp[c] \in Component
      /\ p \in Path /\ p # None
      /\ c \in In(p)
      /\ content[p] \in [File -> {"no", "torn", "whole"}]
  BY <1>1, Placed
<1>3. comp'[c] = [comp[c] EXCEPT !.writing = None]
      /\ \A d \in Handle \ {c} : comp'[d] = comp[d]
  BY <1>2 DEF CloseFile, TypeOK
<1>4. /\ comp'[c] \in Component /\ f \in File
      /\ comp'[c].pc = comp[c].pc /\ comp'[c].dir = p /\ comp'[c].temp = comp[c].temp
      /\ comp'[c].keep = comp[c].keep /\ comp'[c].alone = comp[c].alone
      /\ comp'[c].todo = comp[c].todo /\ comp'[c].writing = None
  BY <1>1, <1>2, <1>3 DEF Component
<1>5. /\ \A q \in Path \ {p} : content'[q] = content[q]
      /\ UNCHANGED <<there, finished, excused>>
      /\ content' \in [Path -> [File -> {"no", "torn", "whole"}]]
      /\ \A g \in File \ {f} : content'[p][g] = content[p][g]
      /\ content[p][f] = "no" => content'[p][f] = "no"
      /\ content[p][f] # "no" /\ In(p) = {c} => content'[p][f] = "whole"
  <2>1. CASE content[p][f] = "no"
    BY <1>2, <2>1 DEF CloseFile, TypeOK
  <2>2. CASE content[p][f] # "no"
    <3>1. PICK how \in {"torn", "whole"} :
             /\ how = "torn" => \E d \in In(p) \ {c} : comp[d].writing = f
             /\ content' = [content EXCEPT ![p][f] = how]
      BY <2>2 DEF CloseFile
    <3> HIDE DEF p, f
    <3>2. content'[p] = [content[p] EXCEPT ![f] = how]
          /\ \A q \in Path \ {p} : content'[q] = content[q]
      BY <1>2, <3>1 DEF TypeOK
    <3>3. content' \in [Path -> [File -> {"no", "torn", "whole"}]]
      BY <1>2, <1>4, <3>1 DEF TypeOK
    <3> QED
      BY <1>2, <1>4, <2>2, <3>1, <3>2, <3>3 DEF CloseFile
  <2> QED
    BY <2>1, <2>2
<1> HIDE DEF p, f
<1>6. TypeOK'
  BY <1>2, <1>3, <1>4, <1>5 DEF CloseFile, TypeOK
<1>7. Near(c)
  BY <1>3, <1>4, <1>5 DEF Near, p
<1>8. p \in finished => f \in Core
  BY <1>1, <1>2 DEF PlaceInv, Writing, p, f
<1>9. Own(c)
  BY <1>2, <1>4, <1>5, <1>8 DEF Own, DirInv, Generated, p
<1>10. PlaceInv(c)'
  BY <1>2, <1>4, <1>5 DEF PlaceInv, p, Writing
<1>11. AloneInv(c)'
  <2>1. (In(comp[c].dir))' = In(p)
    BY <1>2, <1>3, <1>4 DEF In, p
  <2>2. ASSUME NEW fs \in SUBSET File, Done(c, fs), In(p) = {c}, content[p][f] # "no"
        PROVE  Done(c, fs)'
    BY <1>1, <1>2, <1>4, <1>5, <2>2 DEF Done, p, f
  <2>3. In(p) = {c} /\ content[p][f] # "no" =>
           \A fs \in SUBSET File : Done(c, fs) => Done(c, fs)'
    BY <2>2
  <2> QED
    BY <1>1, <1>2, <1>4, <1>5, <2>1, <2>3 DEF AloneInv, p, f
<1> QED
  BY <1>1, <1>6, <1>7, <1>9, <1>10, <1>11, Local

--------------------------------------------------------------------------------
\* A step that writes nothing and stays in the directory.
LEMMA StayIInv ==
  ASSUME IInv, NEW c \in Handle, comp[c].pc # "none", NEW r \in Component,
         comp' = [comp EXCEPT ![c] = r], r.dir = comp[c].dir, r.temp = comp[c].temp,
         UNCHANGED <<there, content>>,
         excused \subseteq excused', excused' \subseteq Path,
         \A p \in finished' : \/ p \in finished
                              \/ p = comp[c].dir /\ In(p) = {c} /\ Generated(p),
         PlaceInv(c)',
         r.alone => comp[c].alone,
         In(comp[c].dir) = {c} => AloneInv(c)',
         ~(r.pc \in Writing \cup {"resolve", "open"}) \/ comp[c].pc \in Writing \cup {"resolve", "open"}
  PROVE  IInv'
<1>1. /\ TypeOK /\ DirInv /\ PlaceInv(c) /\ AloneInv(c)
      /\ comp[c].dir \in Path
  BY Placed
<1>2. comp'[c] = r /\ \A d \in Handle \ {c} : comp'[d] = comp[d]
  BY <1>1 DEF TypeOK
<1>3. TypeOK'
  BY <1>1 DEF TypeOK
<1>4. Near(c)
  BY <1>2 DEF Near
<1>5. Own(c)
  BY <1>1, <1>2 DEF Own, DirInv, Generated
<1>6. AloneInv(c)'
  BY <1>1, <1>2 DEF AloneInv
<1> QED
  BY <1>3, <1>4, <1>5, <1>6, Local

\* A component that is done with its directory: there is nothing left of it, or
\* somebody may be glad to find it.
LEMMA LeaveIInv ==
  ASSUME IInv, NEW c \in Handle, comp[c].pc # "none", Leave(c),
         UNCHANGED <<content, finished>>,
         excused' \in {excused, excused \cup {comp[c].dir}},
         \/ there' = there /\ comp[c].dir \in excused'
         \/ there' = there \ {comp[c].dir} /\ comp[c].dir \notin finished
            /\ \A f \in File : content[comp[c].dir][f] = "no"
  PROVE  IInv'
<1>1. /\ TypeOK /\ DirInv /\ PlaceInv(c) /\ AloneInv(c)
      /\ comp[c].dir \in Path /\ comp[c].dir # None
  BY Placed
<1>2. comp'[c] = Nobody /\ \A d \in Handle \ {c} : comp'[d] = comp[d]
  BY <1>1 DEF Leave, TypeOK
<1>3. /\ Nobody \in Component /\ Nobody.pc = "none" /\ Nobody.dir = None
      /\ Nobody.temp = FALSE /\ Nobody.keep = FALSE /\ Nobody.alone = FALSE
  BY DEF Nobody, Component, Writing
<1>4. TypeOK'
  BY <1>1, <1>3 DEF TypeOK, Leave
<1>5. Near(c)
  BY <1>2, <1>3 DEF Near
<1>6. Own(c)
  BY <1>1 DEF Own, DirInv, Generated
<1>7. PlaceInv(c)' /\ AloneInv(c)'
  BY <1>2, <1>3 DEF PlaceInv, AloneInv
<1> QED
  BY <1>4, <1>5, <1>6, <1>7, Local

LEMMA RemoveIInv ==
  ASSUME IInv, NEW c \in Handle, comp[c].pc # "none", comp[c].temp, Remove(c),
         UNCHANGED <<there, content, excused>>,
         finished' = finished \ {comp[c].dir}
  PROVE  IInv'
<1>1. /\ TypeOK /\ PlaceInv(c)
      /\ comp[c] \in Component
      /\ comp[c].dir \in Path
  BY Placed
<1> DEFINE gone == {f \in File : content[comp[c].dir][f] # "no"}
           r == [comp[c] EXCEPT !.pc = "drop", !.writing = None, !.todo = gone]
<1>2. comp' = [comp EXCEPT ![c] = r]
  BY DEF Remove
<1>3. gone \in SUBSET File
  OBVIOUS
<1> HIDE DEF gone
<1>4. /\ r \in Component
      /\ r.pc = "drop" /\ r.dir = comp[c].dir /\ r.temp = comp[c].temp /\ r.keep = comp[c].keep
      /\ r.alone = comp[c].alone /\ r.writing = None
  BY <1>1, <1>3 DEF Component
<1> HIDE DEF r
<1>5. comp'[c] = r
  BY <1>1, <1>2 DEF TypeOK
<1>6. PlaceInv(c)' /\ AloneInv(c)'
  BY <1>1, <1>4, <1>5 DEF PlaceInv, AloneInv, Writing
<1> QED
  BY <1>1, <1>2, <1>4, <1>6, StayIInv DEF TypeOK, Writing

LEMMA ErrsIInv ==
  ASSUME IInv, NEW c \in Handle, Errs(c)
  PROVE  IInv'
<1>1. comp[c].pc # "none" /\ comp[c].pc # "open" /\ UNCHANGED <<there, content, finished, excused>>
  BY DEF Errs, Writing
<1>2. PlaceInv(c) /\ comp[c].dir # None
  BY <1>1, Placed
<1>3. CASE comp[c].temp
  <2>1. Remove(c) /\ comp[c].dir \notin finished
    BY <1>1, <1>2, <1>3 DEF Errs, Fail, PlaceInv
  <2> QED
    BY <1>1, <1>3, <2>1, RemoveIInv
<1>4. CASE ~comp[c].temp
  <2>1. Leave(c) /\ comp[c].dir \in excused
    BY <1>2, <1>4 DEF Errs, Fail, PlaceInv
  <2> QED
    BY <1>1, <2>1, LeaveIInv
<1> QED
  BY <1>3, <1>4

LEMMA DropIInv ==
  ASSUME IInv, NEW c \in Handle, Drop(c)
  PROVE  IInv'
<1>1. comp[c].pc # "none" /\ UNCHANGED <<there, content, excused>>
  BY DEF Drop
<1>2. PlaceInv(c) /\ comp[c].dir # None
  BY <1>1, Placed
<1>3. CASE comp[c].temp /\ ~comp[c].keep
  BY <1>1, <1>3, RemoveIInv DEF Drop
<1>4. CASE ~(comp[c].temp /\ ~comp[c].keep)
  <2>1. Leave(c) /\ comp[c].dir \in excused /\ UNCHANGED finished
    BY <1>2, <1>4 DEF Drop, PlaceInv
  <2> QED
    BY <1>1, <2>1, LeaveIInv
<1> QED
  BY <1>3, <1>4

LEMMA RemoveDirIInv ==
  ASSUME IInv, NEW c \in Handle, RemoveDir(c)
  PROVE  IInv'
<1>1. comp[c].pc = "drop" /\ comp[c].pc # "none"
  BY DEF RemoveDir
<1>2. comp[c].dir \notin finished
  BY <1>1, Placed DEF PlaceInv
<1> QED
  BY <1>1, <1>2, LeaveIInv DEF RemoveDir

LEMMA GiveUpIInv ==
  ASSUME IInv, NEW c \in Handle, GiveUp(c)
  PROVE  IInv'
<1>1. comp[c].pc # "none"
  BY DEF GiveUp
<1> QED
  BY <1>1, LeaveIInv DEF GiveUp

LEMMA CrashIInv == IInv /\ Crash => IInv'
<1> SUFFICES ASSUME IInv, Crash PROVE IInv'
  OBVIOUS
<1>1. TypeOK /\ DirInv
  BY DEF IInv
<1>2. /\ Nobody \in Component /\ Nobody.pc = "none" /\ Nobody.dir = None
      /\ Nobody.temp = FALSE /\ Nobody.keep = FALSE /\ Nobody.alone = FALSE
  BY DEF Nobody, Component, Writing
<1>3. \A c \in Handle : comp'[c] = Nobody
  BY DEF Crash
<1>4. TypeOK'
  BY <1>1, <1>2 DEF Crash, TypeOK
<1>5. \A c \in Handle : PlaceInv(c)' /\ AloneInv(c)'
  BY <1>2, <1>3 DEF PlaceInv, AloneInv
<1>6. DirInv' /\ NoLeftovers'
  BY <1>1 DEF Crash, DirInv, Generated, NoLeftovers
<1> QED
  BY <1>4, <1>5, <1>6 DEF IInv

--------------------------------------------------------------------------------
(* From one stage to the next.                                                *)

LEMMA WitWrittenIInv ==
  ASSUME IInv, NEW c \in Handle, WitWritten(c)
  PROVE  IInv'
<1> DEFINE r == [comp[c] EXCEPT !.pc = "resolve"]
<1>1. comp[c].pc = "wit" /\ comp[c].pc # "none" /\ comp[c].todo = {} /\ comp[c].writing = None
  BY DEF WitWritten, Written
<1>2. /\ TypeOK /\ PlaceInv(c) /\ AloneInv(c)
      /\ comp[c] \in Component
  BY <1>1, Placed
<1>3. comp' = [comp EXCEPT ![c] = r] /\ UNCHANGED <<there, content, finished, excused>>
  BY DEF WitWritten, Goto
<1>4. /\ r \in Component
      /\ r.pc = "resolve" /\ r.dir = comp[c].dir /\ r.temp = comp[c].temp /\ r.keep = comp[c].keep
      /\ r.alone = comp[c].alone /\ r.todo = {} /\ r.writing = None
  BY <1>1, <1>2 DEF Component
<1> HIDE DEF r
<1>5. comp'[c] = r /\ \A d \in Handle : comp'[d].dir = comp[d].dir
  BY <1>2, <1>3, <1>4 DEF TypeOK
<1>6. PlaceInv(c)'
  BY <1>1, <1>2, <1>3, <1>4, <1>5 DEF PlaceInv, Writing
<1>7. AloneInv(c)'
  BY <1>1, <1>2, <1>3, <1>4, <1>5 DEF PlaceInv, AloneInv, Done, Writing, In
<1> QED
  BY <1>1, <1>2, <1>3, <1>4, <1>6, <1>7, StayIInv DEF TypeOK, Writing

LEMMA ResolveIInv ==
  ASSUME IInv, NEW c \in Handle, Resolve(c)
  PROVE  IInv'
<1> DEFINE r == IF comp[c].temp THEN [comp[c] EXCEPT !.pc = "bindings", !.todo = Binding]
                                ELSE [comp[c] EXCEPT !.pc = "open"]
<1>1. comp[c].pc = "resolve" /\ comp[c].pc # "none"
  BY DEF Resolve
<1>2. /\ TypeOK /\ PlaceInv(c) /\ AloneInv(c)
      /\ comp[c] \in Component
  BY <1>1, Placed
<1>3. comp[c].todo = {} /\ comp[c].writing = None
  BY <1>1, <1>2 DEF PlaceInv
<1>4. comp' = [comp EXCEPT ![c] = r] /\ UNCHANGED <<there, content, finished, excused>>
  BY DEF Resolve
<1>5. /\ r \in Component
      /\ r.pc = (IF comp[c].temp THEN "bindings" ELSE "open")
      /\ r.dir = comp[c].dir /\ r.temp = comp[c].temp /\ r.keep = comp[c].keep
      /\ r.alone = comp[c].alone /\ r.todo = (IF comp[c].temp THEN Binding ELSE {})
      /\ r.writing = None
  BY <1>2, <1>3 DEF Component, Writing
<1> HIDE DEF r
<1>6. comp'[c] = r /\ \A d \in Handle : comp'[d].dir = comp[d].dir
  BY <1>2, <1>4, <1>5 DEF TypeOK
<1>7. PlaceInv(c)'
  BY <1>1, <1>2, <1>3, <1>4, <1>5, <1>6 DEF PlaceInv, Writing
<1>8. AloneInv(c)'
  BY <1>1, <1>2, <1>3, <1>4, <1>5, <1>6 DEF PlaceInv, AloneInv, Done, Writing, In
<1> QED
  BY <1>1, <1>2, <1>4, <1>5, <1>7, <1>8, StayIInv DEF TypeOK, Writing

LEMMA BindingsWrittenIInv ==
  ASSUME IInv, NEW c \in Handle, BindingsWritten(c)
  PROVE  IInv'
<1> DEFINE r == [comp[c] EXCEPT !.pc = "core", !.todo = Core]
<1>1. comp[c].pc = "bindings" /\ comp[c].pc # "none" /\ comp[c].todo = {} /\ comp[c].writing = None
  BY DEF BindingsWritten, Written
<1>2. /\ TypeOK /\ PlaceInv(c) /\ AloneInv(c)
      /\ comp[c] \in Component
  BY <1>1, Placed
<1>3. comp' = [comp EXCEPT ![c] = r] /\ UNCHANGED <<there, content, finished, excused>>
  BY DEF BindingsWritten
<1>4. /\ r \in Component
      /\ r.pc = "core" /\ r.dir = comp[c].dir /\ r.temp = comp[c].temp /\ r.keep = comp[c].keep
      /\ r.alone = comp[c].alone /\ r.todo = Core /\ r.writing = None
  BY <1>1, <1>2 DEF Component, Writing
<1> HIDE DEF r
<1>5. comp'[c] = r /\ \A d \in Handle : comp'[d].dir = comp[d].dir
  BY <1>2, <1>3, <1>4 DEF TypeOK
<1>6. PlaceInv(c)'
  BY <1>1, <1>2, <1>3, <1>4, <1>5 DEF PlaceInv, Writing
<1>7. AloneInv(c)'
  BY <1>1, <1>2, <1>3, <1>4, <1>5 DEF PlaceInv, AloneInv, Done, Writing, In
<1> QED
  BY <1>1, <1>2, <1>3, <1>4, <1>6, <1>7, StayIInv DEF TypeOK, Writing

LEMMA CoreWrittenIInv ==
  ASSUME IInv, NEW c \in Handle, CoreWritten(c)
  PROVE  IInv'
<1> DEFINE l == IF comp[c].temp THEN "open" ELSE "resolve"
           r == [comp[c] EXCEPT !.pc = l]
<1>1. comp[c].pc = "core" /\ comp[c].pc # "none" /\ comp[c].todo = {} /\ comp[c].writing = None
  BY DEF CoreWritten, Written
<1>2. /\ TypeOK /\ PlaceInv(c) /\ AloneInv(c)
      /\ comp[c] \in Component /\ comp[c].dir \in Path
  BY <1>1, Placed
<1>3. comp' = [comp EXCEPT ![c] = r] /\ UNCHANGED <<there, content, excused>>
  BY DEF CoreWritten, Goto
<1>4. /\ r \in Component
      /\ r.pc = l /\ r.dir = comp[c].dir /\ r.temp = comp[c].temp /\ r.keep = comp[c].keep
      /\ r.alone = comp[c].alone /\ r.todo = {} /\ r.writing = None
  BY <1>1, <1>2 DEF Component
<1> HIDE DEF r
<1>5. comp'[c] = r /\ \A d \in Handle : comp'[d].dir = comp[d].dir
  BY <1>2, <1>3, <1>4 DEF TypeOK
<1>6. \A p \in finished' : \/ p \in finished
                           \/ p = comp[c].dir /\ In(p) = {c} /\ Generated(p)
  <2>1. CASE comp[c].temp /\ comp[c].alone
    <3>1. In(comp[c].dir) = {c} /\ Done(c, {Wit}) /\ Done(c, Binding)
      BY <1>1, <1>2, <2>1 DEF AloneInv, Writing
    <3>2. Generated(comp[c].dir)
      BY <1>1, <3>1 DEF Done, Generated
    <3> QED
      BY <2>1, <3>1, <3>2 DEF CoreWritten
  <2>2. CASE ~(comp[c].temp /\ comp[c].alone)
    BY <2>2 DEF CoreWritten
  <2> QED
    BY <2>1, <2>2
<1>7. comp[c].temp \/ comp[c].dir \in excused
  BY <1>1, <1>2 DEF PlaceInv, TypeOK
<1>8. PlaceInv(c)'
  BY <1>1, <1>2, <1>3, <1>4, <1>5, <1>7 DEF PlaceInv, Writing
<1>9. AloneInv(c)'
  BY <1>1, <1>2, <1>3, <1>4, <1>5 DEF PlaceInv, AloneInv, Done, Writing, In
<1> QED
  BY <1>1, <1>2, <1>3, <1>4, <1>6, <1>8, <1>9, StayIInv DEF TypeOK, Writing

LEMMA DisableCleanupIInv ==
  ASSUME IInv, NEW c \in Handle, DisableCleanup(c)
  PROVE  IInv'
<1> DEFINE r == [comp[c] EXCEPT !.keep = TRUE]
<1>1. comp[c].pc = "open" /\ comp[c].pc # "none"
  BY DEF DisableCleanup
<1>2. /\ TypeOK /\ PlaceInv(c) /\ AloneInv(c)
      /\ comp[c] \in Component /\ comp[c].dir \in Path
  BY <1>1, Placed
<1>3. comp' = [comp EXCEPT ![c] = r] /\ UNCHANGED <<there, content, finished>>
      /\ excused' = excused \cup {comp[c].dir}
  BY DEF DisableCleanup
<1>4. /\ r \in Component
      /\ r.pc = comp[c].pc /\ r.dir = comp[c].dir /\ r.temp = comp[c].temp
      /\ r.alone = comp[c].alone /\ r.todo = comp[c].todo /\ r.writing = comp[c].writing
  BY <1>2 DEF Component
<1> HIDE DEF r
<1>5. comp'[c] = r /\ \A d \in Handle : comp'[d].dir = comp[d].dir
  BY <1>2, <1>3, <1>4 DEF TypeOK
<1>6. PlaceInv(c)'
  BY <1>1, <1>2, <1>3, <1>4, <1>5 DEF PlaceInv, Writing
<1>7. AloneInv(c)'
  BY <1>1, <1>2, <1>3, <1>4, <1>5 DEF AloneInv, Done, In
<1> QED
  BY <1>1, <1>2, <1>3, <1>4, <1>6, <1>7, StayIInv DEF TypeOK, Writing

LEMMA RemoveFileIInv ==
  ASSUME IInv, NEW c \in Handle, NEW f \in File, RemoveFile(c, f)
  PROVE  IInv'
<1> DEFINE p == comp[c].dir
<1>1. comp[c].pc = "drop" /\ comp[c].pc # "none" /\ comp[c].temp
  BY Placed DEF RemoveFile, PlaceInv
<1>2. /\ TypeOK /\ DirInv /\ PlaceInv(c) /\ AloneInv(c)
      /\ comp[c] \in Component
      /\ p \in Path
      /\ content[p] \in [File -> {"no", "torn", "whole"}]
  BY <1>1, Placed
<1>3. comp'[c] = [comp[c] EXCEPT !.todo = @ \ {f}]
      /\ \A d \in Handle \ {c} : comp'[d] = comp[d]
  BY <1>2 DEF RemoveFile, TypeOK
<1>4. /\ comp'[c] \in Component
      /\ comp'[c].pc = comp[c].pc /\ comp'[c].dir = p /\ comp'[c].temp = comp[c].temp
      /\ comp'[c].keep = comp[c].keep
  BY <1>2, <1>3 DEF Component
<1>5. /\ \A q \in Path \ {p} : content'[q] = content[q]
      /\ content'[p] = [content[p] EXCEPT ![f] = "no"]
      /\ UNCHANGED <<there, finished, excused>>
  BY <1>2 DEF RemoveFile, TypeOK
<1>6. p \notin finished
  BY <1>1, <1>2 DEF PlaceInv
<1> HIDE DEF p
<1>7. TypeOK'
  BY <1>2, <1>3, <1>4, <1>5 DEF RemoveFile, TypeOK
<1>8. Near(c)
  BY <1>3, <1>4, <1>5 DEF Near, p
<1>9. Own(c)
  BY <1>2, <1>4, <1>5, <1>6 DEF Own, DirInv, p
<1>10. PlaceInv(c)' /\ AloneInv(c)'
  BY <1>1, <1>2, <1>4, <1>5 DEF PlaceInv, AloneInv, p, Writing
<1> QED
  BY <1>1, <1>7, <1>8, <1>9, <1>10, Local

LEMMA NextIInv == IInv /\ [Next]_vars => IInv'
<1> SUFFICES ASSUME IInv, [Next]_vars PROVE IInv'
  OBVIOUS
<1>1. ASSUME NEW c \in Handle, NEW p \in Path, EmptyFromWit(c, p) \/ Existing(c, p)
      PROVE  IInv'
  <2>1. comp[c].pc = "none"
    BY <1>1 DEF EmptyFromWit, Existing
  <2> QED
    BY <1>1, <2>1, EnterIInv
<1>2. ASSUME NEW c \in Handle, CompStep(c)
      PROVE  IInv'
  BY <1>2, OpenFileIInv, RemoveFileIInv, CloseFileIInv, WitWrittenIInv, ResolveIInv,
     BindingsWrittenIInv, CoreWrittenIInv, ErrsIInv, RemoveDirIInv, GiveUpIInv DEF CompStep
<1>3. CASE UNCHANGED vars
  <2>1. there' = there /\ content' = content /\ comp' = comp /\ finished' = finished
        /\ excused' = excused
    BY <1>3 DEF vars
  <2>2. TypeOK' /\ DirInv' /\ NoLeftovers'
    BY <2>1 DEF IInv, TypeOK, DirInv, Generated, NoLeftovers
  <2>3. \A c \in Handle : PlaceInv(c)' /\ AloneInv(c)'
    <3> SUFFICES ASSUME NEW c \in Handle PROVE PlaceInv(c)' /\ AloneInv(c)'
      OBVIOUS
    <3>1. PlaceInv(c) /\ AloneInv(c)
      BY DEF IInv
    <3>2. PlaceInv(c)'
      BY <2>1, <3>1 DEF PlaceInv
    <3>3. AloneInv(c)'
      BY <2>1, <3>1 DEF AloneInv, Done, In
    <3> QED
      BY <3>2, <3>3
  <2> QED
    BY <2>2, <2>3 DEF IInv
<1> QED
  BY <1>1, <1>2, <1>3, DisableCleanupIInv, DropIInv, CrashIInv DEF Next

\* Every component has only the files of its stage ahead of it, and one that is
\* alone in its directory finds there all it has written (lib.rs:73-178).
THEOREM ComponentDirInvariant == Spec => []IInv
<1>1. Init => IInv
  BY InitIInv
<1>2. IInv /\ [Next]_vars => IInv'
  BY NextIInv
<1> QED
  BY <1>1, <1>2, PTL DEF Spec

\* An open component that has been alone in its directory finds the core library
\* complete, and the package and the bindings if they were ever finished there
\* (lib.rs:73-178, 571-577).
THEOREM OpenWhole == Spec => []OpenIsWhole
<1>1. IInv => OpenIsWhole
  <2> SUFFICES ASSUME IInv, NEW c \in Handle, comp[c].pc = "open", comp[c].alone
               PROVE  /\ comp[c].dir \in there
                      /\ \A f \in Core : content[comp[c].dir][f] = "whole"
                      /\ comp[c].temp \/ comp[c].dir \in finished => Generated(comp[c].dir)
    BY DEF OpenIsWhole
  <2>1. DirInv /\ PlaceInv(c) /\ AloneInv(c)
    BY DEF IInv
  <2>2. comp[c].todo = {} /\ comp[c].writing = None
    BY <2>1 DEF PlaceInv
  <2>3. /\ comp[c].dir \in there /\ Done(c, Core)
        /\ comp[c].temp => Done(c, {Wit}) /\ Done(c, Binding)
    BY <2>1 DEF AloneInv
  <2> QED
    BY <2>1, <2>2, <2>3 DEF Done, DirInv, Generated
<1> QED
  BY <1>1, ComponentDirInvariant, PTL

\* A temporary directory outlives its component only where something explains it
\* (lib.rs:73-148).
THEOREM NothingLeft == Spec => []NoLeftovers
<1>1. IInv => NoLeftovers
  BY DEF IInv
<1> QED
  BY <1>1, ComponentDirInvariant, PTL
================================================================================
