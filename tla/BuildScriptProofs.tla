---------------------------- MODULE BuildScriptProofs ----------------------------
(* Whatever the developer does and wherever a build is interrupted, for any   *)
(* number of releases and whatever is in their archives.                      *)
EXTENDS BuildScript, TLAPS

Entry == {"wasm", "core", "other"}

\* What a sequence holds is its first entry and what its tail holds.
LEMMA TailHolds ==
  ASSUME NEW s \in Seq(Entry), s # << >>, NEW x
  PROVE  /\ Tail(s) \in Seq(Entry)
         /\ Holds(s, x) <=> Head(s) = x \/ Holds(Tail(s), x)
<1> DEFINE t == Tail(s)
<1>1. /\ t \in Seq(Entry) /\ Head(s) = s[1] /\ 1 \in DOMAIN s
      /\ \A i \in DOMAIN t : i + 1 \in DOMAIN s /\ t[i] = s[i + 1]
      /\ \A i \in DOMAIN s : i # 1 => i - 1 \in DOMAIN t /\ s[i] = t[i - 1]
  OBVIOUS
<1> HIDE DEF t
<1>2. Holds(t, x) => Holds(s, x)
  BY <1>1 DEF Holds
<1>3. Head(s) = x => Holds(s, x)
  BY <1>1 DEF Holds
<1>4. Holds(s, x) => Head(s) = x \/ Holds(t, x)
  BY <1>1 DEF Holds
<1> QED
  BY <1>1, <1>2, <1>3, <1>4 DEF t

LEMMA InitIInv == Init => IInv
  BY DEF Init, IInv, MooncWhole, Running

LEMMA NextIInv == IInv /\ [Next]_vars => IInv'
<1> SUFFICES ASSUME IInv, [Next]_vars PROVE IInv'
  OBVIOUS
<1> USE DEF IInv, MooncWhole, Running
<1>1. CASE Bump \/ DeleteBundled \/ RemoveBundled \/ CopyCore
  BY <1>1 DEF Bump, DeleteBundled, RemoveBundled, CopyCore, script, dirs
<1>2. CASE Interrupted \/ Fail
  <2>1. /\ pc' = "idle" /\ todo' = << >> /\ found' = FALSE
        /\ UNCHANGED <<pinned, recorded, moonc>>
    BY <1>2 DEF Interrupted, Fail
  <2>2. todo' \in Seq({"wasm", "core", "other"})
    BY <2>1
  <2> QED
    BY <2>1, <2>2
<1>3. CASE CargoBuild \/ Rustc
  BY <1>3 DEF CargoBuild, NeedsRun, Rustc, dirs, script
<1>4. CASE Download
  <2>1. PICK a \in Archives : todo' = a
    BY <1>4 DEF Download
  <2>2. a \in Seq(Entry)
    BY ArchivesAssumption DEF Entry
  <2> QED
    BY <1>4, <2>1, <2>2 DEF Download, dirs, Entry, Holds
<1>5. CASE PassEntry
  <2>1. /\ todo' \in Seq(Entry)
        /\ \A x : Holds(todo, x) <=> Head(todo) = x \/ Holds(todo', x)
    BY <1>5, TailHolds DEF PassEntry, Seen, Entry
  <2> QED
    BY <1>5, <2>1 DEF PassEntry, Seen, dirs, Entry, Holds
<1>6. CASE OpenMoonc
  BY <1>6 DEF OpenMoonc, dirs, script, Holds
<1>7. CASE UnpackMoonc
  <2>1. /\ todo' \in Seq(Entry)
        /\ \A x : Holds(todo, x) <=> Head(todo) = x \/ Holds(todo', x)
    BY <1>7, TailHolds DEF UnpackMoonc, Seen, Entry
  <2> QED
    BY <1>7, <2>1 DEF UnpackMoonc, Seen, dirs, Entry, Holds
<1>8. CASE RemoveCore
  <2>1. Holds(todo, "core")
    BY <1>8, TailHolds DEF RemoveCore, Entry
  <2> QED
    BY <1>8, <2>1 DEF RemoveCore, script, Holds
<1>9. CASE UnpackCore
  <2>1. todo' \in Seq(Entry)
    BY <1>9, TailHolds DEF UnpackCore, Seen, Entry
  <2> QED
    BY <1>9, <2>1 DEF UnpackCore, Seen, Entry
<1>10. CASE Succeed
  BY <1>10 DEF Succeed, dirs, script
<1>11. CASE UNCHANGED vars
  BY <1>11 DEF vars, dirs, script, Holds
<1> QED
  BY <1>1, <1>2, <1>3, <1>4, <1>5, <1>6, <1>7, <1>8, <1>9, <1>10, <1>11 DEF Next, ScriptStep

\* The invariant, for any number of releases and any archives.
LEMMA BuildInvariant == Spec => []IInv
  BY InitIInv, NextIInv, PTL DEF Spec

\* What cargo takes for done has left a complete moonc.wasm of the version it names,
\* and the crate is compiled with the pinned one, wherever earlier builds failed
\* or were interrupted (build.rs:16-23, 54-65, 103-109).
THEOREM MooncIsWhole == Spec => []MooncWhole
<1>1. IInv => MooncWhole
  BY DEF IInv
<1> QED
  BY <1>1, BuildInvariant, PTL

\* A script that runs to its end without bundled-core, and whose archive has a core
\* library, has left it complete in core, of the version of moonc.wasm, in whatever
\* order the archive has them (build.rs:75-99).
THEOREM CoreIsMatching == Spec => CoreMatchesMoonc
<1>1. IInv /\ [Next]_vars => [pc = "entry" /\ pc' = "rustc" /\ bundled = NoFile /\ Holds(archive, "core")
                                => core = moonc]_vars
  <2> SUFFICES ASSUME IInv, [Next]_vars, pc = "entry", pc' = "rustc", bundled = NoFile,
                      Holds(archive, "core")
               PROVE  core = moonc
    OBVIOUS
  <2>1. Succeed
    BY DEF Next, ScriptStep, vars, Bump, DeleteBundled, RemoveBundled, CopyCore, Interrupted, CargoBuild,
           Rustc, Download, PassEntry, OpenMoonc, UnpackMoonc, RemoveCore, UnpackCore, Fail, Seen
  <2>2. todo = << >> /\ found /\ core = pinned
    BY <2>1 DEF Succeed, IInv, Running, Holds
  <2> QED
    BY <2>2 DEF IInv, MooncWhole
<1> QED
  BY <1>1, BuildInvariant, PTL DEF Spec, CoreMatchesMoonc
================================================================================
