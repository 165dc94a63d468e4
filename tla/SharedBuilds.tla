------------------------------- MODULE SharedBuilds -------------------------------
(* Builds of one component that overlap: Builder, with a history of what is   *)
(* being built.  `build` takes `&self`, and every call writes the same files  *)
(* but the target, which the caller names.                                    *)
(*                                                                            *)
(* What a build finds in the directory may have been put there by one that    *)
(* has ended in the meantime, so the history goes back to the last moment at  *)
(* which nobody was building.                                                 *)
EXTENDS Builder

VARIABLES met,      \* history: what the builds since then were to build
          spoilt    \* history: one of them lost a compiler run

sharedvars == <<vars, met, spoilt>>

InitShared == Init /\ met = {} /\ spoilt = FALSE

\* What a build that begins now with main package m is to build.
Plan(m) == [main |-> m, source |-> source]

\* The calls considered: those on a component whose packages are all there.  How a
\* build fails otherwise, and what a process end leaves, is in Builder's runs.
Prepared == DOMAIN packages = Name /\ \A p \in Name : source[p] > 0

Joins(b) == /\ Prepared
            /\ Begin(b)
            /\ met' = {Plan(main'[b])} \cup (IF NobodyBuilds THEN {} ELSE met)
            /\ spoilt' = (spoilt /\ ~NobodyBuilds)

GoesOn(b) == /\ BuildStep(b)
             /\ spoilt' = (spoilt \/ lost'[b])
             /\ UNCHANGED met

NextShared == \/ Edit /\ UNCHANGED <<met, spoilt>>
              \/ \E b \in Build : Joins(b) \/ GoesOn(b)

SpecShared == InitShared /\ [][NextShared]_sharedvars

--------------------------------------------------------------------------------
\* Builds may share the directory if they are to build the same: when a build returns
\* Ok, and since somebody last began alone every build had its main package and
\* the sources now on disk, and no compiler run was lost, then the target is the
\* component it was asked for (lib.rs:488-569, 672, 711, 735).
SharedFresh ==
  [][\A b \in Build :
       Succeeds(b) /\ ~spoilt /\ Conventional /\ met = {Plan(main[b])}
         => target'[b] = Component(b)]_sharedvars

--------------------------------------------------------------------------------
(* Why the first one holds.                                                   *)

Active(b) == pc[b] \notin Resting

\* Everybody builds the same.
Agreed == ~spoilt /\ Conventional /\ \E m \in Mains : met = {Plan(m)}

\* A file of the directory that somebody may be writing.
TornOr(f) == {Torn, f}

\* What a build has made is what it should be, or is being made again by another.
AgreedInv(b) ==
  /\ met = {Plan(main[b])}
  /\ pc[b] \in Compiling \cup Linking =>
       \A i \in DOMAIN order[b] :
          Passed(b, i) => artefact[order[b][i]] \in TornOr(Compiled(order[b][i]))
  /\ pc[b] \in {"compile", "emit"} => held[b] \in TornOr(Compiled(Current(b)))
  /\ pc[b] \in Linking \cup {"embedEmit"} => held[b] \in TornOr(Component(b))
  /\ pc[b] \in Packing => module \in TornOr(Component(b))
  /\ pc[b] = "create" => embedded \in TornOr(Component(b))
  /\ pc[b] = "createEmit" => held[b] = Component(b)

SharedInv == Agreed => \A b \in Build : Active(b) => AgreedInv(b)

\* Versions only grow, so that an edit never leads back to a source met before.
MetInv == /\ met \in SUBSET [main : Mains, source : [Name -> 0..MaxVersion]]
          /\ \A q \in met : \A p \in Name : q.source[p] <= source[p]
          /\ (\E b \in Build : Active(b)) => met # {}

IInvShared == Shape /\ MetInv /\ SharedInv
================================================================================
