--------------------------------- MODULE Natives ---------------------------------
(* The natives of wasmoo_extern.rs that are modelled: descriptors and what is *)
(* read and written through them (FdTable), paths (PathNatives), and the      *)
(* times of utimes (Utimes).  The three share no state.                       *)
EXTENDS FdTable, Integers

CONSTANTS Name, Place, Root, Called, Modes, Fresh, Checks,   \* PathNatives: Place is its Node, Called its Asked
          Finite, Odd, Part, Million, MaxI64          \* Utimes: Finite is its Times

VARIABLES kind, child, mode, cwd, call, seen, moved,   \* as in PathNatives
          asked, file, throws                          \* as in Utimes

Paths == INSTANCE PathNatives WITH Node <- Place, Asked <- Called
Times == INSTANCE Utimes WITH Times <- Finite

\* What the constants of the two have to be.
ASSUME NativesAssumption == Paths!PathNativesAssumption /\ Times!UtimesAssumption

\* The properties of PathNatives and Utimes: a native's answer was true at a time
\* of the call; an undisturbed mkdir does what was asked or nothing; times keep
\* their values and their order.
LooksTrue == Paths!LooksTrue
AccessTrue == Paths!AccessTrue
MkdirWhole == Paths!MkdirWhole
TimesKept == Times!TimesKept
================================================================================
