------------------------------- MODULE Generators --------------------------------
(* The generators: the typed configuration (Bindings) and the script          *)
(* (GetScript).  A call is of one of them; they share no state.               *)
EXTENDS Bindings

CONSTANT Scripts   \* the texts the script generator is called with

VARIABLES generator, script, at, stub, place   \* place is the pc of GetScript

Script == INSTANCE GetScript WITH pc <- place

\* What the constant has to be.
ASSUME GeneratorsAssumption == Script!ScriptsAssumption

scriptvars == <<script, at, stub, place>>

\* What the variables of the other generator are while they are not used.
SomeWit == CHOOSE w \in Wits : TRUE

InitAll == /\ \/ generator = "config" /\ script = << >>
              \/ generator = "script" /\ wit = SomeWit /\ mode = "bindings"
           /\ Init /\ Script!Init

NextAll == /\ UNCHANGED generator
           /\ \/ generator = "config" /\ Next /\ UNCHANGED scriptvars
              \/ generator = "script" /\ Script!Next /\ UNCHANGED vars

SpecAll == InitAll /\ [][NextAll]_<<generator, vars, scriptvars>>

--------------------------------------------------------------------------------
\* What the script component returns holds all lines of a script whose CRs all belong
\* to line ends, but for these ends (GetScript, get_script.rs:23-41).
LinesKept == Script!LinesKept
================================================================================
