---------------------------------- MODULE MoonC ----------------------------------
(* MoonC::run (src/lib.rs) and run_wasmoo (src/moonc_wasm/mod.rs): one V8 per *)
(* process, initialised by the first caller, an isolate per run.              *)
(*                                                                            *)
(* MOONC is a static: threads that build different components meet here.  The *)
(* flag is loaded, V8 initialised and the flag stored in three separate steps.*)
(* rusty_v8 keeps its own state behind a mutex; its functions panic when they *)
(* are called out of order, with the mutex held, and so poison it.            *)
EXTENDS Naturals, FiniteSets

CONSTANT Thread

VARIABLES initialized,   \* MoonC.initialized, an AtomicBool
          state,         \* GLOBAL_STATE of rusty_v8
          poisoned,      \* whether a thread has panicked holding its mutex
          pc,            \* pc[t]: where t is in MoonC::run
          raced          \* history: two threads have been initialising at once

vars == <<initialized, state, poisoned, pc, raced>>

Away == {"idle", "returned", "panicked"}

\* Between the load that sees false and the store of true.
Window == {"platform", "initialize", "store"}

Init == /\ initialized = FALSE
        /\ state = "uninitialized"
        /\ poisoned = FALSE
        /\ pc = [t \in Thread |-> "idle"]
        /\ raced = FALSE

Goto(t, l) == pc' = [pc EXCEPT ![t] = l]

Call(t) == /\ pc[t] \in Away
           /\ Goto(t, "load")
           /\ UNCHANGED <<initialized, state, poisoned, raced>>

\* if !self.initialized.load(Acquire)
LoadTrue(t) == /\ pc[t] = "load"
               /\ initialized
               /\ Goto(t, "isolate")
               /\ UNCHANGED <<initialized, state, poisoned, raced>>

LoadFalse(t) == /\ pc[t] = "load"
                /\ ~initialized
                /\ Goto(t, "platform")
                /\ raced' = (raced \/ \E u \in Thread \ {t} : pc[u] \in Window)
                /\ UNCHANGED <<initialized, state, poisoned>>

\* Mutant of Locked: a mutex that panics do not poison.
LockedAnyhow(t, from) == state = from

\* A rusty_v8 call that expects GLOBAL_STATE to be `from`.
Locked(t, from) == ~poisoned /\ state = from

Panic(t) == /\ Goto(t, "panicked")
            /\ poisoned' = TRUE
            /\ UNCHANGED <<initialized, state, raced>>

\* v8::V8::initialize_platform(platform)
InitializePlatform(t) ==
  /\ pc[t] = "platform"
  /\ IF Locked(t, "uninitialized")
     THEN /\ state' = "platform"
          /\ Goto(t, "initialize")
          /\ UNCHANGED <<initialized, poisoned, raced>>
     ELSE Panic(t)

\* v8::V8::initialize()
Initialize(t) ==
  /\ pc[t] = "initialize"
  /\ IF Locked(t, "platform")
     THEN /\ state' = "initialized"
          /\ Goto(t, "store")
          /\ UNCHANGED <<initialized, poisoned, raced>>
     ELSE Panic(t)

\* Mutant of Store: the flag is never set.
StoreNothing(t) == /\ pc[t] = "store"
                   /\ Goto(t, "isolate")
                   /\ UNCHANGED <<initialized, state, poisoned, raced>>

\* self.initialized.store(true, Release)
Store(t) == /\ pc[t] = "store"
            /\ initialized' = TRUE
            /\ Goto(t, "isolate")
            /\ UNCHANGED <<state, poisoned, raced>>

\* v8::Isolate::new asserts that V8 is initialised.
NewIsolate(t) ==
  /\ pc[t] = "isolate"
  /\ IF Locked(t, "initialized")
     THEN Goto(t, "script") /\ UNCHANGED <<initialized, state, poisoned, raced>>
     ELSE Panic(t)

\* The glue script runs the compiler; whatever it does, run returns.
RunScript(t) == /\ pc[t] = "script"
                /\ Goto(t, "returned")
                /\ UNCHANGED <<initialized, state, poisoned, raced>>

RunStep(t) == \/ LoadTrue(t) \/ LoadFalse(t)
              \/ InitializePlatform(t) \/ Initialize(t) \/ Store(t)
              \/ NewIsolate(t) \/ RunScript(t)

\* The process ends, with all its threads; another one starts.
Restart == /\ initialized' = FALSE
           /\ state' = "uninitialized"
           /\ poisoned' = FALSE
           /\ pc' = [t \in Thread |-> "idle"]
           /\ raced' = FALSE

Next == Restart \/ \E t \in Thread : Call(t) \/ RunStep(t)

\* Threads are scheduled, and the compiler terminates.
Fairness == \A t \in Thread : WF_vars(RunStep(t))

Spec == Init /\ [][Next]_vars /\ Fairness

--------------------------------------------------------------------------------
TypeOK == /\ initialized \in BOOLEAN
          /\ state \in {"uninitialized", "platform", "initialized"}
          /\ poisoned \in BOOLEAN
          /\ pc \in [Thread -> Away \cup Window \cup {"load", "isolate", "script"}]
          /\ raced \in BOOLEAN

\* Races or not, no thread creates an isolate, and the flag never says that V8
\* is ready, before V8 has been initialised (lib.rs:46-53, mod.rs:4).
IsolateAfterInit ==
  /\ initialized => state = "initialized"
  /\ \A t \in Thread : pc[t] \in {"store", "isolate", "script"} => state = "initialized"

\* The unsynchronised test of the flag is the only thing that can go wrong:
\* unless two threads have been initialising at once, no run panics, and later
\* runs find V8 usable (lib.rs:46-53).
PanicNeedsRace == poisoned \/ (\E t \in Thread : pc[t] = "panicked") => raced

\* Without a race: the initialising thread, if any, is alone, and the state of
\* V8 is what its place says.
QuietInv ==
  ~raced =>
    /\ ~poisoned
    /\ \A t \in Thread : pc[t] # "panicked"
    /\ \A t, u \in Thread : pc[t] \in Window /\ pc[u] \in Window => t = u
    /\ \A t \in Thread : /\ pc[t] = "platform" => state = "uninitialized"
                         /\ pc[t] = "initialize" => state = "platform"
                         /\ pc[t] \in Window => ~initialized
    /\ ~initialized /\ (\A t \in Thread : pc[t] \notin Window) => state = "uninitialized"

IInv == TypeOK /\ IsolateAfterInit /\ QuietInv
================================================================================
