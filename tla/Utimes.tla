--------------------------------- MODULE Utimes ----------------------------------
(* utimes of src/moonc_wasm/wasmoo_extern.rs: two times in seconds, as f64,   *)
(* to two timevals, and from there to the file.                               *)
(*                                                                            *)
(* A finite f64 is a number of parts of a microsecond, Part of them to one;   *)
(* the rounding of the multiplication by 1_000_000.0 is not modelled.  The    *)
(* model's i64 is as narrow as its second is short.                           *)
EXTENDS Integers

CONSTANTS Times,     \* the finite times utimes is called with, in parts
          Odd,       \* the other f64s: NaN and the infinities
          Part,      \* parts in a microsecond
          Million,   \* microseconds in a second
          MaxI64     \* the largest i64

\* What the constants have to be.
UtimesAssumption == /\ Times \subseteq Int
                    /\ Odd \cap Int = {}
                    /\ Part \in Nat \ {0} /\ Million \in Nat \ {0}
                    /\ MaxI64 \in Nat

MinI64 == -MaxI64 - 1

VARIABLES asked,     \* what the calls that changed the file asked for last
          file,      \* the file's access and modification times
          throws     \* "no", or why the last call threw: "odd" or "refused"

vars == <<asked, file, throws>>

Epoch == [sec |-> 0, usec |-> 0]

Init == /\ asked = [atime |-> 0, mtime |-> 0]
        /\ file = [atime |-> Epoch, mtime |-> Epoch]
        /\ throws = "no"

Abs(t) == IF t < 0 THEN -t ELSE t

\* f64::round, halves away from zero, and `as i64`, which saturates.
Round(t) == LET r == (2 * Abs(t) + Part) \div (2 * Part) IN IF t < 0 THEN -r ELSE r
AsI64(i) == IF i > MaxI64 THEN MaxI64 ELSE IF i < MinI64 THEN MinI64 ELSE i

\* Mutant of Timeval: `/` and `%`, which round towards zero.
TimevalTruncated(t) ==
  LET total == AsI64(Round(t))
      sec == IF total < 0 THEN -(Abs(total) \div Million) ELSE total \div Million
  IN  [sec |-> sec, usec |-> total - sec * Million]

\* timeval_from_f64 of a finite time: div_euclid and rem_euclid.
Timeval(t) == LET total == AsI64(Round(t))
              IN  [sec |-> total \div Million, usec |-> total % Million]

\* utimes: both times are converted before the file is touched.  The system
\* refuses microseconds that are none.  (That it may refuse the path as well
\* changes nothing.)
Usable(t) == t \in Times /\ Timeval(t).usec \in 0..(Million - 1)

Sets(atime, mtime) ==
  /\ Usable(atime) /\ Usable(mtime)
  /\ file' = [atime |-> Timeval(atime), mtime |-> Timeval(mtime)]
  /\ asked' = [atime |-> atime, mtime |-> mtime]
  /\ throws' = "no"

Throws(atime, mtime) ==
  /\ ~(Usable(atime) /\ Usable(mtime))
  /\ throws' = IF {atime, mtime} \cap Odd = {} THEN "refused" ELSE "odd"
  /\ UNCHANGED <<file, asked>>

Next == \E atime, mtime \in Times \cup Odd : Sets(atime, mtime) \/ Throws(atime, mtime)

Spec == Init /\ [][Next]_vars

--------------------------------------------------------------------------------

Total(tv) == tv.sec * Million + tv.usec

\* To the nearest microsecond, as long as that fits.
Near(t, tv) == \/ 2 * Abs(t - Part * Total(tv)) <= Part
               \/ (t >= Part * MaxI64 /\ Total(tv) = MaxI64)
               \/ (t <= Part * MinI64 /\ Total(tv) = MinI64)

Before(v, w) == v.sec < w.sec \/ (v.sec = w.sec /\ v.usec <= w.usec)

\* The file has what the last call that returned asked for, whatever calls threw
\* since; a time that was asked to be no earlier than another is none, on both
\* sides of 1970 and at the ends of the range; and no finite time is refused
\* (wasmoo_extern.rs:759-794).
TimesKept == /\ Near(asked.atime, file.atime) /\ Near(asked.mtime, file.mtime)
             /\ asked.atime <= asked.mtime => Before(file.atime, file.mtime)
             /\ throws # "refused"

\* The inductive invariant: what the file has is the conversion of what was asked.
IInv == /\ asked \in [atime : Int, mtime : Int]
        /\ file = [atime |-> Timeval(asked.atime), mtime |-> Timeval(asked.mtime)]
        /\ throws \in {"no", "odd"}
================================================================================
