------------------------------- MODULE WriteString -------------------------------
(* How a JavaScript string becomes OCaml bytes: the loop of `write_string`    *)
(* (src/moonc_wasm/js_glue_for_wasmoo.js) around the native `encode_into`     *)
(* (src/moonc_wasm/wasmoo_extern.rs), through a buffer of Limit bytes.        *)
(*                                                                            *)
(* A UTF-16 code unit is its class: what UTF-8 makes of it takes 1, 2 or 3    *)
(* bytes, and a high and a low surrogate together take 4.  The bytes are      *)
(* modelled by the place in the string of the character they encode.          *)
EXTENDS Naturals, Sequences

CONSTANTS Input,   \* the strings that are written
          Limit    \* the length of out_buffer

Unit == {"one", "two", "three", "high", "low"}

ASSUME WriteStringAssumption == /\ Input \subseteq Seq(Unit)
                                /\ Limit \in Nat \ {0}

VARIABLES s,       \* the string
          pc,      \* "slice", "encode", "return", "done" or "abort"
          start,   \* write_string: units that earlier calls have read
          len,     \* write_string: units that are left
          src,     \* encode_into: src_index, in s.slice(start)
          dst,     \* encode_into: dst_index
          buf,     \* the characters in out_buffer
          out      \* the characters handed to OCaml

vars == <<s, pc, start, len, src, dst, buf, out>>

Init == /\ s \in Input
        /\ pc = "slice"
        /\ start = 0
        /\ len = Len(s)
        /\ src = 0
        /\ dst = 0
        /\ buf = << >>
        /\ out = << >>

--------------------------------------------------------------------------------
(* encode_into                                                                *)

\* encode_into(s.slice(start), out_buffer)
Enter == /\ pc = "slice"
         /\ src' = 0
         /\ dst' = 0
         /\ pc' = "encode"
         /\ UNCHANGED <<s, start, len, buf, out>>

Left == Len(s) - start                 \* length of the slice
At(i) == s[start + i + 1]              \* its i-th code unit, from 0
InLoop == pc = "encode" /\ dst < Limit /\ src < Left

\* A surrogate pair is read as a whole.
IsPair == At(src) = "high" /\ src + 1 < Left /\ At(src + 1) = "low"

\* A high surrogate without its low one is unreachable!().
Malformed == At(src) = "high" /\ ~IsPair

\* Mutant of Units: the low surrogate is read again.
UnitsOne == 1

Units == IF IsPair THEN 2 ELSE 1

\* What encode_scalar returns.  A low surrogate on its own is encoded like any
\* other unit from 0x800 on.
Width == CASE At(src) = "one" -> 1
           [] At(src) = "two" -> 2
           [] At(src) \in {"three", "low"} -> 3
           [] OTHER -> 4

\* Mutant of Encode: it is enough that the first byte fits.
EncodeOverrun == /\ InLoop
                 /\ ~Malformed
                 /\ buf' = Append(buf, start + src + 1)
                 /\ dst' = dst + Width
                 /\ src' = src + Units
                 /\ UNCHANGED <<s, pc, start, len, out>>

Encode == /\ InLoop
          /\ ~Malformed
          /\ dst + Width <= Limit
          /\ buf' = Append(buf, start + src + 1)
          /\ dst' = dst + Width
          /\ src' = src + Units
          /\ UNCHANGED <<s, pc, start, len, out>>

\* The character does not fit: the loop is left, after src_index has been
\* advanced past it.
Break == /\ InLoop
         /\ ~Malformed
         /\ dst + Width > Limit
         /\ src' = src + Units
         /\ pc' = "return"
         /\ UNCHANGED <<s, start, len, dst, buf, out>>

\* The panic in a V8 callback ends the process.
Abort == /\ InLoop
         /\ Malformed
         /\ pc' = "abort"
         /\ UNCHANGED <<s, start, len, src, dst, buf, out>>

LoopDone == /\ pc = "encode"
            /\ dst >= Limit \/ src >= Left
            /\ pc' = "return"
            /\ UNCHANGED <<s, start, len, src, dst, buf, out>>

--------------------------------------------------------------------------------
(* write_string, after encode_into has returned { read: src, written: dst }.  *)

\* Mutants of Extract: start, or len, is not updated.
ExtractRestart == /\ pc = "return"
                  /\ len # src
                  /\ len' = len - src
                  /\ out' = out \o buf
                  /\ buf' = << >>
                  /\ pc' = "slice"
                  /\ UNCHANGED <<s, start, src, dst>>

ExtractSameLen == /\ pc = "return"
                  /\ len # src
                  /\ start' = start + src
                  /\ out' = out \o buf
                  /\ buf' = << >>
                  /\ pc' = "slice"
                  /\ UNCHANGED <<s, len, src, dst>>

\* len -= read; caml_extract_bytes(written); start += read
Extract == /\ pc = "return"
           /\ len # src
           /\ len' = len - src
           /\ start' = start + src
           /\ out' = out \o buf
           /\ buf' = << >>
           /\ pc' = "slice"
           /\ UNCHANGED <<s, src, dst>>

\* Mutant of Finish: one call of encode_into is taken to be enough.
FinishAtOnce == /\ pc = "return"
                /\ len' = 0
                /\ out' = out \o buf
                /\ buf' = << >>
                /\ pc' = "done"
                /\ UNCHANGED <<s, start, src, dst>>

\* len -= read; if (!len) return written
Finish == /\ pc = "return"
          /\ len = src
          /\ len' = 0
          /\ out' = out \o buf
          /\ buf' = << >>
          /\ pc' = "done"
          /\ UNCHANGED <<s, start, src, dst>>

Over == pc \in {"done", "abort"} /\ UNCHANGED vars

Step == Enter \/ Encode \/ Break \/ Abort \/ LoopDone \/ Extract \/ Finish

Next == Step \/ Over

\* Both loops run on the compiler's thread.
Spec == Init /\ [][Next]_vars /\ WF_vars(Step)

--------------------------------------------------------------------------------
TypeOK == /\ s \in Seq(Unit)
          /\ pc \in {"slice", "encode", "return", "done", "abort"}
          /\ start \in Nat
          /\ len \in Nat
          /\ src \in Nat
          /\ dst \in Nat
          /\ buf \in Seq(Nat)
          /\ out \in Seq(Nat)

Increasing(q) == \A i, j \in DOMAIN q : i < j => q[i] < q[j]
Within(q, lo, hi) == \A i \in DOMAIN q : lo < q[i] /\ q[i] <= hi

\* The buffer is not overrun (the raw slice of wasmoo_extern.rs:2334 has
\* Limit bytes), and the two loops agree on how much of the string is left.
BoundsInv == /\ dst <= Limit
             /\ pc # "done" => start + len = Len(s)
             /\ start + src <= Len(s) \/ pc = "slice"

\* The characters handed over so far come from what has been read, those in the
\* buffer from what this call has read.
PlaceInv == /\ Within(out, 0, IF pc = "done" THEN start + src ELSE start)
            /\ Within(buf, start, IF pc = "slice" THEN start ELSE start + src)
            /\ Increasing(out)
            /\ Increasing(buf)
            /\ pc = "done" => buf = << >>

Ascii == \A i \in DOMAIN s : s[i] = "one"

\* ASCII text fills the buffer unit by unit, so the loop is never left early.
AsciiInv ==
  Ascii => /\ pc \in {"encode", "return"} => dst = src
           /\ Len(buf) = IF pc \in {"encode", "return"} THEN src ELSE 0
           /\ \A i \in DOMAIN buf : buf[i] = start + i
           /\ Len(out) = IF pc = "done" THEN Len(s) ELSE start
           /\ \A i \in DOMAIN out : out[i] = i
           /\ pc # "abort"

IInv == TypeOK /\ BoundsInv /\ PlaceInv /\ AsciiInv

\* Characters are never repeated and never change places, however many calls
\* the string takes (js_glue:157-170).
InOrder == Increasing(out \o buf)

\* The places of the characters of the string.
Starts == {i \in DOMAIN s : ~(s[i] = "low" /\ i > 1 /\ s[i - 1] = "high")}

WellFormed == \A i \in DOMAIN s :
                 /\ s[i] = "high" => i < Len(s) /\ s[i + 1] = "low"
                 /\ s[i] = "low" => i > 1 /\ s[i - 1] = "high"

Written == {out[i] : i \in DOMAIN out}

Bytes(i) == CASE s[i] = "one" -> 1
              [] s[i] = "two" -> 2
              [] s[i] = "three" -> 3
              [] OTHER -> 4

\* How many bytes the first units of the string take.
Size == LET size[i \in 0..Len(s)] ==
              IF i = 0 THEN 0 ELSE size[i - 1] + (IF i \in Starts THEN Bytes(i) ELSE 0)
        IN  size

Fits == Size[Len(s)] <= Limit

\* A well-formed string never aborts the process, however the buffer cuts it, and
\* arrives complete if its UTF-8 form fits into the buffer
\* (wasmoo_extern.rs:2337-2367, js_glue:157-170).
WholeIfFits == WellFormed => pc # "abort" /\ (pc = "done" /\ Fits => Written = Starts)

\* ASCII text arrives complete, whatever its length (wasmoo_extern.rs:2284-2289).
AsciiWhole == pc = "done" /\ Ascii => Written = DOMAIN s

\* The loop ends for every string (js_glue:160-169).
Ends == <>(pc \in {"done", "abort"})

\* What "utf16le -> utf8" says of encode_into (wasmoo_extern.rs:2334), for the
\* string as a whole: no character is lost.
NothingLost == pc = "done" /\ WellFormed => Written = Starts

\* The units that have been read.
Done == IF pc = "slice" THEN start ELSE start + src

\* What keeps a well-formed string whole: no call begins or goes on within a surrogate
\* pair, and a string that fits is encoded by the first call, without a break.
WholeInv ==
  WellFormed =>
    /\ pc # "abort"
    /\ pc # "done" /\ Done < Len(s) => Done + 1 \in Starts
    /\ Fits => /\ pc # "done" => start = 0 /\ out = << >>
               /\ pc = "slice" => buf = << >>
               /\ pc \in {"encode", "return"} =>
                    dst = Size[src] /\ {buf[i] : i \in DOMAIN buf} = Starts \cap (1..src)
               /\ pc = "return" => src = Len(s)
               /\ pc = "done" => Written = Starts
================================================================================
