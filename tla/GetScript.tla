-------------------------------- MODULE GetScript --------------------------------
(* generate_get_script_component (src/get_script.rs): a component whose only  *)
(* function returns a text, written line by line into a MoonBit literal.      *)
(*                                                                            *)
(* A text is a sequence of "x" (any other character), "CR" and "LF".          *)
EXTENDS Naturals, SequencesExt

CONSTANT Scripts   \* the texts it is called with

Char == {"x", "CR", "LF"}

\* What the constant has to be.
ScriptsAssumption == Scripts \subseteq Seq(Char)

VARIABLES script,   \* the text given
          at,       \* where script.lines() is
          stub,     \* the lines of the literal in stub_mbt
          pc        \* "wit", "lines", "build", "ok" or "err"

vars == <<script, at, stub, pc>>

Init == /\ script \in Scripts
        /\ at = 1
        /\ stub = << >>
        /\ pc = "wit"

\* empty_from_wit and define_bindgen_packages; then the head of the stub.
Prepare == /\ pc = "wit"
           /\ pc' \in {"lines", "err"}
           /\ UNCHANGED <<script, at, stub>>

\* The position of the next LF, or the end of the text.
LineEnd == CHOOSE e \in at..Len(script) + 1 :
              /\ \A i \in at..(e - 1) : script[i] # "LF"
              /\ e = Len(script) + 1 \/ script[e] = "LF"

\* Mutant of Text: whatever stands before an LF is taken for a CR.
TextButLast(e) == IF e <= Len(script) THEN SubSeq(script, at, e - 2) ELSE SubSeq(script, at, e - 1)

\* str::lines: a CR before an LF belongs to the line end, one at the end of the text
\* does not.
Text(e) == IF e <= Len(script) /\ e > at /\ script[e - 1] = "CR"
           THEN SubSeq(script, at, e - 2)
           ELSE SubSeq(script, at, e - 1)

WriteLine == /\ pc = "lines"
             /\ at <= Len(script)
             /\ stub' = Append(stub, Text(LineEnd))
             /\ at' = LineEnd + 1
             /\ UNCHANGED <<script, pc>>

\* write_world_stub
WriteStub == /\ pc = "lines"
             /\ at > Len(script)
             /\ pc' \in {"build", "err"}
             /\ UNCHANGED <<script, at, stub>>

\* A function that is to return a String has to have a body.
Build == /\ pc = "build"
         /\ pc' \in {"err"} \cup (IF stub # << >> THEN {"ok"} ELSE {})
         /\ UNCHANGED <<script, at, stub>>

Over == pc \in {"ok", "err"} /\ UNCHANGED vars

Next == Prepare \/ WriteLine \/ WriteStub \/ Build \/ Over

Spec == Init /\ [][Next]_vars

--------------------------------------------------------------------------------
\* A multi-line literal joins its lines with LF: the value of the first n of them.
\* This is so only of lines without a CR: a line is written with an LF after it, so
\* that a CR at its end makes another line end of the two, and what a CR inside a
\* line is to the compiler is not known here.
Joined(lines) ==
  LET joined[n \in 0..Len(lines)] ==
        IF n = 0 THEN << >>
        ELSE (IF n = 1 THEN << >> ELSE Append(joined[n - 1], "LF")) \o lines[n]
  IN  joined

\* What get_script returns.
Value == Joined(stub)[Len(stub)]

\* The first n characters of the script with the line ends of Unix.
Unix ==
  LET unix[n \in 0..Len(script)] ==
        IF n = 0 THEN << >>
        ELSE IF script[n] = "CR" /\ n < Len(script) /\ script[n + 1] = "LF" THEN unix[n - 1]
        ELSE Append(unix[n - 1], script[n])
  IN  unix

DropLastLF(s) == IF s # << >> /\ Last(s) = "LF" THEN Front(s) ELSE s

\* How much of the script has been read.
Read == IF at > Len(script) THEN Len(script) ELSE at - 1

\* Every CR of the script belongs to a line end.
LineEndsOnly == \A i \in DOMAIN script :
                  script[i] = "CR" => i < Len(script) /\ script[i + 1] = "LF"

Clean(lines) == \A l \in DOMAIN lines : \A i \in DOMAIN lines[l] : lines[l][i] # "CR"

\* Of a script whose CRs all belong to line ends, no CR gets into the stub, and line
\* after line the literal holds what has been read of it with its line ends changed
\* to those of Unix, and the last of them dropped: nothing else is lost, and no line
\* is lost, split or joined (get_script.rs:23-41, and its test at 58-79).
LinesKept == LineEndsOnly => Clean(stub) /\ Value = DropLastLF(Unix[Read])

\* What keeps the lines: each but the last ends with an LF of the script, which the
\* literal does not have yet, and after the last there is none to come.
IInv == /\ script \in Seq(Char)
        /\ stub \in Seq(Seq(Char))
        /\ at \in 1..(Len(script) + 2)
        /\ stub = << >> <=> at = 1
        /\ at \in 2..(Len(script) + 1) => Unix[at - 1] = Append(Value, "LF")
        /\ LineEndsOnly => Clean(stub)
        /\ at = Len(script) + 2 => Unix[Len(script)] = Value /\ Value # << >> /\ Last(Value) # "LF"
================================================================================
