---------------------------- MODULE WriteStringProofs ----------------------------
(* Proofs about write_string and encode_into, for every set of strings and    *)
(* every length of the buffer.                                                *)
EXTENDS WriteString, Inductions

LEMMA AppendWithin ==
  ASSUME NEW q \in Seq(Nat), NEW lo \in Nat, NEW hi \in Nat, NEW hi2 \in Nat, NEW n \in Nat,
         Within(q, lo, hi), hi <= hi2, hi < n, n <= hi2, lo <= hi, Increasing(q)
  PROVE  /\ Within(Append(q, n), lo, hi2)
         /\ Increasing(Append(q, n))
<1> DEFINE r == Append(q, n)
<1>1. Len(r) = Len(q) + 1 /\ r[Len(q) + 1] = n /\ r \in Seq(Nat)
  OBVIOUS
<1>2. \A i \in DOMAIN q : r[i] = q[i] /\ q[i] \in Nat
  OBVIOUS
<1>3. DOMAIN r = DOMAIN q \cup {Len(q) + 1} /\ DOMAIN q = 1..Len(q)
  BY <1>1
<1> HIDE DEF r
<1>4. Within(r, lo, hi2)
  BY <1>1, <1>2, <1>3 DEF Within
<1>5. Increasing(r)
  <2> SUFFICES ASSUME NEW i \in DOMAIN r, NEW j \in DOMAIN r, i < j
               PROVE  r[i] < r[j]
    BY DEF Increasing
  <2>1. CASE j \in DOMAIN q
    BY <1>2, <1>3, <2>1 DEF Increasing
  <2>2. CASE j = Len(q) + 1
    BY <1>1, <1>2, <1>3, <2>2 DEF Within
  <2> QED
    BY <1>3, <2>1, <2>2
<1> QED
  BY <1>4, <1>5 DEF r

LEMMA ConcatWithin ==
  ASSUME NEW p \in Seq(Nat), NEW q \in Seq(Nat), NEW lo \in Nat, NEW mid \in Nat, NEW hi \in Nat,
         Within(p, lo, mid), Within(q, mid, hi), lo <= mid, mid <= hi, Increasing(p), Increasing(q)
  PROVE  /\ Within(p \o q, lo, hi)
         /\ Increasing(p \o q)
<1> DEFINE r == p \o q
<1>1. r \in Seq(Nat) /\ Len(r) = Len(p) + Len(q) /\ DOMAIN r = 1..(Len(p) + Len(q))
  OBVIOUS
<1>2. \A i \in 1..Len(p) : r[i] = p[i] /\ p[i] \in Nat
  OBVIOUS
<1>3. \A i \in 1..(Len(p) + Len(q)) :
        i > Len(p) => r[i] = q[i - Len(p)] /\ i - Len(p) \in 1..Len(q) /\ q[i - Len(p)] \in Nat
  OBVIOUS
<1>4. DOMAIN p = 1..Len(p) /\ DOMAIN q = 1..Len(q) /\ Len(p) \in Nat /\ Len(q) \in Nat
  OBVIOUS
<1> HIDE DEF r
<1>5. Within(r, lo, hi)
  <2> SUFFICES ASSUME NEW i \in DOMAIN r PROVE lo < r[i] /\ r[i] <= hi
    BY DEF Within
  <2>1. CASE i <= Len(p)
    <3>1. i \in 1..Len(p)
      BY <1>1, <1>4, <2>1
    <3> QED
      BY <1>2, <1>4, <3>1 DEF Within
  <2>2. CASE i > Len(p)
    <3>1. i \in 1..(Len(p) + Len(q))
      BY <1>1
    <3>2. r[i] = q[i - Len(p)] /\ i - Len(p) \in DOMAIN q /\ r[i] \in Nat
      BY <1>3, <1>4, <2>2, <3>1
    <3>3. mid < r[i] /\ r[i] <= hi
      BY <3>2 DEF Within
    <3> QED
      BY <3>2, <3>3
  <2> QED
    BY <1>1, <1>4, <2>1, <2>2
<1>6. Increasing(r)
  <2> SUFFICES ASSUME NEW i \in DOMAIN r, NEW j \in DOMAIN r, i < j
               PROVE  r[i] < r[j]
    BY DEF Increasing
  <2>1. CASE j <= Len(p)
    <3>1. i \in 1..Len(p) /\ j \in 1..Len(p)
      BY <1>1, <1>4, <2>1
    <3> QED
      BY <1>2, <1>4, <3>1 DEF Increasing
  <2>2. CASE i > Len(p)
    <3>1. /\ r[i] = q[i - Len(p)] /\ i - Len(p) \in 1..Len(q)
          /\ r[j] = q[j - Len(p)] /\ j - Len(p) \in 1..Len(q)
      <4>1. i \in 1..(Len(p) + Len(q)) /\ j \in 1..(Len(p) + Len(q))
        BY <1>1
      <4>2. j > Len(p)
        BY <1>4, <2>2, <4>1
      <4> QED
        BY <1>3, <2>2, <4>1, <4>2
    <3>2. i - Len(p) < j - Len(p)
      BY <1>1, <1>4
    <3> QED
      BY <1>4, <3>1, <3>2 DEF Increasing
  <2>3. CASE i <= Len(p) /\ j > Len(p)
    <3>1. i \in 1..Len(p) /\ r[i] = p[i] /\ r[i] <= mid /\ r[i] \in Nat
      BY <1>1, <1>2, <1>4, <2>3 DEF Within
    <3>2. mid < r[j] /\ r[j] \in Nat
      BY <1>1, <1>3, <1>4, <2>3 DEF Within
    <3> QED
      BY <3>1, <3>2
  <2> QED
    BY <1>1, <1>4, <2>1, <2>2, <2>3
<1> QED
  BY <1>5, <1>6 DEF r

--------------------------------------------------------------------------------
LEMMA InitIInv == Init => IInv
<1> SUFFICES ASSUME Init PROVE IInv
  OBVIOUS
<1>1. s \in Seq(Unit) /\ Limit \in Nat \ {0}
  BY WriteStringAssumption DEF Init
<1>2. TypeOK /\ BoundsInv
  BY <1>1 DEF Init, TypeOK, BoundsInv
<1>3. PlaceInv
  BY DEF Init, PlaceInv, Within, Increasing
<1>4. AsciiInv
  BY DEF Init, AsciiInv
<1> QED
  BY <1>2, <1>3, <1>4 DEF IInv

\* Inside the loop: what is read lies in the string, and the widths are right.
LEMMA LoopFacts ==
  ASSUME IInv, InLoop, ~Malformed
  PROVE  /\ Units \in 1..2
         /\ Width \in 1..4
         /\ start + src + Units <= Len(s)
         /\ Len(s) \in Nat
         /\ Ascii => Units = 1 /\ Width = 1
<1>1. s \in Seq(Unit) /\ start \in Nat /\ src \in Nat /\ start + src < Len(s) /\ Len(s) \in Nat
  BY DEF IInv, TypeOK, BoundsInv, InLoop, Left
<1>2. Units \in 1..2 /\ (IsPair => src + 1 < Len(s) - start) /\ (IsPair => At(src) = "high")
  BY DEF Units, IsPair, Left
<1>3. start + src + Units <= Len(s)
  BY <1>1, <1>2 DEF Units
<1>4. At(src) \in Unit
  BY <1>1 DEF At
<1>5. Width \in 1..4
  BY <1>4 DEF Width, Unit
<1>6. Ascii => At(src) = "one"
  BY <1>1 DEF Ascii, At
<1> QED
  BY <1>1, <1>2, <1>3, <1>5, <1>6 DEF Units, Width

LEMMA NextIInv == IInv /\ [Next]_vars => IInv'
<1> SUFFICES ASSUME IInv, [Next]_vars PROVE IInv'
  OBVIOUS
<1>0. /\ TypeOK /\ BoundsInv /\ PlaceInv /\ AsciiInv
      /\ Len(s) \in Nat /\ Limit \in Nat \ {0}
  BY WriteStringAssumption DEF IInv, TypeOK
<1>1. CASE Enter
  <2>1. TypeOK' /\ BoundsInv'
    BY <1>0, <1>1 DEF Enter, TypeOK, BoundsInv
  <2>2. PlaceInv'
    BY <1>0, <1>1 DEF Enter, TypeOK, PlaceInv
  <2>3. AsciiInv'
    BY <1>0, <1>1 DEF Enter, AsciiInv, Ascii
  <2> QED
    BY <2>1, <2>2, <2>3 DEF IInv
<1>2. CASE Encode
  <2>1. /\ Units \in 1..2 /\ Width \in 1..4 /\ start + src + Units <= Len(s)
        /\ Ascii => Units = 1 /\ Width = 1
    BY <1>2, LoopFacts DEF Encode
  <2>2. TypeOK'
    BY <1>0, <1>2, <2>1 DEF Encode, TypeOK
  <2>3. BoundsInv'
    BY <1>0, <1>2, <2>1 DEF Encode, TypeOK, BoundsInv, InLoop
  <2>4. PlaceInv'
    <3>1. pc = "encode" /\ pc' = "encode" /\ UNCHANGED <<start, out>>
      BY <1>2 DEF Encode, InLoop
    <3>2. Within(buf', start, start + src') /\ Increasing(buf')
      <4>1. buf' = Append(buf, start + src + 1) /\ src' = src + Units
        BY <1>2 DEF Encode
      <4>2. Within(buf, start, start + src) /\ Increasing(buf)
        BY <1>0, <3>1 DEF PlaceInv
      <4>3. /\ buf \in Seq(Nat) /\ start \in Nat /\ src \in Nat /\ start + src \in Nat
            /\ start + src + 1 \in Nat /\ start + src' \in Nat
            /\ start + src <= start + src' /\ start + src + 1 <= start + src'
            /\ start + src < start + src + 1 /\ start <= start + src
        BY <1>0, <2>1, <4>1 DEF TypeOK
      <4> QED
        BY <4>1, <4>2, <4>3, AppendWithin
    <3> QED
      BY <1>0, <3>1, <3>2 DEF PlaceInv
  <2>5. AsciiInv'
    <3> SUFFICES ASSUME Ascii PROVE AsciiInv'
      BY <1>2 DEF AsciiInv, Ascii, Encode
    <3>1. /\ pc = "encode" /\ pc' = "encode" /\ UNCHANGED <<start, out, s>>
          /\ src' = src + 1 /\ dst' = dst + 1 /\ buf' = Append(buf, start + src + 1)
      BY <1>2, <2>1 DEF Encode, InLoop
    <3>2. dst = src /\ Len(buf) = src /\ \A i \in DOMAIN buf : buf[i] = start + i
      BY <1>0, <3>1 DEF AsciiInv
    <3>3. Len(buf') = src' /\ \A i \in DOMAIN buf' : buf'[i] = start + i
      <4>1. buf \in Seq(Nat) /\ src \in Nat /\ start \in Nat
        BY <1>0 DEF TypeOK
      <4>2. Len(buf') = Len(buf) + 1
        BY <3>1, <4>1
      <4>3. \A i \in 1..(Len(buf) + 1) : buf'[i] = IF i = Len(buf) + 1 THEN start + src + 1 ELSE buf[i]
        BY <3>1, <4>1
      <4>4. \A i \in 1..Len(buf) : buf[i] = start + i
        BY <3>2, <4>1
      <4>5. DOMAIN buf' = 1..(Len(buf) + 1)
        BY <3>1, <4>1
      <4>6. ASSUME NEW i \in 1..(Len(buf) + 1) PROVE buf'[i] = start + i
        <5>1. CASE i = Len(buf) + 1
          BY <3>2, <4>1, <4>3, <5>1
        <5>2. CASE i \in 1..Len(buf)
          BY <4>1, <4>3, <4>4, <5>2
        <5> QED
          BY <4>1, <5>1, <5>2
      <4> QED
        BY <3>1, <3>2, <4>2, <4>5, <4>6
    <3> QED
      BY <1>0, <3>1, <3>2, <3>3 DEF AsciiInv
  <2> QED
    BY <2>2, <2>3, <2>4, <2>5 DEF IInv
<1>3. CASE Break
  <2>1. /\ Units \in 1..2 /\ Width \in 1..4 /\ start + src + Units <= Len(s)
        /\ Ascii => Units = 1 /\ Width = 1
    BY <1>3, LoopFacts DEF Break
  <2>2. ~Ascii
    BY <1>0, <1>3, <2>1 DEF Break, InLoop, TypeOK
  <2>3. TypeOK'
    BY <1>0, <1>3, <2>1 DEF Break, TypeOK
  <2>4. BoundsInv'
    BY <1>0, <1>3, <2>1 DEF Break, TypeOK, BoundsInv, InLoop
  <2>5. PlaceInv'
    BY <1>0, <1>3, <2>1 DEF Break, TypeOK, PlaceInv, InLoop, Within
  <2>6. AsciiInv'
    BY <1>3, <2>2 DEF Break, AsciiInv, Ascii
  <2> QED
    BY <2>3, <2>4, <2>5, <2>6 DEF IInv
<1>4. CASE Abort
  <2>1. ~Ascii
    <3>1. s \in Seq(Unit) /\ start + src + 1 \in 1..Len(s)
      BY <1>0, <1>4 DEF Abort, InLoop, Left, TypeOK
    <3> QED
      BY <1>4, <3>1 DEF Abort, Malformed, At, Ascii
  <2>2. TypeOK' /\ BoundsInv'
    BY <1>0, <1>4 DEF Abort, TypeOK, BoundsInv, InLoop
  <2>3. PlaceInv' /\ AsciiInv'
    BY <1>0, <1>4, <2>1 DEF Abort, PlaceInv, InLoop, AsciiInv, Ascii
  <2> QED
    BY <2>2, <2>3 DEF IInv
<1>5. CASE LoopDone
  <2>1. TypeOK' /\ BoundsInv'
    BY <1>0, <1>5 DEF LoopDone, TypeOK, BoundsInv
  <2>2. PlaceInv' /\ AsciiInv'
    BY <1>0, <1>5 DEF LoopDone, PlaceInv, AsciiInv, Ascii
  <2> QED
    BY <2>1, <2>2 DEF IInv
<1>6. ASSUME pc = "return", out' = out \o buf, buf' = << >>
      PROVE  /\ Within(out', 0, start + src) /\ Increasing(out') /\ out' \in Seq(Nat)
             /\ Within(buf', start + src, start + src) /\ Increasing(buf')
             /\ Ascii => Len(out') = start + src /\ \A i \in DOMAIN out' : out'[i] = i
  <2>1. /\ Within(out, 0, start) /\ Within(buf, start, start + src)
        /\ Increasing(out) /\ Increasing(buf)
    BY <1>0, <1>6 DEF PlaceInv
  <2>2. out \in Seq(Nat) /\ buf \in Seq(Nat) /\ start \in Nat /\ src \in Nat
    BY <1>0 DEF TypeOK
  <2>3. 0 <= start /\ start <= start + src /\ 0 \in Nat /\ start + src \in Nat
    BY <2>2
  <2>4. Within(out', 0, start + src) /\ Increasing(out')
    BY <1>6, <2>1, <2>2, <2>3, ConcatWithin
  <2>5. Within(buf', start + src, start + src) /\ Increasing(buf') /\ out' \in Seq(Nat)
    BY <1>6, <2>2 DEF Within, Increasing
  <2>6. ASSUME Ascii PROVE Len(out') = start + src /\ \A i \in DOMAIN out' : out'[i] = i
    <3>1. /\ Len(out) = start /\ \A i \in DOMAIN out : out[i] = i
          /\ Len(buf) = src /\ \A i \in DOMAIN buf : buf[i] = start + i
      BY <1>0, <1>6, <2>6 DEF AsciiInv
    <3>2. Len(out') = start + src /\ DOMAIN out' = 1..(start + src)
      <4>1. Len(out \o buf) = Len(out) + Len(buf) /\ out \o buf \in Seq(Nat)
        BY <2>2
      <4>2. Len(out') = start + src /\ out' \in Seq(Nat)
        BY <1>6, <3>1, <4>1
      <4> QED
        BY <4>2
    <3>3. ASSUME NEW i \in 1..(start + src) PROVE out'[i] = i
      <4>1. CASE i <= start
        <5>1. out'[i] = out[i] /\ i \in DOMAIN out
          BY <1>6, <2>2, <3>1, <4>1
        <5> QED
          BY <3>1, <5>1
      <4>2. CASE i > start
        <5>1. out'[i] = buf[i - start] /\ i - start \in DOMAIN buf
          BY <1>6, <2>2, <3>1, <4>2
        <5>2. buf[i - start] = start + (i - start)
          BY <3>1, <5>1
        <5> QED
          BY <2>2, <5>1, <5>2
      <4> QED
        BY <2>2, <4>1, <4>2
    <3> QED
      BY <3>2, <3>3
  <2> QED
    BY <2>4, <2>5, <2>6
<1>7. CASE Extract
  <2>1. /\ pc = "return" /\ out' = out \o buf /\ buf' = << >> /\ pc' = "slice"
        /\ start' = start + src /\ len' = len - src /\ UNCHANGED <<s, src, dst>>
    BY <1>7 DEF Extract
  <2>2. len' \in Nat /\ start' \in Nat /\ start' + len' = Len(s)
    <3>1. start \in Nat /\ len \in Nat /\ src \in Nat
      BY <1>0 DEF TypeOK
    <3>2. start + len = Len(s) /\ start + src <= Len(s)
      BY <1>0, <2>1 DEF BoundsInv
    <3> QED
      BY <1>0, <2>1, <3>1, <3>2
  <2>3. TypeOK' /\ BoundsInv'
    BY <1>0, <1>6, <2>1, <2>2 DEF TypeOK, BoundsInv
  <2>4. PlaceInv' /\ AsciiInv'
    BY <1>6, <2>1 DEF PlaceInv, AsciiInv, Ascii
  <2> QED
    BY <2>3, <2>4 DEF IInv
<1>8. CASE Finish
  <2>1. /\ pc = "return" /\ out' = out \o buf /\ buf' = << >> /\ pc' = "done"
        /\ len = src /\ len' = 0 /\ UNCHANGED <<s, start, src, dst>>
    BY <1>8 DEF Finish
  <2>2. start + src = Len(s)
    BY <1>0, <2>1 DEF BoundsInv
  <2>3. TypeOK' /\ BoundsInv'
    BY <1>0, <1>6, <2>1 DEF TypeOK, BoundsInv
  <2>4. PlaceInv'
    BY <1>6, <2>1 DEF PlaceInv, Within
  <2>5. AsciiInv'
    BY <1>6, <2>1, <2>2 DEF AsciiInv, Ascii
  <2> QED
    BY <2>3, <2>4, <2>5 DEF IInv
<1>9. CASE UNCHANGED vars
  BY <1>0, <1>9 DEF vars, IInv, TypeOK, BoundsInv, PlaceInv, AsciiInv, Ascii
<1> QED
  BY <1>1, <1>2, <1>3, <1>4, <1>5, <1>7, <1>8, <1>9 DEF Next, Step, Over

--------------------------------------------------------------------------------
\* The bounds of the buffer and the bookkeeping of the two loops, for every
\* string and every length of the buffer.
THEOREM WriteInvariant == Spec => []IInv
<1> QED
  BY InitIInv, NextIInv, PTL DEF Spec

\* No character is repeated or moved (js_glue:157-170).
THEOREM KeepsOrder == Spec => []InOrder
<1>1. IInv => InOrder
  <2> SUFFICES ASSUME IInv PROVE InOrder
    OBVIOUS
  <2>1. out \in Seq(Nat) /\ buf \in Seq(Nat) /\ start \in Nat /\ src \in Nat
    BY DEF IInv, TypeOK
  <2>2. Increasing(out) /\ Increasing(buf)
    BY DEF IInv, PlaceInv
  <2> DEFINE lo == IF pc = "done" THEN start + src ELSE start
             hi == IF pc = "slice" THEN start ELSE start + src
  <2>3. PICK mid \in Nat : Within(out, 0, mid) /\ Within(buf, mid, start + src) /\ mid <= start + src
    <3>1. CASE pc = "done"
      <4>1. Within(out, 0, start + src) /\ buf = << >>
        BY <3>1 DEF IInv, PlaceInv
      <4> QED
        BY <2>1, <4>1 DEF Within
    <3>2. CASE pc # "done"
      <4>1. Within(out, 0, start)
        BY <3>2 DEF IInv, PlaceInv
      <4>2. Within(buf, start, start + src)
        <5>1. CASE pc = "slice"
          <6>1. Within(buf, start, start)
            BY <5>1 DEF IInv, PlaceInv
          <6>2. DOMAIN buf = {}
            BY <2>1, <6>1 DEF Within
          <6> QED
            BY <6>2 DEF Within
        <5>2. CASE pc # "slice"
          BY <5>2 DEF IInv, PlaceInv
        <5> QED
          BY <5>1, <5>2
      <4>3. start \in Nat /\ start <= start + src
        BY <2>1
      <4> QED
        BY <4>1, <4>2, <4>3
    <3> QED
      BY <3>1, <3>2
  <2>4. 0 \in Nat /\ start + src \in Nat /\ 0 <= mid
    BY <2>1, <2>3
  <2> QED
    BY <2>1, <2>2, <2>3, <2>4, ConcatWithin DEF InOrder
<1> QED
  BY <1>1, WriteInvariant, PTL

\* ASCII text of any length arrives complete (wasmoo_extern.rs:2284-2289).
THEOREM AsciiArrives == Spec => []AsciiWhole
<1>1. IInv => AsciiWhole
  BY DEF IInv, TypeOK, AsciiInv, AsciiWhole, Written
<1> QED
  BY <1>1, WriteInvariant, PTL

--------------------------------------------------------------------------------
(* Well-formed strings.                                                       *)

\* How many bytes the units up to a place take, unit by unit.
LEMMA SizeSteps ==
  ASSUME s \in Seq(Unit)
  PROVE  /\ Size \in [0..Len(s) -> Nat]
         /\ Size[0] = 0
         /\ \A i \in 1..Len(s) : /\ i \in Starts => Size[i] = Size[i - 1] + Bytes(i) /\ Bytes(i) \in 1..4
                                 /\ i \notin Starts => Size[i] = Size[i - 1]
<1> DEFINE N == Len(s)
           more(i) == IF i \in Starts THEN Bytes(i) ELSE 0
           h == [q \in (1..N) \X Nat |-> q[2] + more(q[1])]
<1>1. N \in Nat
  OBVIOUS
<1>2. \A i \in 1..N : Bytes(i) \in 1..4 /\ more(i) \in Nat
  <2>1. \A i \in 1..N : Bytes(i) \in 1..4
    BY DEF Bytes, Unit
  <2>2. \A i \in 1..N : Bytes(i) \in Nat
    BY <2>1
  <2> QED
    BY <2>1, <2>2
<1>3. h \in [(1..N) \X Nat -> Nat]
  <2> HIDE DEF more, N
  <2>1. \A q \in (1..N) \X Nat : q[1] \in 1..N /\ q[2] \in Nat
    OBVIOUS
  <2>2. \A x, y \in Nat : x + y \in Nat
    OBVIOUS
  <2> QED
    BY <1>2, <2>1, <2>2
<1>4. PICK f \in [0..N -> Nat] : f[0] = 0 /\ \A i \in 1..N : f[i] = h[<<i, f[i - 1]>>]
  <2> PICK M, g : M = N /\ g = h
    OBVIOUS
  <2> HIDE DEF h, N
  <2>1. M \in Nat /\ 0 \in Nat /\ g \in [(1..M) \X Nat -> Nat]
    BY <1>1, <1>3
  <2>2. \E f \in [0..M -> Nat] : GoesBy(f, M, 0, g)
    BY <2>1, RecursionExists
  <2> QED
    BY <2>2 DEF GoesBy
<1>5. ASSUME NEW i \in 1..N PROVE f[i] = f[i - 1] + more(i) /\ f[i - 1] \in Nat
  <2>1. f[i - 1] \in Nat
    BY <1>1
  <2>2. h[<<i, f[i - 1]>>] = f[i - 1] + more(i)
    <3> HIDE DEF more, N
    <3> QED
      BY <2>1
  <2> HIDE DEF h
  <2> QED
    BY <1>4, <2>1, <2>2
<1>6. f = [i \in 0..N |-> IF i = 0 THEN 0 ELSE f[i - 1] + (IF i \in Starts THEN Bytes(i) ELSE 0)]
  <2> HIDE DEF h
  <2> QED
    BY <1>1, <1>4, <1>5
<1>7. Size = [i \in 0..N |-> IF i = 0 THEN 0 ELSE Size[i - 1] + (IF i \in Starts THEN Bytes(i) ELSE 0)]
  BY <1>6 DEF Size
<1>8. Size[0] = 0 /\ \A i \in 1..N : Size[i] = Size[i - 1] + more(i)
  BY <1>1, <1>7
<1>9. \A i \in 0..N : Size[i] \in Nat
  <2> DEFINE S == {i \in 0..N : Size[i] \in Nat}
  <2>1. 0 \in S
    BY <1>1, <1>8
  <2>2. ASSUME NEW i \in 1..N, i - 1 \in S PROVE i \in S
    <3>1. Size[i - 1] \in Nat /\ more(i) \in Nat /\ Size[i] = Size[i - 1] + more(i)
      BY <1>2, <1>8, <2>2
    <3> HIDE DEF more
    <3>2. Size[i] \in Nat
      BY <3>1
    <3> QED
      BY <1>1, <3>2
  <2>3. 0..N \subseteq S
    <3> HIDE DEF S, N
    <3> QED
      BY <1>1, <2>1, <2>2, UpTo
  <2> QED
    BY <2>3
<1>10. Size \in [0..N -> Nat]
  BY <1>7, <1>9
<1>11. ASSUME NEW i \in 1..N
       PROVE  /\ i \in Starts => Size[i] = Size[i - 1] + Bytes(i) /\ Bytes(i) \in 1..4
              /\ i \notin Starts => Size[i] = Size[i - 1]
  <2>1. Size[i] = Size[i - 1] + more(i) /\ Size[i - 1] \in Nat
    BY <1>1, <1>8, <1>9
  <2> QED
    BY <1>2, <2>1
<1> QED
  BY <1>8, <1>10, <1>11

\* More units take no fewer bytes.
LEMMA SizeGrows ==
  ASSUME s \in Seq(Unit), NEW i \in 0..Len(s), NEW j \in 0..Len(s), i <= j
  PROVE  Size[i] <= Size[j]
<1> DEFINE K == Len(s) - i
           S == {k \in 0..K : Size[i] <= Size[i + k]}
<1>1. /\ Len(s) \in Nat /\ i \in Nat /\ j \in Nat /\ K \in Nat /\ j - i \in 0..K /\ i + (j - i) = j
      /\ i + 0 = i
  OBVIOUS
<1>2. \A n \in 0..Len(s) : Size[n] \in Nat
  BY SizeSteps
<1>3. 0 \in S
  BY <1>1, <1>2
<1>4. ASSUME NEW k \in 1..K, k - 1 \in S PROVE k \in S
  <2>1. PICK m : m = i + k
    OBVIOUS
  <2>2. m \in 1..Len(s) /\ m - 1 = i + (k - 1) /\ m - 1 \in 0..Len(s) /\ m \in 0..Len(s)
    BY <1>1, <2>1
  <2>3. Size[m - 1] <= Size[m]
    <3>1. CASE m \in Starts
      <4>1. \A x \in Nat, y \in 1..4 : x <= x + y
        OBVIOUS
      <4> QED
        BY <1>2, <2>2, <3>1, <4>1, SizeSteps
    <3>2. CASE m \notin Starts
      <4>1. Size[m - 1] = Size[m]
        BY <2>2, <3>2, SizeSteps
      <4> QED
        BY <1>2, <2>2, <4>1
    <3> QED
      BY <3>1, <3>2
  <2>4. Size[i] <= Size[m - 1]
    BY <1>4, <2>2
  <2>5. Size[i] <= Size[m]
    <3>1. Size[i] \in Nat /\ Size[m - 1] \in Nat /\ Size[m] \in Nat
      BY <1>2, <2>2
    <3> HIDE DEF K
    <3> QED
      BY <2>3, <2>4, <3>1
  <2> QED
    BY <1>1, <2>1, <2>5
<1>5. 0..K \subseteq S
  <2> HIDE DEF S, K
  <2> QED
    BY <1>1, <1>3, <1>4, UpTo
<1>6. j - i \in S
  BY <1>1, <1>5
<1> QED
  BY <1>1, <1>6

\* Inside the loop, a well-formed string is read character by character.
LEMMA LoopWhole ==
  ASSUME IInv, WholeInv, WellFormed, InLoop, NEW p, p = start + src + 1
  PROVE  /\ ~Malformed
         /\ p \in Starts /\ Width = Bytes(p)
         /\ Units \in 1..2
         /\ Units = 2 => p + 1 \in 1..Len(s) /\ p + 1 \notin Starts
         /\ start + (src + Units) < Len(s) => start + (src + Units) + 1 \in Starts
<1>1. /\ s \in Seq(Unit) /\ start \in Nat /\ src \in Nat /\ start + src < Len(s) /\ Len(s) \in Nat
      /\ p \in 1..Len(s) /\ p = start + src + 1 /\ start + (src + 1) + 1 = p + 1
      /\ DOMAIN s = 1..Len(s)
  BY DEF IInv, TypeOK, BoundsInv, InLoop, Left
<1>2. At(src) = s[p] /\ At(src + 1) = s[p + 1]
  BY <1>1 DEF At
<1>3. p \in Starts
  BY <1>1 DEF WholeInv, Done, InLoop
<1>4. s[p] = "high" => p < Len(s) /\ s[p + 1] = "low" /\ p + 1 \in 1..Len(s)
  <2>1. \A i \in 1..Len(s) : s[i] = "high" => i < Len(s) /\ s[i + 1] = "low"
    BY <1>1 DEF WellFormed
  <2>2. p < Len(s) => p + 1 \in 1..Len(s)
    BY <1>1
  <2> QED
    BY <1>1, <2>1, <2>2
<1>5. \A i \in 1..Len(s) : s[i] = "low" => i > 1 /\ s[i - 1] = "high"
  BY <1>1 DEF WellFormed
<1>6. s[p] # "low"
  BY <1>1, <1>3, <1>5 DEF Starts
<1>7. IsPair <=> s[p] = "high"
  <2>1. s[p] = "high" => src + 1 < Left
    BY <1>1, <1>4 DEF Left
  <2> QED
    BY <1>2, <1>4, <2>1 DEF IsPair
<1>8. ~Malformed
  BY <1>2, <1>7 DEF Malformed
<1>9. Width = Bytes(p)
  <2>1. s[p] \in {"one", "two", "three", "high"}
    BY <1>1, <1>6 DEF Unit
  <2> QED
    BY <1>2, <2>1 DEF Width, Bytes
<1>10. CASE s[p] = "high"
  <2>1. Units = 2 /\ src + Units = (src + 1) + 1 /\ start + (src + Units) = p + 1
    BY <1>1, <1>7, <1>10 DEF Units
  <2>2. p + 1 \in 1..Len(s) /\ p + 1 \notin Starts
    <3>1. (p + 1) - 1 = p /\ p + 1 > 1
      BY <1>1
    <3> QED
      BY <1>4, <1>10, <3>1 DEF Starts
  <2>3. p + 1 < Len(s) => (p + 1) + 1 \in Starts
    <3> SUFFICES ASSUME p + 1 < Len(s) PROVE (p + 1) + 1 \in Starts
      OBVIOUS
    <3>1. (p + 1) + 1 \in DOMAIN s /\ ((p + 1) + 1) - 1 = p + 1
      BY <1>1
    <3>2. s[p + 1] # "high"
      BY <1>4, <1>10
    <3> QED
      BY <3>1, <3>2 DEF Starts
  <2> QED
    BY <1>3, <1>8, <1>9, <2>1, <2>2, <2>3
<1>11. CASE s[p] # "high"
  <2>1. Units = 1 /\ start + (src + Units) = p
    BY <1>1, <1>7, <1>11 DEF Units
  <2>2. p < Len(s) => p + 1 \in Starts
    <3> SUFFICES ASSUME p < Len(s) PROVE p + 1 \in Starts
      OBVIOUS
    <3>1. p + 1 \in DOMAIN s /\ (p + 1) - 1 = p
      BY <1>1
    <3> QED
      BY <1>11, <3>1 DEF Starts
  <2> QED
    BY <1>3, <1>8, <1>9, <2>1, <2>2
<1> QED
  BY <1>10, <1>11

\* With a character, the sizes and the characters before the place it leads to grow by it.
LEMMA OneMore ==
  ASSUME s \in Seq(Unit), NEW p \in Starts, NEW k \in 1..2, p + k - 1 <= Len(s),
         k = 2 => p + 1 \in 1..Len(s) /\ p + 1 \notin Starts
  PROVE  /\ Size[p - 1] \in Nat /\ Bytes(p) \in 1..4
         /\ Size[p + k - 1] = Size[p - 1] + Bytes(p)
         /\ Size[p + k - 1] <= Size[Len(s)] /\ Size[Len(s)] \in Nat
         /\ Starts \cap (1..(p + k - 1)) = (Starts \cap (1..(p - 1))) \cup {p}
<1>1. p \in 1..Len(s) /\ Len(s) \in Nat /\ p - 1 \in 0..Len(s) /\ Len(s) \in 0..Len(s)
  BY DEF Starts
<1>2. Size[p - 1] \in Nat /\ Bytes(p) \in 1..4 /\ Size[p] = Size[p - 1] + Bytes(p) /\ Size[Len(s)] \in Nat
  BY <1>1, SizeSteps
<1>3. CASE k = 1
  <2>1. p + k - 1 = p
    BY <1>1, <1>3
  <2>2. Size[p] <= Size[Len(s)]
    BY <1>1, SizeGrows
  <2>3. Starts \cap (1..p) = (Starts \cap (1..(p - 1))) \cup {p}
    BY <1>1
  <2> QED
    BY <1>2, <2>1, <2>2, <2>3
<1>4. CASE k = 2
  <2>1. p + k - 1 = p + 1 /\ p + 1 \in 0..Len(s) /\ (p + 1) - 1 = p
    BY <1>1, <1>4
  <2>2. Size[p + 1] = Size[p]
    BY <1>4, <2>1, SizeSteps
  <2>3. Size[p + 1] <= Size[Len(s)]
    BY <1>1, <2>1, SizeGrows
  <2>4. Starts \cap (1..(p + 1)) = (Starts \cap (1..(p - 1))) \cup {p}
    <3>1. \A i \in 1..(p + 1) : i \in 1..(p - 1) \/ i = p \/ i = p + 1
      BY <1>1
    <3>2. 1..(p - 1) \subseteq 1..(p + 1) /\ p \in 1..(p + 1)
      BY <1>1
    <3> QED
      BY <1>4, <3>1, <3>2
  <2> QED
    BY <1>2, <2>1, <2>2, <2>3, <2>4
<1> QED
  BY <1>3, <1>4

LEMMA InitWhole == Init => WholeInv
<1> SUFFICES ASSUME Init, WellFormed PROVE WholeInv
  BY DEF WholeInv
<1>1. s \in Seq(Unit)
  BY WriteStringAssumption DEF Init
<1>2. 0 < Len(s) => 0 + 1 \in Starts
  <2>1. Len(s) \in Nat /\ DOMAIN s = 1..Len(s)
    BY <1>1
  <2> QED
    BY <2>1 DEF Starts
<1> QED
  BY <1>2 DEF Init, WholeInv, Done

LEMMA NextWhole == IInv /\ WholeInv /\ [Next]_vars => WholeInv'
<1> SUFFICES ASSUME IInv, WholeInv, [Next]_vars, WellFormed PROVE WholeInv'
  BY DEF WholeInv, WellFormed, vars, Next, Step, Enter, Encode, Break, Abort, LoopDone, Extract, Finish, Over
<1>1. /\ s \in Seq(Unit) /\ start \in Nat /\ src \in Nat /\ dst \in Nat /\ len \in Nat
      /\ buf \in Seq(Nat) /\ out \in Seq(Nat) /\ Len(s) \in Nat /\ Limit \in Nat
      /\ pc # "done" => start + len = Len(s)
      /\ start + src <= Len(s) \/ pc = "slice"
  BY WriteStringAssumption DEF IInv, TypeOK, BoundsInv
<1>2. /\ s' = s
      /\ WellFormed' = WellFormed /\ Starts' = Starts /\ Size' = Size /\ Fits' = Fits
  <2>1. s' = s
    BY DEF vars, Next, Step, Enter, Encode, Break, Abort, LoopDone, Extract, Finish, Over
  <2>2. Starts' = Starts
    BY <2>1 DEF Starts
  <2>3. Size' = Size
    BY <2>1, <2>2 DEF Size, Bytes
  <2>4. Fits' = Fits
    BY <2>1, <2>3 DEF Fits
  <2> QED
    BY <2>1, <2>2, <2>3, <2>4 DEF WellFormed
<1> DEFINE Got == {buf[i] : i \in DOMAIN buf}
<1>3. /\ pc # "abort"
      /\ pc # "done" /\ Done < Len(s) => Done + 1 \in Starts
      /\ Fits => /\ pc # "done" => start = 0 /\ out = << >>
                 /\ pc = "slice" => buf = << >>
                 /\ pc \in {"encode", "return"} => dst = Size[src] /\ Got = Starts \cap (1..src)
                 /\ pc = "return" => src = Len(s)
                 /\ pc = "done" => Written = Starts
  BY DEF WholeInv
<1>4. SUFFICES /\ pc' # "abort"
               /\ pc' # "done" /\ Done' < Len(s) => Done' + 1 \in Starts
               /\ Fits => /\ pc' # "done" => start' = 0 /\ out' = << >>
                          /\ pc' = "slice" => buf' = << >>
                          /\ pc' \in {"encode", "return"} => dst' = Size[src'] /\ Got' = Starts \cap (1..src')
                          /\ pc' = "return" => src' = Len(s)
                          /\ pc' = "done" => Written' = Starts
  BY <1>2 DEF WholeInv
<1>5. CASE Enter
  <2>1. /\ pc = "slice" /\ pc' = "encode" /\ src' = 0 /\ dst' = 0 /\ start' = start /\ buf' = buf /\ out' = out
    BY <1>5 DEF Enter
  <2>2. Done' = Done
    BY <1>1, <2>1 DEF Done
  <2>3. Fits => dst' = Size[src'] /\ Got' = Starts \cap (1..src')
    BY <1>1, <1>3, <2>1, SizeSteps
  <2> QED
    BY <1>3, <2>1, <2>2, <2>3
<1>6. ASSUME InLoop, NEW p, p = start + src + 1
      PROVE  /\ ~Malformed
             /\ p \in Starts /\ Width = Bytes(p)
             /\ Units \in 1..2
             /\ Units = 2 => p + 1 \in 1..Len(s) /\ p + 1 \notin Starts
             /\ start + (src + Units) < Len(s) => start + (src + Units) + 1 \in Starts
             /\ pc = "encode"
  BY <1>6, LoopWhole DEF InLoop
<1>7. ASSUME InLoop, Fits, NEW p, p = start + src + 1
      PROVE  /\ p = src + 1 /\ dst + Width = Size[src + Units] /\ dst + Width <= Limit
             /\ Starts \cap (1..(src + Units)) = (Starts \cap (1..src)) \cup {p}
  <2>1. /\ p \in Starts /\ Width = Bytes(p) /\ Units \in 1..2 /\ pc = "encode" /\ ~Malformed
        /\ Units = 2 => p + 1 \in 1..Len(s) /\ p + 1 \notin Starts
    BY <1>6, <1>7
  <2>2. start = 0 /\ dst = Size[src]
    BY <1>3, <1>7, <2>1
  <2>3. p = src + 1 /\ p - 1 = src /\ p + Units - 1 = src + Units /\ p + Units - 1 <= Len(s)
    <3>1. start + src + Units <= Len(s)
      BY <1>7, <2>1, LoopFacts
    <3> QED
      BY <1>1, <1>7, <2>1, <2>2, <3>1
  <2>4. PICK k : k = Units
    OBVIOUS
  <2>5. /\ Size[p + k - 1] = Size[p - 1] + Bytes(p) /\ Size[p + k - 1] <= Size[Len(s)]
        /\ Starts \cap (1..(p + k - 1)) = (Starts \cap (1..(p - 1))) \cup {p}
        /\ Size[p - 1] \in Nat /\ Bytes(p) \in 1..4 /\ Size[Len(s)] \in Nat
    BY <1>1, <2>1, <2>3, <2>4, OneMore
  <2>6. Size[Len(s)] <= Limit
    BY <1>7 DEF Fits
  <2>7. p + k - 1 = src + Units /\ p - 1 = src
    BY <2>3, <2>4
  <2> HIDE DEF Got
  <2>8. Size[src + Units] = dst + Width
    BY <2>1, <2>2, <2>5, <2>7
  <2>9. dst + Width <= Limit
    <3>1. Size[src + Units] <= Size[Len(s)]
      BY <2>5, <2>7
    <3>2. dst \in Nat /\ Width \in 1..4 /\ Size[Len(s)] \in Nat /\ Limit \in Nat
      BY <1>1, <2>1, <2>5
    <3> QED
      BY <2>6, <2>8, <3>1, <3>2
  <2>10. Starts \cap (1..(src + Units)) = (Starts \cap (1..src)) \cup {p}
    BY <2>5, <2>7
  <2> QED
    BY <2>3, <2>8, <2>9, <2>10
<1>8. CASE Encode
  <2>1. /\ InLoop /\ pc' = pc /\ start' = start /\ out' = out /\ src' = src + Units /\ dst' = dst + Width
        /\ buf' = Append(buf, start + src + 1)
    BY <1>8 DEF Encode
  <2>2. PICK p : p = start + src + 1
    OBVIOUS
  <2>3. pc = "encode" /\ pc' = "encode" /\ Done' = start + (src + Units)
    BY <2>1, <2>2, <1>6 DEF Done
  <2>4. Done' < Len(s) => Done' + 1 \in Starts
    BY <1>6, <2>1, <2>2, <2>3
  <2>5. ASSUME Fits PROVE dst' = Size[src'] /\ Got' = Starts \cap (1..src') /\ start' = 0 /\ out' = << >>
    <3>1. Got' = Got \cup {p}
      <4>1. p \in Nat
        BY <1>1, <2>2
      <4>2. /\ Len(buf) \in Nat /\ DOMAIN buf = 1..Len(buf) /\ DOMAIN buf' = 1..(Len(buf) + 1)
            /\ buf'[Len(buf) + 1] = p /\ \A i \in 1..Len(buf) : buf'[i] = buf[i]
        BY <1>1, <2>1, <2>2, <4>1
      <4>3. \A i \in 1..(Len(buf) + 1) : i \in 1..Len(buf) \/ i = Len(buf) + 1
        BY <4>2
      <4>4. 1..Len(buf) \subseteq 1..(Len(buf) + 1) /\ Len(buf) + 1 \in 1..(Len(buf) + 1)
        BY <4>2
      <4> QED
        BY <4>2, <4>3, <4>4
    <3> HIDE DEF Got
    <3> QED
      BY <1>3, <1>7, <2>1, <2>2, <2>3, <2>5, <3>1
  <2> HIDE DEF Got
  <2> QED
    BY <2>3, <2>4, <2>5
<1>9. CASE Break
  <2>1. /\ InLoop /\ pc' = "return" /\ start' = start /\ src' = src + Units /\ dst + Width > Limit
        /\ out' = out
    BY <1>9 DEF Break
  <2>2. PICK p : p = start + src + 1
    OBVIOUS
  <2>3. ~Fits
    <3>1. Width \in 1..4
      <4>1. ~Malformed
        BY <1>6, <2>1, <2>2
      <4> QED
        BY <2>1, <4>1, LoopFacts
    <3> QED
      BY <1>1, <1>7, <2>1, <2>2, <3>1
  <2>4. Done' = start + (src + Units)
    BY <2>1 DEF Done
  <2> QED
    BY <1>6, <2>1, <2>2, <2>3, <2>4
<1>10. CASE Abort
  <2>1. InLoop /\ Malformed
    BY <1>10 DEF Abort
  <2> QED
    BY <1>6, <2>1
<1>11. CASE LoopDone
  <2>1. /\ pc = "encode" /\ pc' = "return" /\ start' = start /\ src' = src /\ dst' = dst /\ buf' = buf
        /\ out' = out /\ (dst >= Limit \/ src >= Left)
    BY <1>11 DEF LoopDone
  <2>2. Done' = Done
    BY <2>1 DEF Done
  <2>3. ASSUME Fits PROVE src = Len(s)
    <3>1. start = 0 /\ dst = Size[src] /\ src <= Len(s)
      BY <1>1, <1>3, <2>1, <2>3
    <3> SUFFICES ASSUME src < Len(s) PROVE FALSE
      BY <1>1, <3>1
    <3>2. src + 1 \in Starts /\ src + 1 \in 1..Len(s) /\ src \in 0..Len(s) /\ (src + 1) - 1 = src
          /\ src + 1 \in 0..Len(s) /\ Len(s) \in 0..Len(s)
      BY <1>1, <1>3, <2>1, <3>1 DEF Done
    <3>3. Size[src + 1] = Size[src] + Bytes(src + 1) /\ Bytes(src + 1) \in 1..4
      BY <1>1, <3>2, SizeSteps
    <3>4. Size[src + 1] <= Size[Len(s)]
      BY <1>1, <3>2, SizeGrows
    <3>5. Size[src] \in Nat /\ Size[Len(s)] \in Nat
      BY <1>1, <3>2, SizeSteps
    <3>6. Size[Len(s)] <= Limit
      BY <2>3 DEF Fits
    <3>7. dst < Limit
      BY <1>1, <3>1, <3>3, <3>4, <3>5, <3>6
    <3>8. src < Left
      BY <1>1, <3>1 DEF Left
    <3> QED
      BY <1>1, <2>1, <3>7, <3>8 DEF Left
  <2> QED
    BY <1>3, <2>1, <2>2, <2>3
<1>12. CASE Extract
  <2>1. /\ pc = "return" /\ len # src /\ pc' = "slice" /\ start' = start + src /\ buf' = << >>
    BY <1>12 DEF Extract
  <2>2. ~Fits
    BY <1>1, <1>3, <2>1
  <2>3. Done' = Done
    BY <2>1 DEF Done
  <2> QED
    BY <1>3, <2>1, <2>2, <2>3
<1>13. CASE Finish
  <2>1. pc = "return" /\ pc' = "done" /\ out' = out \o buf
    BY <1>13 DEF Finish
  <2>2. ASSUME Fits PROVE Written' = Starts
    <3>1. out = << >> /\ src = Len(s) /\ Got = Starts \cap (1..src)
      BY <1>3, <2>1, <2>2
    <3>2. out' = buf
      BY <1>1, <2>1, <3>1
    <3>3. Starts \subseteq 1..src
      BY <1>1, <3>1 DEF Starts
    <3> QED
      BY <3>1, <3>2, <3>3 DEF Written
  <2> QED
    BY <2>1, <2>2
<1>14. CASE UNCHANGED vars \/ Over
  <2>1. UNCHANGED vars
    BY <1>14 DEF Over
  <2> QED
    BY <1>3, <2>1 DEF vars, Done, Written
<1> QED
  BY <1>5, <1>8, <1>9, <1>10, <1>11, <1>12, <1>13, <1>14 DEF Next, Step

\* A well-formed string never aborts the process, and arrives complete if its UTF-8 form
\* fits into the buffer, for every string and every buffer
\* (wasmoo_extern.rs:2337-2367, js_glue:157-170).
THEOREM WholeArrives == Spec => []WholeIfFits
<1>1. WholeInv => WholeIfFits
  BY DEF WholeInv, WholeIfFits
<1>2. Spec => []WholeInv
  <2>1. Spec => []IInv
    BY WriteInvariant
  <2> QED
    BY <2>1, InitWhole, NextWhole, PTL DEF Spec
<1> QED
  BY <1>1, <1>2, PTL

--------------------------------------------------------------------------------
(* Progress.                                                                  *)

\* What is left to do: four for each unit that has not been read, and something for
\* the place in the two loops.  Reading pays for the way round to the next call.
Weight == CASE pc = "slice" -> 3
            [] pc = "encode" -> IF src = 0 THEN 2 ELSE 5
            [] pc = "return" -> IF src = 0 THEN 1 ELSE 4
            [] OTHER -> 0

Work == IF pc \in {"done", "abort"} THEN 0 ELSE 4 * (Len(s) - Done) + Weight

\* A call that has read nothing has written nothing, and ends only if there was nothing.
FirstRead == /\ pc = "encode" /\ src = 0 => dst = 0
             /\ pc = "return" => src > 0 \/ len = 0

LEMMA NextFirstRead == IInv /\ FirstRead /\ [Next]_vars => FirstRead'
<1> SUFFICES ASSUME IInv, FirstRead, [Next]_vars PROVE FirstRead'
  OBVIOUS
<1>1. /\ Len(s) \in Nat /\ start \in Nat /\ src \in Nat /\ dst \in Nat /\ len \in Nat /\ Limit \in Nat \ {0}
      /\ pc # "done" => start + len = Len(s)
      /\ pc = "slice" \/ start + src <= Len(s)
  BY WriteStringAssumption DEF IInv, TypeOK, BoundsInv
<1>2. CASE Encode \/ Break
  <2>1. Units \in 1..2 /\ src' = src + Units
    BY <1>2, LoopFacts DEF Encode, Break
  <2>2. src' > 0
    BY <1>1, <2>1
  <2> QED
    BY <1>1, <2>1, <2>2 DEF FirstRead
<1>3. CASE LoopDone
  <2>1. pc = "encode" /\ pc' = "return" /\ src' = src /\ len' = len /\ (dst >= Limit \/ src >= Len(s) - start)
    BY <1>3 DEF LoopDone, Left
  <2>2. dst >= Limit => src # 0
    BY <1>1, <2>1 DEF FirstRead
  <2>3. src >= Len(s) - start /\ src = 0 => len = 0
    BY <1>1, <2>1
  <2> QED
    BY <1>1, <2>1, <2>2, <2>3 DEF FirstRead
<1>4. CASE Enter
  BY <1>4 DEF Enter, FirstRead
<1>5. CASE Abort \/ Extract \/ Finish
  BY <1>5 DEF Abort, Extract, Finish, FirstRead
<1>6. CASE UNCHANGED vars
  BY <1>6 DEF vars, FirstRead
<1> QED
  BY <1>2, <1>3, <1>4, <1>5, <1>6 DEF Next, Step, Over

LEMMA WorkShrinks ==
  ASSUME IInv, FirstRead, [Next]_vars, vars' # vars
  PROVE  Work \in Nat /\ Work' \in Nat /\ Work' < Work
<1>1. /\ Len(s) \in Nat /\ start \in Nat /\ src \in Nat /\ len \in Nat
      /\ pc # "done" => start + len = Len(s)
      /\ pc = "slice" \/ start + src <= Len(s)
      /\ (pc = "return" => src > 0 \/ len = 0)
  BY DEF IInv, TypeOK, BoundsInv, FirstRead
<1>2. PICK n : n = Len(s)
  OBVIOUS
<1>3. s' = s
  BY DEF vars, Next, Step, Enter, Encode, Break, Abort, LoopDone, Extract, Finish, Over
<1>4. CASE Enter
  <2>1. pc = "slice" /\ pc' = "encode" /\ src' = 0 /\ start' = start
    BY <1>4 DEF Enter
  <2>2. Done = start /\ Done' = start /\ Weight = 3 /\ Weight' = 2
    BY <1>1, <2>1 DEF Done, Weight
  <2>3. Work = 4 * (n - start) + 3 /\ Work' = 4 * (n - start) + 2
    BY <1>2, <1>3, <2>1, <2>2 DEF Work
  <2> QED
    BY <1>1, <1>2, <2>1, <2>3
<1>5. CASE Encode \/ Break
  <2>1. /\ pc = "encode" /\ pc' \in {"encode", "return"} /\ src' = src + Units /\ start' = start
        /\ Units \in 1..2 /\ start + src + Units <= n
    BY <1>2, <1>5, LoopFacts DEF Encode, Break, InLoop
  <2>2. PICK u : u = Units
    OBVIOUS
  <2>3. Done = start + src /\ Done' = start + (src + u) /\ Weight \in {2, 5} /\ Weight' \in {4, 5} /\ src + u # 0
    BY <1>1, <2>1, <2>2 DEF Done, Weight
  <2>4. Weight' <= Weight + 3
    BY <2>3
  <2>5. Work = 4 * (n - (start + src)) + Weight /\ Work' = 4 * (n - (start + (src + u))) + Weight'
    BY <1>2, <1>3, <2>1, <2>3 DEF Work
  <2>6. u \in 1..2 /\ start + src + u <= n
    BY <2>1, <2>2
  <2> QED
    BY <1>1, <1>2, <2>3, <2>4, <2>5, <2>6
<1>6. CASE LoopDone
  <2>1. pc = "encode" /\ pc' = "return" /\ src' = src /\ start' = start
    BY <1>6 DEF LoopDone
  <2>2. Done = start + src /\ Done' = start + src /\ Weight' = Weight - 1 /\ Weight \in {2, 5}
    BY <1>1, <2>1 DEF Done, Weight
  <2>3. Work = 4 * (n - (start + src)) + Weight /\ Work' = 4 * (n - (start + src)) + Weight'
    BY <1>2, <1>3, <2>1, <2>2 DEF Work
  <2> QED
    BY <1>1, <1>2, <2>1, <2>2, <2>3
<1>7. CASE Extract
  <2>1. pc = "return" /\ pc' = "slice" /\ start' = start + src /\ len # src
    BY <1>7 DEF Extract
  <2>2. src # 0
    BY <1>1, <2>1
  <2>3. Done = start + src /\ Done' = start + src /\ Weight = 4 /\ Weight' = 3
    BY <2>1, <2>2 DEF Done, Weight
  <2>4. Work = 4 * (n - (start + src)) + 4 /\ Work' = 4 * (n - (start + src)) + 3
    BY <1>2, <1>3, <2>1, <2>3 DEF Work
  <2> QED
    BY <1>1, <1>2, <2>1, <2>4
<1>8. CASE Abort \/ Finish
  <2>1. pc \in {"encode", "return"} /\ pc' \in {"done", "abort"}
    BY <1>8 DEF Abort, Finish, InLoop
  <2>2. Work' = 0
    BY <2>1 DEF Work
  <2>3. Done = start + src /\ Weight \in 1..5
    BY <1>1, <2>1 DEF Done, Weight
  <2>4. Work = 4 * (n - (start + src)) + Weight
    BY <1>2, <2>1, <2>3 DEF Work
  <2> QED
    BY <1>1, <1>2, <2>1, <2>2, <2>3, <2>4
<1> QED
  BY <1>4, <1>5, <1>6, <1>7, <1>8 DEF Next, Step, Over

\* Every step of the two loops leaves less to be done, whatever the string and however
\* short the buffer is (js_glue:157-170, wasmoo_extern.rs:2337-2369): no call of
\* encode_into is made in vain.
THEOREM EveryStepCounts ==
  Spec => [][Work' < Work /\ {Work, Work'} \subseteq Nat]_vars
<1>1. Init => FirstRead
  BY DEF Init, FirstRead
<1>2. Spec => []FirstRead
  BY <1>1, WriteInvariant, NextFirstRead, PTL DEF Spec
<1>3. IInv /\ FirstRead /\ [Next]_vars => [Work' < Work /\ {Work, Work'} \subseteq Nat]_vars
  BY WorkShrinks
<1> QED
  BY <1>2, <1>3, WriteInvariant, PTL DEF Spec
================================================================================
