------------------------------- MODULE Inductions -------------------------------
(* Induction over the natural numbers, and over the steps of a definition by  *)
(* recursion, stated with sets instead of predicates.                         *)
EXTENDS Naturals, WellFoundedInduction, TLAPS

LEMMA NatMin ==
  ASSUME NEW T, T \subseteq Nat, T # {}
  PROVE  \E x \in T : \A y \in T : x <= y
<1> DEFINE R == OpToRel(<, Nat)
<1>1. IsWellFoundedOn(R, Nat)
  BY NatLessThanWellFounded
<1> HIDE DEF R
<1>2. \E x \in T : \A y \in T : ~ (<<y, x>> \in R)
  BY <1>1, WFMin
<1>3. \A x, y \in T : ~ (<<y, x>> \in R) => x <= y
  <2>1. \A x, y \in Nat : y < x => <<y, x>> \in R
    BY DEF R, OpToRel
  <2>2. \A x, y \in Nat : ~(y < x) => x <= y
    OBVIOUS
  <2> QED BY <2>1, <2>2
<1> QED BY <1>2, <1>3

LEMMA SetInduction ==
  ASSUME NEW S, 0 \in S, \A n \in Nat : n \in S => n + 1 \in S
  PROVE  Nat \subseteq S
<1> DEFINE T == Nat \ S
<1> SUFFICES ASSUME T # {} PROVE FALSE
  OBVIOUS
<1>1. PICK x \in T : \A y \in T : x <= y
  <2>1. T \subseteq Nat
    OBVIOUS
  <2> HIDE DEF T
  <2> QED BY <2>1, NatMin
<1>2. x \in Nat /\ x # 0
  OBVIOUS
<1>3. x - 1 \in Nat /\ ~(x <= x - 1) /\ (x - 1) + 1 = x
  BY <1>2
<1>4. x - 1 \in S
  BY <1>1, <1>3
<1> QED BY <1>3, <1>4

\* The same up to a bound.
LEMMA UpTo ==
  ASSUME NEW N \in Nat, NEW S, 0 \in S, \A n \in 1..N : n - 1 \in S => n \in S
  PROVE  0..N \subseteq S
<1> DEFINE T == S \cup {n \in Nat : n > N}
<1>1. 0 \in T
  OBVIOUS
<1>2. ASSUME NEW n \in Nat, n \in T PROVE n + 1 \in T
  <2>1. CASE n + 1 \in 1..N
    <3>1. n \in S /\ (n + 1) - 1 = n
      BY <1>2, <2>1
    <3> QED
      BY <2>1, <3>1
  <2>2. CASE n + 1 \notin 1..N
    BY <2>2
  <2> QED
    BY <2>1, <2>2
<1>3. Nat \subseteq T
  <2> HIDE DEF T
  <2> QED
    BY <1>1, <1>2, SetInduction
<1> QED
  BY <1>3

\* f is a at 0, and goes on by h.
GoesBy(f, N, a, h) == f[0] = a /\ \A i \in 1..N : f[i] = h[<<i, f[i - 1]>>]

\* A function on 0..N is defined by its value at 0 and by a step.
LEMMA RecursionExists ==
  ASSUME NEW N \in Nat, NEW X, NEW a \in X, NEW h \in [(1..N) \X X -> X]
  PROVE  \E f \in [0..N -> X] : GoesBy(f, N, a, h)
<1> DEFINE Good(f, n) == f[0] = a /\ \A i \in 1..n : f[i] = h[<<i, f[i - 1]>>]
           S == {n \in 0..N : \E f \in [0..N -> X] : Good(f, n)}
<1>1. 0 \in S
  <2> DEFINE f == [i \in 0..N |-> a]
  <2>1. f \in [0..N -> X] /\ Good(f, 0)
    OBVIOUS
  <2> HIDE DEF f, Good
  <2> QED
    BY <2>1
<1>2. ASSUME NEW n \in 1..N, n - 1 \in S PROVE n \in S
  <2>1. PICK g \in [0..N -> X] : Good(g, n - 1)
    BY <1>2
  <2> DEFINE v == h[<<n, g[n - 1]>>]
             f == [g EXCEPT ![n] = v]
  <2>2. n - 1 \in 0..N /\ g[n - 1] \in X
    OBVIOUS
  <2>3. v \in X
    BY <2>2
  <2>4. f \in [0..N -> X] /\ f[n] = v /\ \A i \in 0..N : i # n => f[i] = g[i]
    BY <2>3
  <2>5. Good(f, n)
    <3> HIDE DEF f
    <3>1. f[0] = a
      BY <2>1, <2>4
    <3>2. ASSUME NEW i \in 1..n PROVE f[i] = h[<<i, f[i - 1]>>]
      <4>1. f[i - 1] = g[i - 1]
        BY <2>4
      <4>2. CASE i = n
        BY <2>4, <4>1, <4>2
      <4>3. CASE i # n
        BY <2>1, <2>4, <4>1, <4>3
      <4> QED
        BY <4>2, <4>3
    <3> QED
      BY <3>1, <3>2
  <2> HIDE DEF f, Good
  <2> QED
    BY <2>4, <2>5
<1>3. N \in S
  <2> HIDE DEF S
  <2> QED
    BY <1>1, <1>2, UpTo
<1>4. PICK f \in [0..N -> X] : Good(f, N)
  BY <1>3
<1> QED
  BY <1>4 DEF GoesBy

================================================================================
