------------------------------ MODULE MCWriteString ------------------------------
(* All strings of up to MaxLen units, through a buffer that is smaller than   *)
(* most of them.                                                              *)
EXTENDS WriteString

CONSTANT MaxLen

MCInput == UNION {[1..n -> Unit] : n \in 0..MaxLen}
================================================================================
