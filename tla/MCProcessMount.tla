--------------------------- MODULE MCProcessMount ---------------------------
(* Instances of ProcessMount for TLC: the targets are model values.         *)
EXTENDS ProcessMount, TLC

CONSTANTS t1, t2

=============================================================================
