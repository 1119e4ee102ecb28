------------------------------ MODULE MCLoady ------------------------------
(***************************************************************************)
(* Four blocks numbered modulo three, so that the number wraps inside the  *)
(* file; two files in a run, so that the second finds the rate the first   *)
(* left; as many hits on the line as a block has attempts; one stall.      *)
(***************************************************************************)
EXTENDS Loady
=============================================================================
