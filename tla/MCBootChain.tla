---------------------------- MODULE MCBootChain ----------------------------
(***************************************************************************)
(* Bounds for BootChain: three faults and three operator                   *)
(* actions reach every stage with every pair of kernel copies.             *)
(***************************************************************************)
EXTENDS BootChain
=============================================================================
