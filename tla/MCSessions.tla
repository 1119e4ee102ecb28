----------------------------- MODULE MCSessions -----------------------------
(***************************************************************************)
(* Two chunks, so that one can confirm another; two answers too late; two  *)
(* runs of swap; two crash records.  Four numbers, so that lx_run never    *)
(* runs out of one that is not under way; the numbers are interchangeable. *)
(* Three rounds of a soak and three troubles, so that what one round left  *)
(* behind is there when a later one fails half-way.                        *)
(***************************************************************************)
EXTENDS HostTools, TLC

Symmetry == Permutations(Numbers)
=============================================================================
