---------------------------- MODULE MCCardFlash ----------------------------
(***************************************************************************)
(* Two builds and three runs over either link, two power cuts, one bad     *)
(* write and one failed read: an interrupted run, its rerun, and a run of  *)
(* the next build.                                                         *)
(***************************************************************************)
EXTENDS CardFlash, TLC

\* One build is as good as another.
Interchangeable == Permutations(Builds)
=============================================================================
